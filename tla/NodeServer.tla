----------------------------- MODULE NodeServer -----------------------------
(***************************************************************************)
(* The CSI node service (src/node/nodeserver.go): NodeStageVolume,         *)
(* NodePublishVolume, NodeUnpublishVolume and NodeUnstageVolume, each run  *)
(* by a gRPC goroutine of its own, over the mount table and the file       *)
(* system of the host.                                                     *)
(*                                                                         *)
(* A handler is a sequence of steps, one per call it makes to the outside: *)
(* stat, mount, umount, remove, and the calls of the volume manager (the   *)
(* optional interfaces Block, Mount and Populate of src/node/interface.go).*)
(* Every step of two handlers may interleave.  The volume lock is the      *)
(* atomic one that VolumeLocks is proved to implement.  The server may     *)
(* crash between any two steps: the handlers and the locks are gone, the   *)
(* kernel's state stays.                                                   *)
(*                                                                         *)
(* The kernel, mount(8), umount(8), k8s.io/mount-utils and the manager are *)
(* modelled from how the handlers use them.                                *)
(***************************************************************************)
EXTENDS Naturals, Sequences, SequencesExt

CONSTANTS
    Calls,          \* the RPC goroutines
    Volumes,        \* the volume IDs; a volume's staging path has its name
    Targets,        \* the target paths of NodePublishVolume
    VolumeOf,       \* VolumeOf[t]: the volume that is published at target t
    NoDevice,       \* the empty device path
    OtherDevice,    \* a device column of the mount table that names no volume
    Implements,     \* the optional interfaces that the manager implements
    MountSource,    \* what the MountResponse of the manager names
    AccessTypes,    \* the access types that requests ask for
    BareNodes,      \* device nodes have no permission bits
    SafeUmount,     \* umount of a path that is not mounted is no error
    Failing,        \* the outside calls that may fail, and "crash" if the server may
    MaxFaults,      \* bound: failing calls and crashes in a behaviour
    MaxStack        \* bound: mounts the kernel stacks on one path

\* New refuses a manager without any of the three (src/node/nodeserver.go:73).
ASSUME ManagerAssumption ==
    /\ Implements \subseteq {"Block", "Mount", "Populate"}
    /\ Implements # {}

ASSUME PathsAssumption ==
    /\ Volumes \cap Targets = {}
    /\ VolumeOf \in [Targets -> Volumes]
    /\ {NoDevice, OtherDevice} \cap Volumes = {}
    /\ NoDevice # OtherDevice

\* none: Mount answers a nil response.  device: a block device, which the kernel
\* does not mount again on top of itself.  fresh: a file system that every mount
\* creates anew (tmpfs, FUSE).  host: a directory of the host's own file system,
\* mounted with the option "bind".
ASSUME SettingsAssumption ==
    /\ MountSource \in {"none", "device", "fresh", "host"}
    /\ AccessTypes \subseteq {"block", "mount"}
    /\ BareNodes \in BOOLEAN
    /\ SafeUmount \in BOOLEAN
    /\ MaxFaults \in Nat
    /\ MaxStack \in Nat \ {0}

VARIABLES
    locks,      \* ns.volumeLocks: the volume IDs with an ongoing operation
    pc,         \* the next step of each goroutine
    req,        \* its request
    dev,        \* its local variable blockPath
    code,       \* the status code it answers
    path,       \* what is at each path: nothing, a directory or a symbolic link
    mounts,     \* the mounts stacked on each path, the first one at the bottom
    files,      \* the volumes whose staging directory itself holds files
    attached,   \* the volumes whose block device the manager has attached
    lost,       \* the volumes whose own data has been deleted
    faults      \* the number of failures so far

handlers == <<pc, req, dev, code>>
kernel == <<path, mounts, files, lost>>
vars == <<locks, handlers, kernel, attached, faults>>

-----------------------------------------------------------------------------
\* Requests, paths and mounts.

Paths == Volumes \cup Targets

\* valid: the request passes the checks on its arguments and the Validate
\* interface of the manager.
StageRequests ==
    [op : {"Stage"}, vol : Volumes, access : AccessTypes, valid : BOOLEAN]

UnstageRequests == [op : {"Unstage"}, vol : Volumes, valid : BOOLEAN]

PublishRequests ==
    {r \in [op : {"Publish"}, vol : Volumes, target : Targets,
            access : AccessTypes, readOnly : BOOLEAN, valid : BOOLEAN] :
        r.vol = VolumeOf[r.target]}

UnpublishRequests ==
    {r \in [op : {"Unpublish"}, vol : Volumes, target : Targets, valid : BOOLEAN] :
        r.vol = VolumeOf[r.target]}

Requests ==
    StageRequests \cup UnstageRequests \cup PublishRequests \cup UnpublishRequests

NoRequest == [op |-> "none"]

\* The file system a mount shows: the volume's own, the volume's directory in the
\* host's, or a staging directory on which nothing is mounted.
Mounts == [fs : {"own", "data", "dir"}, readOnly : BOOLEAN]

Shown(p) == IF mounts[p] = <<>> THEN "dir" ELSE Last(mounts[p]).fs

\* IsLikelyNotMountPoint compares the device number of a path with that of its
\* parent, so it misses a bind mount of the host's own file system.
LooksMounted(p) == path[p] = "dir" /\ Shown(p) = "own"

\* Mutant: the answer of IsLikelyNotMountPoint is not negated.
NotMountedIsMounted(p) == ~LooksMounted(p)

\* isVolumePathMounted: an error of the check means not mounted.
IsVolumePathMounted(p) == LooksMounted(p)

\* mount(2) needs a directory; the kernel bounds the mounts of a namespace.
CanMountOn(p) == path[p] = "dir" /\ Len(mounts[p]) < MaxStack

Push(p, fs) ==
    mounts' = [mounts EXCEPT ![p] = Append(@, [fs |-> fs, readOnly |-> FALSE])]

Pop(p) == mounts' = [mounts EXCEPT ![p] = Front(@)]

RemountTop(p, ro) ==
    mounts' = [mounts EXCEPT ![p] = Append(Front(@), [Last(@) EXCEPT !.readOnly = ro])]

\* GetDeviceFromPath on a staging path that exists: a device only if the mode of
\* the node is os.ModeDevice and nothing else.
DeviceAt(v) == IF path[v] = "link" /\ BareNodes THEN v ELSE NoDevice

\* Mutant: another column of the mount table.
TypeOfFirst(v) == IF LooksMounted(v) THEN Head(mounts[v]).fs ELSE NoDevice

\* GetDeviceFromMount: the device of the first entry of the mount table for the
\* path, which is the bottom of the stack.
DeviceOfFirst(v) ==
    IF ~LooksMounted(v) THEN NoDevice
    ELSE IF MountSource = "device" THEN v ELSE OtherDevice

-----------------------------------------------------------------------------
\* How a handler moves.

\* The steps between TryAcquire and the deferred Release.
PublishSteps ==
    {"checkTarget", "checkStaging", "bind", "remount", "readLink", "linkTarget"}
StageSteps == {"attach", "linkStaging", "askMount", "mount", "populate"}
UnstageSteps ==
    {"findDevice", "removeLink", "findMount", "unmount", "removeAll", "detach"}
UnpublishSteps == {"unmountTarget", "removeTarget"}

Working ==
    PublishSteps \cup StageSteps \cup UnstageSteps \cup UnpublishSteps \cup {"release"}

Steps == Working \cup {"idle", "validate", "stat", "tryAcquire", "reply"}

Codes == {"none", "OK", "InvalidArgument", "FailedPrecondition", "Aborted",
          "Internal", "Unimplemented", "Unknown"}

Vol(c) == req[c].vol
Target(c) == req[c].target

Goto(c, step) == pc' = [pc EXCEPT ![c] = step] /\ UNCHANGED code

\* A return before TryAcquire succeeded.
Refuse(c, answer) ==
    /\ pc' = [pc EXCEPT ![c] = "reply"]
    /\ code' = [code EXCEPT ![c] = answer]

\* A return under the lock: the deferred Release runs next.
Return(c, answer) ==
    /\ pc' = [pc EXCEPT ![c] = "release"]
    /\ code' = [code EXCEPT ![c] = answer]

\* An outside call fails and leaves nothing behind, or the server crashes.
Fails(call) ==
    /\ call \in Failing
    /\ faults < MaxFaults
    /\ faults' = faults + 1

Init ==
    /\ locks = {}
    /\ pc = [c \in Calls |-> "idle"]
    /\ req = [c \in Calls |-> NoRequest]
    /\ dev = [c \in Calls |-> NoDevice]
    /\ code = [c \in Calls |-> "none"]
    /\ path = [p \in Paths |-> "absent"]
    /\ mounts = [p \in Paths |-> <<>>]
    /\ files = {}
    /\ attached = {}
    /\ lost = {}
    /\ faults = 0

\* gRPC starts a goroutine for a request.
Receive(c, r) ==
    /\ pc[c] = "idle"
    /\ pc' = [pc EXCEPT ![c] = "validate"]
    /\ req' = [req EXCEPT ![c] = r]
    /\ code' = [code EXCEPT ![c] = "none"]
    /\ UNCHANGED <<locks, dev, kernel, attached, faults>>

\* The checks on the arguments that open each handler.
Validate(c) ==
    /\ pc[c] = "validate"
    /\ IF ~req[c].valid THEN Refuse(c, "InvalidArgument")
       ELSE IF req[c].op \in {"Stage", "Publish"} THEN Goto(c, "stat")
       ELSE Goto(c, "tryAcquire")
    /\ UNCHANGED <<locks, req, dev, kernel, attached, faults>>

\* os.Stat of the path that Stage or Publish is to mount on, before the lock.
Stat(c) ==
    /\ pc[c] = "stat"
    /\ LET p == IF req[c].op = "Stage" THEN Vol(c) ELSE Target(c)
       IN  IF path[p] = "dir"
           THEN Goto(c, "tryAcquire")
           ELSE Refuse(c, "FailedPrecondition")
    /\ UNCHANGED <<locks, req, dev, kernel, attached, faults>>

\* Mutant: Unpublish removes the target before it unmounts it.
RemoveBeforeUnmount(r) ==
    CASE r.op = "Stage"                           -> "attach"
      [] r.op = "Unstage"                         -> "findDevice"
      [] r.op = "Unpublish"                       -> "removeTarget"
      [] r.op = "Publish" /\ r.access = "block"   -> "readLink"
      [] OTHER                                    -> "checkTarget"

\* The first step of each handler under the lock.
FirstStep(r) ==
    CASE r.op = "Stage"                           -> "attach"
      [] r.op = "Unstage"                         -> "findDevice"
      [] r.op = "Unpublish"                       -> "unmountTarget"
      [] r.op = "Publish" /\ r.access = "block"   -> "readLink"
      [] OTHER                                    -> "checkTarget"

\* Mutant: the answer of TryAcquire is not looked at.
AcquireAlways(c) ==
    /\ pc[c] = "tryAcquire"
    /\ locks' = locks \cup {Vol(c)}
    /\ Goto(c, FirstStep(req[c]))
    /\ UNCHANGED <<req, dev, kernel, attached, faults>>

\* Mutant: a handler waits for the lock instead of answering Aborted.
AcquireWaiting(c) ==
    /\ pc[c] = "tryAcquire"
    /\ Vol(c) \notin locks
    /\ locks' = locks \cup {Vol(c)}
    /\ Goto(c, FirstStep(req[c]))
    /\ UNCHANGED <<req, dev, kernel, attached, faults>>

TryAcquire(c) ==
    /\ pc[c] = "tryAcquire"
    /\ IF Vol(c) \in locks
       THEN Refuse(c, "Aborted") /\ UNCHANGED locks
       ELSE Goto(c, FirstStep(req[c])) /\ locks' = locks \cup {Vol(c)}
    /\ UNCHANGED <<req, dev, kernel, attached, faults>>

\* Mutant: an error return leaves the volume locked.
ReleaseOnSuccess(c) ==
    /\ pc[c] = "release"
    /\ locks' = IF code[c] = "OK" THEN locks \ {Vol(c)} ELSE locks
    /\ Goto(c, "reply")
    /\ UNCHANGED <<req, dev, kernel, attached, faults>>

\* defer ns.volumeLocks.Release(volumeID).
Release(c) ==
    /\ pc[c] = "release"
    /\ locks' = locks \ {Vol(c)}
    /\ Goto(c, "reply")
    /\ UNCHANGED <<req, dev, kernel, attached, faults>>

\* gRPC sends the answer and the goroutine ends.
Reply(c) ==
    /\ pc[c] = "reply"
    /\ pc' = [pc EXCEPT ![c] = "idle"]
    /\ req' = [req EXCEPT ![c] = NoRequest]
    /\ dev' = [dev EXCEPT ![c] = NoDevice]
    /\ code' = [code EXCEPT ![c] = "none"]
    /\ UNCHANGED <<locks, kernel, attached, faults>>

-----------------------------------------------------------------------------
\* NodePublishVolume.

\* Mount access: a target that is mounted already is answered OK.
CheckTarget(c) ==
    /\ pc[c] = "checkTarget"
    /\ IF IsVolumePathMounted(Target(c))
       THEN Return(c, "OK")
       ELSE Goto(c, "checkStaging")
    /\ UNCHANGED <<locks, req, dev, kernel, attached, faults>>

CheckStaging(c) ==
    /\ pc[c] = "checkStaging"
    /\ IF path[Vol(c)] = "dir"
       THEN Goto(c, "bind")
       ELSE Return(c, "FailedPrecondition")
    /\ UNCHANGED <<locks, req, dev, kernel, attached, faults>>

\* Mutant: Publish creates the target directory itself, under the lock.
BindCreatingTarget(c) ==
    /\ pc[c] = "bind"
    /\ path' = [path EXCEPT ![Target(c)] = "dir"]
    /\ Len(mounts[Target(c)]) < MaxStack
    /\ Push(Target(c), Shown(Vol(c)))
    /\ Goto(c, "remount")
    /\ UNCHANGED <<locks, req, dev, files, lost, attached, faults>>

\* BindMount, first mount(8) call: bind the staging path to the target.
Bind(c) ==
    /\ pc[c] = "bind"
    /\ \/ /\ CanMountOn(Target(c))
          /\ Push(Target(c), Shown(Vol(c)))
          /\ Goto(c, "remount")
          /\ UNCHANGED faults
       \/ /\ \/ ~CanMountOn(Target(c)) /\ UNCHANGED faults
             \/ Fails("mount")
          /\ Return(c, "Internal")
          /\ UNCHANGED mounts
    /\ UNCHANGED <<locks, req, dev, path, files, lost, attached>>

\* BindMount, second call: remount the bind mount with the option ro, if any.
Remount(c) ==
    /\ pc[c] = "remount"
    /\ \/ /\ RemountTop(Target(c), req[c].readOnly)
          /\ Return(c, "OK")
          /\ UNCHANGED faults
       \/ Fails("remount") /\ Return(c, "Internal") /\ UNCHANGED mounts
    /\ UNCHANGED <<locks, req, dev, path, files, lost, attached>>

\* Block access: the device that the staging path links to.
ReadLink(c) ==
    /\ pc[c] = "readLink"
    /\ IF path[Vol(c)] = "absent"
       THEN Return(c, "Unknown") /\ UNCHANGED dev
       ELSE Goto(c, "linkTarget") /\ dev' = [dev EXCEPT ![c] = DeviceAt(Vol(c))]
    /\ UNCHANGED <<locks, req, kernel, attached, faults>>

\* Mutant: a file that exists already is no error.
SymlinkOver(c, p) ==
    IF dev[c] # NoDevice
    THEN path' = [path EXCEPT ![p] = IF @ = "absent" THEN "link" ELSE @] /\ Return(c, "OK")
    ELSE Return(c, "Internal") /\ UNCHANGED path

\* os.Symlink fails if there is something at the path, or if it is to link to "".
Symlink(c, p) ==
    IF path[p] = "absent" /\ dev[c] # NoDevice
    THEN path' = [path EXCEPT ![p] = "link"] /\ Return(c, "OK")
    ELSE Return(c, "Internal") /\ UNCHANGED path

LinkTarget(c) ==
    /\ pc[c] = "linkTarget"
    /\ Symlink(c, Target(c))
    /\ UNCHANGED <<locks, req, dev, mounts, files, lost, attached, faults>>

-----------------------------------------------------------------------------
\* NodeStageVolume.

AfterAttach(c) == IF req[c].access = "block" THEN "linkStaging" ELSE "askMount"

\* AttachBlock, if the manager is a Block.  A manager attaches a volume that is
\* attached already without an error.
Attach(c) ==
    /\ pc[c] = "attach"
    /\ IF "Block" \in Implements
       THEN \/ /\ attached' = attached \cup {Vol(c)}
               /\ dev' = [dev EXCEPT ![c] = Vol(c)]
               /\ Goto(c, AfterAttach(c))
               /\ UNCHANGED faults
            \/ Fails("attach") /\ Return(c, "Internal") /\ UNCHANGED <<attached, dev>>
       ELSE Goto(c, AfterAttach(c)) /\ UNCHANGED <<attached, dev, faults>>
    /\ UNCHANGED <<locks, req, kernel>>

LinkStaging(c) ==
    /\ pc[c] = "linkStaging"
    /\ IF dev[c] = NoDevice
       THEN Return(c, "Unimplemented") /\ UNCHANGED path
       ELSE Symlink(c, Vol(c))
    /\ UNCHANGED <<locks, req, dev, mounts, files, lost, attached, faults>>

\* Mount, if the manager is one: what to mount, or nil.
AskMount(c) ==
    /\ pc[c] = "askMount"
    /\ \/ /\ Goto(c, IF "Mount" \in Implements /\ MountSource # "none"
                     THEN "mount" ELSE "populate")
          /\ UNCHANGED faults
       \/ "Mount" \in Implements /\ Fails("ask") /\ Return(c, "Internal")
    /\ UNCHANGED <<locks, req, dev, kernel, attached>>

SourceShows == IF MountSource = "host" THEN "data" ELSE "own"

\* The kernel's answer EBUSY to a device that is mounted on top of itself.
MountedAlready(v) == MountSource = "device" /\ Shown(v) = "own"

\* Mutant: the error of mount(8) is dropped.
MountUnchecked(c) ==
    /\ pc[c] = "mount"
    /\ Goto(c, "populate")
    /\ \/ /\ CanMountOn(Vol(c))
          /\ ~MountedAlready(Vol(c))
          /\ Push(Vol(c), SourceShows)
          /\ UNCHANGED faults
       \/ /\ \/ (~CanMountOn(Vol(c)) \/ MountedAlready(Vol(c))) /\ UNCHANGED faults
             \/ Fails("mount")
          /\ UNCHANGED mounts
    /\ UNCHANGED <<locks, req, dev, path, files, lost, attached>>

\* MountSensitive or FormatAndMountSensitive of the source on the staging path.
Mount(c) ==
    /\ pc[c] = "mount"
    /\ \/ /\ CanMountOn(Vol(c))
          /\ ~MountedAlready(Vol(c))
          /\ Push(Vol(c), SourceShows)
          /\ Goto(c, "populate")
          /\ UNCHANGED faults
       \/ /\ \/ (~CanMountOn(Vol(c)) \/ MountedAlready(Vol(c))) /\ UNCHANGED faults
             \/ Fails("mount")
          /\ Return(c, "Internal")
          /\ UNCHANGED mounts
    /\ UNCHANGED <<locks, req, dev, path, files, lost, attached>>

\* Mutant: an error of the manager's Populate is dropped.
PopulateUnchecked(c) ==
    /\ pc[c] = "populate"
    /\ files' = IF path[Vol(c)] = "dir" /\ mounts[Vol(c)] = <<>>
                THEN files \cup {Vol(c)} ELSE files
    /\ Return(c, "OK")
    /\ UNCHANGED <<locks, req, dev, path, mounts, lost, attached, faults>>

\* Populate, if the manager is one, writes below the staging path: into the mount,
\* or into the directory if nothing is mounted.  A failure may come after a write.
Populate(c) ==
    /\ pc[c] = "populate"
    /\ IF "Populate" \in Implements
       THEN \/ /\ path[Vol(c)] = "dir"
               /\ files' = IF mounts[Vol(c)] = <<>> THEN files \cup {Vol(c)} ELSE files
               /\ \/ Return(c, "OK") /\ UNCHANGED faults
                  \/ Fails("populate") /\ Return(c, "Internal")
            \/ /\ path[Vol(c)] # "dir"
               /\ Return(c, "Internal")
               /\ UNCHANGED <<files, faults>>
       ELSE /\ Return(c, IF "Mount" \in Implements /\ MountSource # "none"
                         THEN "OK" ELSE "Unimplemented")
            /\ UNCHANGED <<files, faults>>
    /\ UNCHANGED <<locks, req, dev, path, mounts, lost, attached>>

-----------------------------------------------------------------------------
\* NodeUnstageVolume.

\* Mutant: a staging path that does not exist is taken for a directory.
FindDeviceUnchecked(c) ==
    /\ pc[c] = "findDevice"
    /\ Goto(c, IF DeviceAt(Vol(c)) # NoDevice THEN "removeLink" ELSE "findMount")
    /\ UNCHANGED <<locks, req, dev, kernel, attached, faults>>

\* GetDeviceFromPath of the staging path.
FindDevice(c) ==
    /\ pc[c] = "findDevice"
    /\ IF path[Vol(c)] = "absent"
       THEN Return(c, "Unknown")
       ELSE Goto(c, IF DeviceAt(Vol(c)) # NoDevice THEN "removeLink" ELSE "findMount")
    /\ UNCHANGED <<locks, req, dev, kernel, attached, faults>>

\* The staging path is a device: os.Remove, and nothing is detached.
RemoveLink(c) ==
    /\ pc[c] = "removeLink"
    /\ \/ /\ path' = [path EXCEPT ![Vol(c)] = "absent"]
          /\ Return(c, "OK")
          /\ UNCHANGED faults
       \/ Fails("remove") /\ Return(c, "Unknown") /\ UNCHANGED path
    /\ UNCHANGED <<locks, req, dev, mounts, files, lost, attached>>

\* GetDeviceFromMount of the staging path, which reads the mount table.
FindMount(c) ==
    /\ pc[c] = "findMount"
    /\ \/ /\ dev' = [dev EXCEPT ![c] = DeviceOfFirst(Vol(c))]
          /\ Goto(c, IF DeviceOfFirst(Vol(c)) # NoDevice THEN "unmount" ELSE "removeAll")
          /\ UNCHANGED faults
       \/ Fails("mountTable") /\ Return(c, "Unknown") /\ UNCHANGED dev
    /\ UNCHANGED <<locks, req, kernel, attached>>

\* ns.mounter.Unmount: umount(8) takes the top mount off the path.
Unmounting(c, p, step, answer) ==
    /\ \/ /\ mounts[p] # <<>>
          /\ Pop(p)
          /\ Goto(c, step)
          /\ UNCHANGED faults
       \/ /\ mounts[p] = <<>> /\ path[p] # "absent" /\ SafeUmount
          /\ Goto(c, step)
          /\ UNCHANGED <<mounts, faults>>
       \/ /\ \/ mounts[p] = <<>> /\ (path[p] = "absent" \/ ~SafeUmount) /\ UNCHANGED faults
             \/ mounts[p] # <<>> /\ Fails("unmount")
          /\ Return(c, answer)
          /\ UNCHANGED mounts
    /\ UNCHANGED <<locks, req, dev, path, files, lost, attached>>

\* Mutant: the error of umount(8) is dropped.
UnmountUnchecked(c) ==
    /\ pc[c] = "unmount"
    /\ \/ Unmounting(c, Vol(c), "detach", "Unknown")
       \/ /\ Fails("unmount")
          /\ Goto(c, "detach")
          /\ UNCHANGED <<locks, req, dev, kernel, attached>>

Unmount(c) ==
    /\ pc[c] = "unmount"
    /\ Unmounting(c, Vol(c), "detach", "Unknown")

\* os.RemoveAll empties the directory that the path shows, then removes it, which
\* the kernel refuses for a mount point.  It may fail before or after it has removed
\* the files.
RemoveAll(c) ==
    /\ pc[c] = "removeAll"
    /\ \/ /\ mounts[Vol(c)] = <<>>
          /\ files' = files \ {Vol(c)}
          /\ \/ /\ path' = [path EXCEPT ![Vol(c)] = "absent"]
                /\ Goto(c, "detach")
                /\ UNCHANGED faults
             \/ Fails("remove") /\ Return(c, "Unknown") /\ UNCHANGED path
          /\ UNCHANGED lost
       \/ /\ mounts[Vol(c)] # <<>>
          /\ lost' = lost \cup {Vol(c)}
          /\ Return(c, "Unknown")
          /\ UNCHANGED <<path, files, faults>>
       \/ Fails("remove") /\ Return(c, "Unknown") /\ UNCHANGED <<path, files, lost>>
    /\ UNCHANGED <<locks, req, dev, mounts, attached>>

\* DetachBlock(ctx, blockPath), if the manager is a Block: the path is all it gets.
Detach(c) ==
    /\ pc[c] = "detach"
    /\ \/ /\ attached' = IF "Block" \in Implements THEN attached \ {dev[c]} ELSE attached
          /\ Return(c, "OK")
          /\ UNCHANGED faults
       \/ "Block" \in Implements /\ Fails("detach") /\ Return(c, "Unknown") /\ UNCHANGED attached
    /\ UNCHANGED <<locks, req, dev, kernel>>

-----------------------------------------------------------------------------
\* NodeUnpublishVolume.

UnmountTarget(c) ==
    /\ pc[c] = "unmountTarget"
    /\ Unmounting(c, Target(c), "removeTarget", "Internal")

\* os.Remove of the target, which the kernel refuses for a mount point.
RemoveTarget(c) ==
    /\ pc[c] = "removeTarget"
    /\ \/ /\ mounts[Target(c)] = <<>>
          /\ path' = [path EXCEPT ![Target(c)] = "absent"]
          /\ Return(c, "OK")
          /\ UNCHANGED faults
       \/ /\ (mounts[Target(c)] # <<>> /\ UNCHANGED faults) \/ Fails("remove")
          /\ Return(c, "Internal")
          /\ UNCHANGED path
    /\ UNCHANGED <<locks, req, dev, mounts, files, lost, attached>>

-----------------------------------------------------------------------------
\* The rest of the world.

\* The orchestrator creates the directory of a staging or target path.
MakeDir(p) ==
    /\ path[p] = "absent"
    /\ path' = [path EXCEPT ![p] = "dir"]
    /\ UNCHANGED <<locks, handlers, mounts, files, lost, attached, faults>>

\* The server is killed and starts again.
Crash ==
    /\ Fails("crash")
    /\ locks' = {}
    /\ pc' = [c \in Calls |-> "idle"]
    /\ req' = [c \in Calls |-> NoRequest]
    /\ dev' = [c \in Calls |-> NoDevice]
    /\ code' = [c \in Calls |-> "none"]
    /\ UNCHANGED <<kernel, attached>>

PublishStep(c) ==
    CheckTarget(c) \/ CheckStaging(c) \/ Bind(c) \/ Remount(c) \/ ReadLink(c) \/ LinkTarget(c)

StageStep(c) ==
    Attach(c) \/ LinkStaging(c) \/ AskMount(c) \/ Mount(c) \/ Populate(c)

UnstageStep(c) ==
    FindDevice(c) \/ RemoveLink(c) \/ FindMount(c) \/ Unmount(c) \/ RemoveAll(c) \/ Detach(c)

UnpublishStep(c) == UnmountTarget(c) \/ RemoveTarget(c)

\* The steps that a goroutine takes from a request to its answer.
HandlerStep(c) ==
    \/ Validate(c)
    \/ Stat(c)
    \/ TryAcquire(c)
    \/ PublishStep(c)
    \/ StageStep(c)
    \/ UnstageStep(c)
    \/ UnpublishStep(c)
    \/ Release(c)

Next ==
    \/ \E c \in Calls : (\E r \in Requests : Receive(c, r)) \/ HandlerStep(c) \/ Reply(c)
    \/ \E p \in Paths : MakeDir(p)
    \/ Crash

Spec == Init /\ [][Next]_vars

(***************************************************************************)
(* A goroutine that can run runs, and the calls it makes to the kernel and *)
(* to the manager return: nothing in the handlers bounds them in time (the *)
(* field ns.time is never used).  Requests need not come, and faults need  *)
(* not happen.                                                             *)
(***************************************************************************)
Fairness == \A c \in Calls : WF_vars(HandlerStep(c) \/ Reply(c))

FairSpec == Spec /\ Fairness

-----------------------------------------------------------------------------
\* Properties.

\* Type invariant.
TypeOK ==
    /\ locks \subseteq Volumes
    /\ pc \in [Calls -> Steps]
    /\ req \in [Calls -> Requests \cup {NoRequest}]
    /\ \A c \in Calls : pc[c] # "idle" => req[c] \in Requests
    /\ dev \in [Calls -> Volumes \cup {NoDevice, OtherDevice}]
    /\ code \in [Calls -> Codes]
    /\ path \in [Paths -> {"absent", "dir", "link"}]
    /\ mounts \in [Paths -> Seq(Mounts)]
    /\ files \subseteq Volumes
    /\ attached \subseteq Volumes
    /\ lost \subseteq Volumes
    /\ faults \in 0..MaxFaults

\* The set of locked volumes is exactly what the handlers between TryAcquire and
\* Release work on, one handler each: every return path of every handler passes
\* the deferred Release, none passes it twice, and a crash leaves no lock behind.
LockDiscipline ==
    /\ locks = {Vol(c) : c \in {d \in Calls : pc[d] \in Working}}
    /\ \A c, d \in Calls :
           pc[c] \in Working /\ pc[d] \in Working /\ Vol(c) = Vol(d) => c = d

\* What handler c found out about the host is still so when it acts on it.
CheckHolds(c) ==
    /\ pc[c] \in {"checkStaging", "bind"} => ~LooksMounted(Target(c))
    /\ pc[c] = "bind" => path[Vol(c)] = "dir"
    /\ pc[c] = "remount" =>
           mounts[Target(c)] # <<>> /\ Shown(Target(c)) = Shown(Vol(c))
    /\ pc[c] = "linkTarget" => dev[c] = DeviceAt(Vol(c))
    /\ pc[c] = "removeLink" => path[Vol(c)] = "link"
    /\ pc[c] = "unmount" => LooksMounted(Vol(c))
    /\ pc[c] \in {"findMount", "removeAll"} => path[Vol(c)] # "absent"
    /\ pc[c] = "removeAll" => ~LooksMounted(Vol(c))
    /\ pc[c] = "removeTarget" => path[Target(c)] # "absent"

\* What isVolumePathMounted and the stat of the staging path told Publish, and
\* GetDeviceFromPath and GetDeviceFromMount told Unstage, is true when the handler
\* acts on it: Publish binds an existing staging directory onto a target that does
\* not look mounted and remounts its own bind mount; Unstage unmounts only what is
\* mounted, and empties a directory only if nothing looks mounted on it.
ChecksHoldAtUse == \A c \in Calls : CheckHolds(c)

\* Provisioned(v): the staging path gives access to the volume.
Provisioned(r) ==
    IF r.access = "block" THEN path[r.vol] = "link"
    ELSE mounts[r.vol] # <<>> \/ r.vol \in files

Published(r) ==
    IF r.access = "block" THEN path[r.target] = "link" ELSE mounts[r.target] # <<>>

\* A handler that answers OK has done, or found done, what it was asked for, and
\* still holds the lock: whatever happened to the paths before, in other calls or
\* in calls cut short by a crash.
OKIsTrue ==
    \A c \in Calls :
        pc[c] = "release" /\ code[c] = "OK" =>
            CASE req[c].op = "Stage"     -> Provisioned(req[c])
              [] req[c].op = "Publish"   -> Published(req[c])
              [] req[c].op = "Unpublish" ->
                     path[Target(c)] # "link" /\ mounts[Target(c)] = <<>>
              [] req[c].op = "Unstage"   ->
                     mounts[Vol(c)] = <<>> /\ Vol(c) \notin files

\* Unstage never deletes the files of the volume itself, those below a mount on
\* the staging path, however its RemoveAll interleaves with Stage and with crashes.
NeverDeletesData == lost = {}

\* A device is detached only when nothing is mounted on the staging path any more:
\* DetachBlock comes after the umount, and no Stage slips in between.
DetachesUnmounted ==
    [][\A v \in Volumes : v \in attached /\ v \notin attached' => mounts[v] = <<>>]_vars

\* No volume stays locked: whatever fails, the volume is free for the next
\* operation some time later.
NoVolumeStaysLocked == \A v \in Volumes : v \in locks ~> v \notin locks

\* Every request is answered, or its connection breaks because the server crashes:
\* no handler waits for another one.
EveryCallEnds == \A c \in Calls : pc[c] # "idle" ~> pc[c] = "idle"
=============================================================================
