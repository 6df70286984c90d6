# csi-runtime in TLA+

Models, model checks and proofs of the parts of csi-runtime that keep state:
the node service with its volume locks, the driver around it, the atomic writer,
the storage on disk and in memory, the search for a device, and the mounter for
Windows. References such as `nodeserver.go:641` are to the files under `src/`;
`spec.md` is `src/docs/spec.md`.

## 1. The system

A csi-runtime driver is a gRPC server on one node. A container orchestrator
(CO) calls it to make volumes available below directories of that node. What a
volume is comes from a *manager*, the code of the driver's author, through the
optional interfaces Block, Mount and Populate (`node/interface.go`).

| Component | State | Operations | Talks to |
| --- | --- | --- | --- |
| Volume locks `utils/volume_lock.go` | a set of IDs behind `sync.Mutex` | TryAcquire, Release | the node handlers |
| Node service `node/nodeserver.go` | the locks; everything else is in the kernel and in the manager | NodeStageVolume, NodePublishVolume, NodeUnpublishVolume, NodeUnstageVolume, four stateless calls | mount(8), umount(8), the file system, the manager |
| Mount helpers `utils/mount.go` | none | GetDeviceFromPath, GetDeviceFromMount, BindMount | the mount table |
| Atomic writer `third_party/util/atomic_writer.go` | a directory: `..data`, timestamped directories, visible links | Write | the file system; readers of the directory |
| File storage `storage/filesystem.go` | a tmpfs: one directory per volume, metadata.json and data | Register-, Write- and ReadMetadata, WriteFiles, ReadFile, RemoveVolume, ListVolumes | the atomic writer |
| Storage in memory `storage/memory.go` | a map behind `sync.Mutex` | the same | - |
| Driver and server `driver/`, `server/` | a gRPC server | Start, Stop, ForceStop | the three services |
| Identity, controller | none | dispatch on the interfaces of a manager | the manager |
| Device utilities `mount-manager/device-utils.go` | none | VerifyDevicePath polls, searches and repairs | the kernel's disks, udev |
| Windows mounters `mount-manager/safe-mounter-v1_windows.go`, `..v1beta..`, `node/utils_windows.go` | none; disks, volumes and links of Windows | FormatAndMount, UnmountDevice, Mount, RemovePodDir, GetDiskNumber | CSI proxy |
| Statistics, configuration, listeners | none | one outside call each | statfs, net |

What is hard in it:

- *Concurrency.* gRPC runs each handler in a goroutine. TryAcquire refuses a
  second one for a volume, but Stage and Publish look at their path before they
  take the lock, and Unstage decides what to do from a mount table it read
  before. Storage has no lock and ListVolumes runs beside everything.
- *Partial failure.* Every outside call may fail after earlier ones have
  changed the kernel, the manager or the disk; nothing is rolled back.
- *Crashes.* Locks and handlers vanish, mounts, attachments and files stay.
- *Stale names.* Device nodes and disk numbers are read in one step and used in
  a later one; disks leave, come back and get the names of others meanwhile, and
  udev moves links in the background.
- *Lost and late calls.* The CO gives up calls, repeats them, and changes its
  mind; a call that was given up still runs. CSI asks every call to be
  idempotent.

## 2. Modules

| Module | What it is |
| --- | --- |
| `VolumeMutex` | abstract: an atomic try-lock per volume |
| `VolumeLocks` | `volume_lock.go` under its mutex, implements `VolumeMutex` |
| `VolumeLocks_proofs` | type correctness, exclusion and the implementation, proved |
| `NodeServer` | the four handlers over mount table, file system and manager |
| `NodeServer_proofs` | type correctness, four safety invariants and that a device is detached last, proved |
| `VolumeLifecycle` | abstract: no volume in use is pulled away |
| `NodeLifecycle` | `NodeServer` and a CO that keeps the rules of the CSI document; implements `VolumeLifecycle` |
| `NodeLifecycle_proofs` | the implementation, type correctness and three safety invariants, proved |
| `Services` | what the identity, controller and node services advertise and answer |
| `Driver` | Start, Stop and the calls of clients over a gRPC server |
| `Driver_proofs` | type correctness, shutdown and advertising, proved |
| `AtomicFiles` | abstract: the visible files change all at once |
| `AtomicWriter` | `Write`, call by call; implements `AtomicFiles` |
| `AtomicWriter_proofs` | type correctness, the meaning of nil and the implementation, proved |
| `FilesystemStorage` | `storage.Filesystem`, call by call |
| `MemoryStorage` | `storage.MemoryFS` as a function per method, beside `FilesystemStorage` |
| `FilesystemStorage_proofs` | type correctness, the three invariants of the storage and that the two storages agree, proved |
| `DeviceUtils` | VerifyDevicePath, the kernel's disks and udev |
| `DeviceUtils_proofs` | type correctness, the meaning of true, and the repair, proved |
| `WindowsMounter` | CSIProxyMounterV1, one step per call of CSI proxy |
| `WindowsMounter_proofs` | type correctness, safety of data and the meaning of nil, proved |
| `MC*` | constants and symmetry for TLC |

### VolumeLocks

`locks` is the set, `mux` the goroutine that holds the mutex, `pc` and `vol`
where each goroutine is and which ID it asks for. `LockTry` and `LockRelease`
take the mutex, `Has`, `Insert` and `Delete` are the operations of the set,
`Unlock` is the deferred unlock. Set operations are
steps of their own so that leaving the mutex out, or releasing it early, would
show. The goroutine is a node handler: TryAcquire, and Release if it got true.

### NodeServer

One state variable per place where the system remembers something: `locks`
(`ns.volumeLocks`), `path` (nothing, directory or link at each staging and
target path), `mounts` (the stack of mounts on each path: what file system, and
whether read-only), `files` (a staging directory that Populate filled),
`attached` (the manager's block devices), and per goroutine `pc`, `req`, `dev`
(`blockPath`) and `code`. `lost` records that Unstage removed the files of the
volume itself.

One action per call to the outside, in the order of the code, with the early
returns: `Validate`, `Stat` (before the lock), `TryAcquire`, then
`CheckTarget` .. `Remount` / `ReadLink`, `LinkTarget` for Publish, `Attach`,
`LinkStaging` / `AskMount`, `Mount`, `Populate` for Stage, `FindDevice` ..
`Detach` for Unstage, `UnmountTarget`, `RemoveTarget` for Unpublish, and
`Release` and `Reply`. Each of these calls may fail where the code looks at its
error, also the reading of the mount table (`FindMount`), the removal of a link
(`RemoveLink`) or of a target (`RemoveTarget`), and os.RemoveAll before or after the
files are gone (`RemoveAll`). Merging of mount options and the texts of errors are
left out.

The kernel and the manager are external, modelled from how the handlers use
them, with constants where hosts and managers differ:

- `MountSource`: what the manager's MountResponse names. A device that is
  mounted at a path is refused there a second time (EBUSY); a file system made
  anew, such as FUSE, is not; `host` is a directory of the host's own file
  system mounted with `bind`, which IsLikelyNotMountPoint does not recognize
  because it compares device numbers.
- `Implements`: which of Block, Mount and Populate the manager is.
- `BareNodes`: GetDeviceFromPath compares the whole mode of a node with
  `os.ModeDevice`, so it recognizes a device only if it has no permission bits.
- `SafeUmount`: mount-utils takes "not mounted" for success on hosts whose
  umount(8) supports it.
- AttachBlock is idempotent, and DetachBlock detaches the device it is given
  and ignores an empty path.

### NodeLifecycle

Adds the CO: `phase` is its record of every staging path and target,
`waiting` the calls it waits for. It sends at most one call per volume at a
time (spec.md:417), keeps the order Stage, Publish, Unpublish, Unstage, sends a
failed call again or turns to the opposite one (spec.md:2128), gives up the
calls in `Impatient`, and creates the staging directory (spec.md:2146). A call
it gave up runs on in the server. `loose` is a history variable: the devices left
attached and not mounted by a Stage cut short between AttachBlock and the mount, or by
an Unstage between the umount and DetachBlock (`CutShort`).

### Services and Driver

A server is a record of what its answers depend on: the interfaces its manager
implements (`manager`), the capabilities a controller manager names itself
(`extra`), whether there is a controller (`controller`, set by NewWithListener),
whether name and version are configured (`named`). `Advertised` and `Answers`
are the dispatch of a call; `MethodsOf` is what the CSI document says a
capability obliges a plugin to, CONTROLLER_SERVICE to ValidateVolumeCapabilities among
them. `NeverServed` are the two methods of these that no interface makes the services
serve.

`pc` is where Start and each caller of Stop are, `serve` where the goroutine of
Start is, `cancelled` its context. `quit`, `listening` and `gone` are the fields
of grpc.Server that Serve and GracefulStop share (v1.49.0, go.mod): quit fired,
the set of listeners not nil, the set of connections nil. GracefulStop is two
steps, closing the listeners and coming back when the accept loop and the calls
have ended; Serve that begins late finds no listeners; Serve that GracefulStop
ends waits for it. A connection carries one call, which is `accepted`, then
`running`, then answered. `told` and `refused` remember what answers said.

### AtomicWriter

The steps are numbered as in the comment of Write. A payload is a function from
paths (sequences of names) to contents; `ShouldWriteFile`, `PathsToRemove` and
`Names` are the helpers of the same names. `goos` selects rename or the three
calls that stand for it on Windows, where `AtomicFiles` allows the files to be
gone for a moment, but never to be mixed. `ValidPath` is validatePath, which looks
at a path before it is cleaned, with `Reserved` for all names that begin with `..`;
`Cleaned` is what validatePayload makes of a valid
payload, where two paths may fall together and the last one in the order of a Go
map wins. `..data` and `..data_tmp` are entries of the same directory as the visible
names: a path `./..data`, which is valid before it is cleaned, meets them, and
`Elsewhere` is where a link leads that Write has made for such a name (`AddLink`,
`RemoveLink`). Calls whose error the code drops may fail too: os.Remove of `..data_tmp`
(`DropTmp`), os.RemoveAll of the new directory (`RemoveNew`), the walk of the old
directory (`FindPaths`, failure `walk`) and the lookup of a visible name (`LinkNames`,
failure `lookup`). The last two make a nil error untrue, so they are failures of
their own that a run may leave out.
Separators are those of Linux. `TooLong` stands for the limits on lengths. The random
names of timestamped directories are taken to be new.
Writes of a directory do not overlap, as the type's comment demands.
`orphan` is a history variable: a killed process or a failing os.Remove has left
`..data_tmp`.

### FilesystemStorage

`dirs`, `dataDirs`, `metadata` and `torn` are the tmpfs: a metadata.json is
missing, parses (`metadata`), or has been cut short by `os.WriteFile` (`torn`).
`files`, `group` and `dirGroup` are what is below `..data`, its group and that of the
data directory, with the atomic writer as `AtomicFiles` promises it. Two rests that it
does not clear away are kept: `hidden`, the volumes of which some visible links are
gone while `..data` is intact, and `stale`, those with a `..data_tmp` that makes each
new Write fail. os.RemoveAll removes one of these things at a time, in any order, and
may fail or be killed in between (`RemoveAll`). Groups are numbers: `Gid` is what chown
gets, modulo 2^32, and the largest, `MaxGroup`, means no change to it (`IsSet`);
`FixedFSGroup` may be any number, as nothing checks it. ReadMetadata may fail on a file
that is intact, and RegisterMetadata then goes on with the zero Metadata, as it does for
a torn one; `misread` is history that says so. The model leaves out the visible links
that a WriteFiles makes before it fails. `NoID` is the empty volume ID. Calls about
one volume do not overlap (handlers call the storage under the volume's lock),
ListVolumes overlaps with anything. `always` and `ever` are history variables.
`AbsoluteBase` says that baseDir is absolute: see section 6. `Registered` and `Written`
bound the contexts that metadata and files are written for; of the first the code only
compares the contexts, of the second it only reads the group. The target path in the metadata is left out.

### MemoryStorage

Every method of MemoryFS is one critical section of its lock, so a call is a
function of `memory`, what the map holds: `RegisterMetadata`, `WriteMetadata`,
`WriteFilesToMap` and `RemoveVolume` give the new map and the answer. MemoryFS gets
each call when Filesystem begins it and Filesystem then takes its steps; `expected`
is what MemoryFS answered. `apart` are the volumes for which the two may differ:
one whose call failed or died on the way, and one with metadata written but no
registration. Removing such a volume brings the two together again, and so does
registering it, unless its metadata.json is torn or a `..data_tmp` is left in it. The
contents of files are left out.

### DeviceUtils

`disk` is what is behind each device node, `link` the node that the path below
/dev/disk/by-id leads to, `events` the nodes that udev has still to look at. `node`
and `todo` are the locals of the condition and of the search. One action per look
at the host: `Stat`, `Resolve`, `Serial`, then `Glob`, `Scan` node by node, and
`Trigger`, which only asks udev. `Tick` and `TimeUp` are wait.Poll: the condition
is tried once more when the time is up. Beside it `Change` attaches and detaches
disks, which udev may miss, and `Udev` moves the path. `quiet`, `prompt` and
`missing` are history of the call: no disk came or went, udev was at rest at each
attempt, an attempt found no path. A node of an unknown kind (not in `Known`) has
an empty serial, as in getDevFsSerial; that two nodes are the same disk is left out.

### WindowsMounter

One action per call to CSI proxy, named like it, with the early returns around it.
A disk holds one volume, with the same name; `number` gives a number to each
attached disk, and `Leave` takes it away so that `Arrive` may give it to another
one. `at` is the local variable of a method, a disk number (`diskNumber`) or a
volume (`volumeID`). `partitioned`, `online`, `formatted` and `data` are about
disks, `staging`, `shows` and `target` about paths.

Nothing under `src/` calls these methods or the helpers of `node/utils_windows.go`
that lead to them; the node handlers use other ones, of which BindMount is not
implemented on Windows (safe-mounter-v1_windows.go:331). What the module says is
therefore about the helpers alone. Which of them is called for which operation and in
which order (`FirstStep`), and that a disk has one call at a time (`Begin`), as a
handler that holds the volume's lock would see to, are assumptions about a caller that
the repository does not have. `lost`, `left`,
`torn` and `mixed` are history: data deleted, an UnmountDevice that ended between
Rmdir and SetDiskState, a disk that left while it was in use, and two calls that
came to work on one volume. The v1beta mounter makes the same calls under other
names and is not modelled a second time.

## 3. Runs

Nothing counts without limit except faults: `MaxFaults` bounds failing calls,
crashes and given-up calls of a behaviour. `MaxStack` bounds the mounts on one
path, `Dirs` the timestamped directories on disk.

| Run | Question | Bounds |
| --- | --- | --- |
| VolumeLocks | Are mutex and set an atomic try-lock, and does every call return? | 3 goroutines, 2 volumes |
| NodeServerDevice | For a device that is mounted: lock discipline; is what a handler checked true when it acts; does OK mean done; are only unmounted devices detached; is the volume's data safe? | 2 handlers, any requests, 1 fault or crash, 2 mounts on a path |
| NodeServerPopulate | The same for populated directories and links, with both access types mixed, on a host with bare device nodes; is every request answered and every lock released? | 2 handlers, 1 fault or crash |
| LifecycleDevice | With a CO that gives up Stage and Publish: is a volume that is up served, one that is down gone, an attached device mounted unless a call was cut short (`AttachedIsMounted`), and does the whole implement `VolumeLifecycle`? | 3 handlers, 2 targets, 3 faults |
| LifecycleProgress | Do retries bring a volume up and down, but for two named ends (`ComesUpOrIsThere`, `ComesDownOrIsGone`)? | 2 handlers, 2 faults, crashes or Stage and Publish calls given up |
| AtomicWriter | Does a reader see one payload or the next, does nil mean it is there, and does a caller that retries get its payload in place, except for named causes? | Linux and Windows, 9 payloads, some of which clash or are not valid, 3 directories, 2 faults or crashes, all but `walk` and `lookup` |
| Driver | Does what returns leave nothing running, does everyone return, is what is advertised for an interface served (`CheckedIsServed`)? | Start, 1 Stop, 2 calls, 2 identity and 2 controller servers, a node manager that is an Expand |
| StorageSafety | Is what was registered on disk; do files that were written without an error have the group asked for (`WrittenAreReadable`), also after a removal or a write that was cut short; is a list exact; and does Filesystem answer as MemoryFS does (`AgreesWithMemory`)? | 2 goroutines, 2 volumes, metadata for 2 contexts (`Registered`), files for 3 with the groups 1, 0 and one too large (`Written`), 1 payload, 1 fault or crash; `MaxGroup` is 2 |
| DeviceUtils | Does true mean the right disk, is a path to another disk repaired, and does the poll end? | 3 nodes, one of an unknown kind, 2 disks, 1 failing call, 2 disks that come or go (`MaxChanges`), 2 attempts at least (`MinTries`) |
| WindowsMounter | Is data safe, and does nil mean done? | 2 disks, 2 numbers, 2 failing calls or crashes, 1 disk that leaves (`MaxLeaves`) |
| UnpublishRetry, TornMetadata | Violations, section 6 | as small as shows them |

Why the bounds are enough. A volume's lock admits one handler, so that what can
go wrong between handlers goes wrong between the one that holds the lock and
one that is before it or after it: two handlers and one volume show that, and
volumes share nothing else. The third handler of LifecycleDevice lets a call
that was given up, a call of the opposite kind and a retry coexist. One fault
leaves every partial state that a handler can leave; since handlers are called
again and again the second call meets it. Two faults let the recovery from the
first fail. With payloads of at most two files, one below a directory, each of
"same, changed, added, removed, file instead of directory" occurs, and three
directories hold the old and the new one and one left behind, so that two
faults also fill the disk. Start and one Stop are the two GracefulStops that
can meet; with two calls one can be new while the other is being answered. Two disks
are the one asked for and the one that takes its name or number; a disk that
leaves and one that comes are the changes which that takes, and the unknown kind
of node is where the path may lead to what has no serial.

Symmetry is used for goroutines, targets and volumes, in runs without liveness
properties only.

## 4. Fairness

- `VolumeLocks`: weak fairness of each goroutine's steps, and strong fairness
  where a goroutine takes the mutex: sync.Mutex does not starve a waiter.
- `NodeServer`: weak fairness of the steps of each handler. The Go scheduler
  runs what can run, and the calls to the kernel and to the manager are
  supposed to return: nothing in the handlers bounds them. Nothing makes a
  request come, and no fault is fair.
- `NodeLifecycle`: the CO goes on retrying what it has begun. Sending is
  strongly fair per path, since another path of the volume may be in flight
  again and again. Nothing makes the CO begin or give up.
- `AtomicWriter`: the caller calls again, and a Write goes on.
- `DeviceUtils`: VerifyDevicePath and udev run (weak fairness). The timer of
  wait.Poll is strongly fair: attempts and waiting alternate, and pollTimeout has
  passed in the end. Nothing makes disks come or go.
- `Driver`: goroutines that can run do, Accept of a closed listener fails, and
  handlers end. The last one the code does not guarantee: nothing bounds a call
  of a manager (the field `ns.time` is never used), and one that hangs holds up
  Start and Stop for ever, since Driver never calls ForceStop. Nothing makes the
  context end or a Stop or a call come.

## 5. Proofs

All for arbitrary constants that satisfy the assumptions of the modules
(sets of callers, volumes and targets of any size, any manager, any set of
failing calls), with no bound on handlers or requests.

- `VolumeLocks_proofs`: `TypeCorrect`, `Exclusion` (no two goroutines own a
  volume) and `Refinement` (`Spec => MutexSpec`). The inductive invariant says
  in addition that whoever is between Lock and Unlock is the mutex's owner, and
  what each position knows: after `Has` answered no, the ID is still not in the
  set; an ID is in the set exactly if a goroutine owns it. The steps on the set
  map to the abstract acquisition or to a stutter.
- `NodeServer_proofs`: `TypeCorrect`, `LocksAreDisciplined` (`LockDiscipline`)
  and `ChecksStayTrue` (`ChecksHoldAtUse`). `LockDiscipline` is inductive with
  types. For the checks the argument is the lock: a step of one handler changes
  only the paths and mounts of the volume it has locked and of that volume's
  targets (each target belongs to one volume), so the facts of a handler of
  another volume stay, and a second handler of the same volume is not at work.
  The CO only creates missing directories, which makes no fact false. The
  inductive invariant `IInv` joins the three with `StepsMatchRequest`, what each
  position of `pc` says of the request (a handler at `bind` has a Publish
  request, and so on), and `MountsOnDirectories`, a path with mounts is a
  directory.
  `DataIsSafe` (`NeverDeletesData`) assumes `MountSource # "host"`. Under it
  every mount on a staging path shows the volume's own file system
  (`StagingShowsVolume`, inductive beside `IInv`), hence looks mounted; since
  RemoveAll runs only where nothing looks mounted, it finds no mount. Section 6
  shows that the assumption is needed.
  `OKAnswersAreTrue` (`OKIsTrue`) assumes `MountSource # "fresh"`, which section 6
  shows to be needed; `DetachIsLast` (`DetachesUnmounted`) assumes nothing. Their
  invariant `Answers` says beside `IInv` that a device is mounted once on a staging
  path, that all mounts on it show the same, that there are files in a staging
  directory only where nothing is ever mounted, that the device a handler works with is
  that of its volume, and per handler what its steps have done: who is about to
  populate has mounted, who is about to detach has unmounted all. As above, the
  volume's lock keeps what one handler has done from the others.
- `NodeLifecycle_proofs`: `NodeImplementsLifecycle` (`LSpec => LifecycleSpec`),
  `UpStaysServed` (`UpIsServed`), `DownStaysGone` (`DownIsGone`),
  `AttachedStaysMounted` (`AttachedIsMounted`) and `LTypeCorrect` (`LTypeOK`). A step of
  NodeLifecycle is a step of NodeServer, or a call given up, so that `IInv` and
  `Answers` carry over. What each theorem assumes of the CO:

  | Theorem | Volumes are used as file systems | The CO never gives up |
  | --- | --- | --- |
  | `LTypeCorrect`, `DownStaysGone` | | |
  | `AttachedStaysMounted` | yes | |
  | `NodeImplementsLifecycle` | yes | Unstage |
  | `UpStaysServed` | yes | Unstage, Unpublish |

  The last column is needed: an Unpublish that was given up and runs late takes down
  what a later Publish brought up, and an Unstage the volume under a target (a hazard in
  PROJECT.json without a property), which TLC finds at once in LifecycleDevice with that
  call in `Impatient`. Block volumes leave their devices attached, which a Stage that
  fails to link does not undo; they never come up (section 6), so that the other two
  would say nothing about them.

  The invariant `RInv`, of any CO, ties its record to the calls. The CO waits for at
  most one call per volume, which goes the way its path goes, and a call that it does
  not wait for is of `Impatient` (`RecordMatches`). A late Publish does no harm since
  Unpublish has removed the target, and nobody makes the directory again before the CO
  wants it (`DownIsNoDirectory`), which also holds between the OK and its arrival
  (`UnpublishedArrives`). `LInv`, of a CO that waits for Unstage, adds that nothing takes
  away what is up (`UpIsThere`), that what an OK said holds until the CO hears it
  (`OKArrives`), and that a target shows what the staging path shows, since all mounts
  on both show the same (`TargetsShowVolume`). For the refinement, each step that binds,
  unbinds, provisions or withdraws is one step of `VolumeLifecycle` on the request's
  path, with its guard from `Answers` and `LInv`; the others stutter.

  `AttachedStaysMounted` assumes `MountsItsDevices` too: a manager that attaches block
  devices mounts them. A device that is attached is mounted, or a handler that holds the
  volume's lock is between AttachBlock and mount(8) or between umount(8) and
  DetachBlock, or such a handler ended there in an error or a crash, which is what
  `loose` remembers. No other failure, no crash elsewhere and no call that was given up
  leaves a device that Unstage will not detach. Section 6 shows what happens to other
  managers, and what becomes of a device that is loose.
- `Driver_proofs`: `TypeCorrect`, `StoppedIsQuiet` (`NothingRunsAfter`) and
  `AdvertisingIsHonest` (`CheckedIsServed`). The first invariant orders what
  GracefulStop takes away: who drains has closed the listeners, who has returned
  has seen the connections gone, and without them there is neither a listener
  nor an accept loop nor a call. The second assumes nothing of the managers: it says
  that what was told is advertised by the servers, which never change, and that what
  was refused is answered Unimplemented by them. The two meet in a lemma: a
  controller's capability that its manager did not name itself comes from the
  interface that serves its methods. What is left are the two methods of
  `NeverServed`, which are refused indeed (section 6).
- `AtomicWriter_proofs`: `Refinement` (`Spec => AtomicFilesSpec`), `OKMeansShown`
  (`OKIsShown`), `TypeCorrect`. The invariant says that the files behind `..data`
  have no file that is a directory of another and all their names are linked
  (`Visible`), which directory is which at each step (`Places`: the new one is
  neither the visible nor the old one, it holds the payload once written, and
  `..data_tmp` leads to it before the switch), and that no path to be removed is a
  name of the payload (`Removes`). From it, only Switch, RemoveData and LinkData
  change what readers see, and they show the payload or, on Windows, nothing. The first
  two theorems assume `KeepOff`, that no cleaned path begins with one of the writer's
  own names, and `NothingDropped`, that neither the walk nor a lookup fails, two errors
  that the code drops; section 6 shows what happens without them. All other failures, the ignored ones of os.Remove and os.RemoveAll among them,
  are covered. One more assumption is about a library operator: `CleanAssumption`, that the cleaned path
  is a sequence of names (nothing can be proved in general about the recursive
  SelectSeq); TLC evaluates it for the payloads of the run.
- `FilesystemStorage_proofs`: `RegistrationHolds`, `WritingHolds`, `ListsAreExact`
  and `TypeCorrect`. The invariant: no two calls work on one volume (`Exclusive`,
  from the guard that stands for the volume's lock), and per call what kind it is at
  each step (`Fits`), where it is about to write (`Knows`), and what it has done
  (`Registers`, `Writes`). Nothing is assumed of `FixedFSGroup`, of what a context
  names, nor of how far a removal gets: the statements make their exceptions for a file
  that could not be read (`misread`) and for groups that chown does not set. For lists: a volume registered all the while is listed or
  still to be opened, and one listed was registered when it was opened. The run checks
  these properties under `PSpec` of MemoryStorage, whose steps are steps of `Spec`.
  `AgreementHolds` (`AgreesWithMemory`) is about `PSpec` and assumes a relative
  baseDir: with an absolute one RegisterMetadata answers true each time, where MemoryFS
  answers false the second time. `ContentsAgree` says without that assumption that both
  hold the same metadata of a volume between the calls about it. MemoryFS has done a
  call before Filesystem takes its first step; the invariant `MInv` says how far behind
  Filesystem is at each step (`Tracks`), that a volume that no call is about is the
  same in both (`Unused`, `Settled`), and nothing of the volumes in `apart`. A step
  that fails puts its volume there, so that only the steps without failures matter.
- `WindowsMounter_proofs`: `DataIsSafe` (`DataIsKept`), `NilMeansDone`
  (`NilIsTrue`), `TypeCorrect`. For the first: until two calls work on one volume no
  two have its ID (`Apart`), so that nobody writes to the volume between the check
  and the format, and one about to be formatted has no file system. For the second: until a disk leaves in use,
  every call's number and volume are those of the disk it is for, a path shows
  only its own disk, and a disk is online only if it is staged, being taken down,
  or left behind by an UnmountDevice that failed late (`Sound`).
- `DeviceUtils_proofs`: `TrueMeansFound` (`TrueIsTrue`), `RepairWorks`
  (`WrongPathIsRepaired`), `TypeCorrect`. While disks stay, the node that the path
  led to keeps its disk, and udev only ever moves the path to the wanted one
  (`Sure`). For the repair: after the first attempt the path leads to the disk or
  udev has been asked (`Asked`), udev is at rest when the next attempt begins, so
  that the last attempt, after time was up, finds it (`LastOneFinds`).

Every safety invariant, action property and refinement of the runs is so proved,
under the assumptions named here. Checked by TLC only: what holds under fairness
(`EveryCallReturns`, `NoVolumeStaysLocked`, `EveryCallEnds`, `ComesUpOrIsThere`,
`ComesDownOrIsGone`,
`WritesSucceed`, `StopsEnd`, `NoGoroutineStays`, `VerifyEnds`), since temporal leads-to
and ENABLED are out of the prover's reach.

## 6. What the code does not do

Two runs end in a counterexample.

- **UnpublishRetry** (`ComesDown`). The answer of an Unpublish that removed the
  target is lost: the umount of the missing path fails for ever (spec.md:2385).
- **TornMetadata** (`TrueMeansWritten`). A write of metadata.json is cut short.
  RegisterMetadata ignores ErrInvalidJSON, writes with the zero Metadata to
  `inmemfs/metadata.json` and returns true. From then on ListVolumes fails.

The same models show more when their constants are changed, or when a formula that they
define and the runs do not check is taken as the property:

| Model and constants | Then fails | Because |
| --- | --- | --- |
| NodeLifecycle, `Failing = {"detach"}`, 2 faults | `ComesDown` | DetachBlock fails after the umount; the retry finds no mount, removes the path, and DetachBlock fails once more: from then on GetDeviceFromPath of the missing path is an error of every Unstage (nodeserver.go:585), where spec.md:2208 asks for OK |
| NodeLifecycle, `"Stage"` in `Impatient` | `ComesUp` | the CO gives up a Stage that succeeds, and every retry mounts a mounted device and fails (nodeserver.go:473), where spec.md:2126 asks for OK |
| FilesystemStorage, `LargestGroup` in `Written` | `GroupIsAsAsked` | a volume may name the group 4294967295 (filesystem.go:347), which is `(gid_t)-1` to chown: the group stays as it is and WriteFiles returns nil |
| FilesystemStorage, as in StorageSafety | `WrittenAreVisible` | RemoveVolume fails with a visible link gone and `..data` intact; the next WriteFiles of the same files finds nothing to do (atomic_writer.go:154), and they have no name |
| AtomicWriter, `Payloads <- ReservedPayloads` | `DataIsLinked` | validatePath sees a path before filepath.Clean: `./..data` passes and becomes `..data`, which a later Write without it removes as a name that is no longer wanted, and answers nil (atomic_writer.go:253; :42 reserves such names) |
| AtomicWriter, `"walk"` in `Failing` | `OKIsShown` | a directory below the old one cannot be read; the visitor drops the error (atomic_writer.go:313), its files are not found, and Write returns nil while an old name stays visible, where :92 says that it is walked to find them |
| Driver, as in its run | `AdvertisedIsServed` | CONTROLLER_SERVICE is advertised and ValidateVolumeCapabilities always Unimplemented (controllerserver.go:72; spec.md:1371); EXPAND_VOLUME is advertised (nodeserver.go:697) and NodeExpandVolume always Unimplemented (spec.md:2653) |
| NodeServer, `MountSource = "host"` | `NeverDeletesData` | Unstage does not see the bind mount of a directory of the host's own file system, takes the staging path for a populated directory, and RemoveAll deletes the mounted files (nodeserver.go:609) |
| NodeLifecycle, `"Block"` with `"Populate"`, or with `"Mount"` and `MountSource = "fresh"` | `AttachedIsMounted` | no device is mounted: Unstage finds none in the mount table, calls DetachBlock with an empty path and answers OK |
| DeviceUtils, `DiskIsFound` as an invariant | `DiskIsFound` | the repair comes after the check that the path exists, so a missing path is never repaired (device-utils.go:182), where the comment at :166 promises it |
| WindowsMounter, `lost = {}` as an invariant | `lost = {}` | a disk leaves while FormatAndMount holds its number, which another disk gets; a second call, for that disk, is between IsVolumeFormatted and FormatVolume (safe-mounter-v1_windows.go:249) when the first one mounts it and data is written |
| NodeServer, `MountSource = "fresh"` | `OKIsTrue` | Stage on a staged path mounts again, one Unstage undoes one mount |
| NodeLifecycle, `CreatesTargets = FALSE` | `ComesUp` | Publish wants a target directory, where spec.md:2324 gives it to the plugin |
| NodeLifecycle, `AccessTypes = {"block"}` | `ComesUp` | Stage and Publish want a directory and then make a link in its place |
| FilesystemStorage, `AbsoluteBase = TRUE` | every ListVolumes returns an error | filesystem.go:45 asks for an absolute baseDir, but `os.DirFS("/")` refuses rooted paths |

A device that is loose stays attached: the mount of a Stage fails after AttachBlock, or
DetachBlock fails after the umount, and the next Unstage finds no mount, calls
DetachBlock with an empty path and answers OK.

`WritesSucceed` names what stops a writer for good: a `..data_tmp` that a
killed process, or an os.Remove that fails without being noticed, left makes every Symlink in step 8 fail; a file where the next
payload has a directory makes shouldWriteFile return ENOTDIR or EISDIR; and
every Write that fails in step 6 leaves a directory behind.

Filesystem and MemoryFS differ where `AgreesWithMemory` makes an exception:
WriteFiles for a volume that is not registered is ErrNotFound in memory and makes a
directory on disk; an invalid group is an error on disk only; after a failed or cut
short write only the disk has a rest. Three more are below what is modelled: MemoryFS
merges the files of two WriteFiles where the disk replaces them, keeps metadata.json
among the files, so that a file of that name overwrites it, and replaces
the target path together with the context, which the disk keeps.

More, seen while reading:

- isVolumePathMounted compares neither the readonly flag nor the access type of an
  earlier Publish with the request's (nodeserver.go:524 says that they must match).
- createUserVisibleFiles drops an error of os.Readlink that is not ErrNotExist and makes
  no link (atomic_writer.go:427); Write still returns nil (failure `lookup`).
- On Windows a Stage that fails before MountVolume leaves a staging directory on
  which no volume is mounted; UnmountDevice asks for its volume, gets an error, and
  fails each time it is called again (safe-mounter-v1_windows.go:133).
- `node/utils_windows.go:34` uses `defaultWindowsFsType`, which nothing defines:
  package node does not compile for Windows.

## 7. Not modelled

- ReadFile, PathForVolume and the mounting of the tmpfs in NewFilesystem, ReadFiles
  of MemoryFS: reading, with nothing that the storage remembers.
- The v1beta mounter for Windows: the calls of the v1 mounter under other names. The
  choice between the two in NewSafeMounter is one outside call.
- Volume statistics (`mount-manager/statter_*.go`): one statfs call and arithmetic on
  its answer, which nothing in the node service uses.
- Configuration and listeners: plain data and one net.Listen.
- The merging of mount options, and the texts of errors and logs.

## 8. Plan

Done, in this order: the volume locks; the node service, then with its
orchestrator; the atomic writer; the storage; the driver and the services; the
storage in memory beside the one on disk; the search for a device; the mounter for
Windows; and the proofs of each component's safety properties.

What could come next: what still holds, for a CO that gives up Unpublish or Unstage, of
the targets and volumes that it does not use again; the mode of a mount, once
isVolumePathMounted compares it; and the links that a failing WriteFiles makes, in the
storage as they are in the writer.
