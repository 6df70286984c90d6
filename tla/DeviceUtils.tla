---------------------------- MODULE DeviceUtils -----------------------------
(***************************************************************************)
(* VerifyDevicePath of src/mount-manager/device-utils.go: wait until a     *)
(* path below /dev/disk/by-id leads to the disk of a given name, and ask   *)
(* udev to repair it if it leads elsewhere.  Every look at the host is a   *)
(* step.  Between two of them the kernel attaches and detaches disks and   *)
(* udev, which may miss what the kernel does, moves the path.              *)
(***************************************************************************)
EXTENDS Naturals

CONSTANTS
    Nodes,          \* the device nodes, /dev/*
    Known,          \* those named /dev/sd* or /dev/nvme*
    NoNode,         \* nothing: a path that is missing
    Disks,          \* the disks
    NoDisk,         \* a node name that is not in use
    Wanted,         \* the disk named deviceName
    Failing,        \* the outside calls that may fail
    MaxFaults,      \* bound: failing calls in a behaviour
    MaxChanges,     \* bound: disks that come and go in a behaviour
    MinTries        \* the attempts that pollTimeout leaves room for

ASSUME DeviceAssumption ==
    /\ Known \subseteq Nodes
    /\ NoNode \notin Nodes
    /\ NoDisk \notin Disks
    /\ Wanted \in Disks
    /\ MaxFaults \in Nat /\ MaxChanges \in Nat /\ MinTries \in Nat \ {0}

VARIABLES
    disk,           \* the disk behind each node
    link,           \* the node that devicePath leads to
    events,         \* the nodes whose events udev has still to handle
    pc,             \* the next step of VerifyDevicePath
    node,           \* devFsPath: in the condition, or in the search
    todo,           \* the nodes that the search has still to look at
    tries,          \* the attempts so far, up to MinTries
    timeUp,         \* pollTimeout has passed
    answer,         \* what it returns
    changes, faults

\* History of the call: no disk came or went, udev had always done its work when an
\* attempt began, and an attempt found no path.
VARIABLES quiet, prompt, missing

host == <<disk, link, events, changes>>
history == <<quiet, prompt, missing>>
vars == <<host, pc, node, todo, tries, timeUp, answer, faults, history>>

Steps == {"idle", "tools", "wait", "stat", "resolve", "serial", "glob", "scan",
          "trigger", "return"}

Answers == {"none", "true", "timeout", "error"}

InUse(n) == n \in Nodes /\ disk[n] # NoDisk

Init ==
    /\ disk \in {d \in [Nodes -> Disks \cup {NoDisk}] :
                     \A m, n \in Nodes : d[m] = d[n] /\ d[m] # NoDisk => m = n}
    /\ link \in Nodes \cup {NoNode}
    /\ events = {}
    /\ pc = "idle"
    /\ node = NoNode
    /\ todo = {}
    /\ tries = 0
    /\ timeUp = FALSE
    /\ answer = "none"
    /\ changes = 0
    /\ faults = 0
    /\ quiet = TRUE
    /\ prompt = TRUE
    /\ missing = FALSE

Goto(step) == pc' = step /\ UNCHANGED answer

Return(value) == pc' = "return" /\ answer' = value

Fails(call) ==
    /\ call \in Failing
    /\ faults < MaxFaults
    /\ faults' = faults + 1

\* Mutant: the time that has passed is not looked at.
TryForEver == Goto("wait")

\* The condition answers false: wait.Poll calls it again, unless time was up.
NotYet == IF timeUp THEN Return("timeout") ELSE Goto("wait")

-----------------------------------------------------------------------------
\* VerifyDevicePath.

Begin ==
    /\ pc = "idle"
    /\ quiet' = TRUE
    /\ prompt' = TRUE
    /\ missing' = FALSE
    /\ Goto("tools")
    /\ UNCHANGED <<host, node, todo, tries, timeUp, faults>>

\* ensureUdevToolsExist.
CheckTools ==
    /\ pc = "tools"
    /\ \/ Goto("wait") /\ UNCHANGED faults
       \/ Fails("tools") /\ Return("error")
    /\ UNCHANGED <<host, node, todo, tries, timeUp, history>>

\* pollInterval has passed.  A tick that finds the condition at work is dropped, so
\* that there may be fewer attempts than intervals.
Tick ==
    /\ pc = "wait"
    /\ prompt' = (prompt /\ events = {})
    /\ tries' = IF tries < MinTries THEN tries + 1 ELSE tries
    /\ Goto("stat")
    /\ UNCHANGED <<host, node, todo, timeUp, faults, quiet, missing>>

\* pollTimeout has passed: the condition is tried once more.
TimeUp ==
    /\ pc = "wait"
    /\ prompt' = (prompt /\ events = {})
    /\ tries = MinTries
    /\ timeUp' = TRUE
    /\ Goto("stat")
    /\ UNCHANGED <<host, node, todo, tries, faults, quiet, missing>>

\* pathExists, which follows links.  The branch for an empty devicePath comes after
\* it and is never reached: no file has that name.
Stat ==
    /\ pc = "stat"
    /\ \/ /\ IF InUse(link)
             THEN Goto("resolve") /\ UNCHANGED missing
             ELSE NotYet /\ missing' = TRUE
          /\ UNCHANGED faults
       \/ Fails("stat") /\ Return("error") /\ UNCHANGED missing
    /\ UNCHANGED <<host, node, todo, tries, timeUp, quiet, prompt>>

\* filepath.EvalSymlinks; the path may have gone meanwhile.
Resolve ==
    /\ pc = "resolve"
    /\ IF InUse(link)
       THEN Goto("serial") /\ node' = link
       ELSE Return("error") /\ UNCHANGED node
    /\ UNCHANGED <<host, todo, tries, timeUp, faults, history>>

\* Mutant: any disk of a known kind will do.
AnySerial ==
    /\ pc = "serial"
    /\ IF node \in Known /\ InUse(node) THEN Return("true") ELSE Goto("glob")
    /\ UNCHANGED <<host, node, todo, tries, timeUp, faults, history>>

\* getDevFsSerial of the node; a node of an unknown kind has an empty serial.
Serial ==
    /\ pc = "serial"
    /\ \/ /\ \/ node \notin Known /\ Goto("glob")
             \/ node \in Known /\ ~InUse(node) /\ Return("error")
             \/ /\ node \in Known /\ InUse(node)
                /\ IF disk[node] = Wanted THEN Return("true") ELSE Goto("glob")
          /\ UNCHANGED faults
       \/ node \in Known /\ Fails("serial") /\ Return("error")
    /\ UNCHANGED <<host, node, todo, tries, timeUp, history>>

-----------------------------------------------------------------------------
\* udevadmTriggerForDiskIfExists.

\* findAvailableDevFsPaths.
Glob ==
    /\ pc = "glob"
    /\ todo' = {n \in Known : InUse(n)}
    /\ Goto("scan")
    /\ UNCHANGED <<host, node, tries, timeUp, faults, history>>

\* Mutant: the first disk with another name ends the search.
ScanFirst ==
    /\ pc = "scan"
    /\ \/ todo = {} /\ Return("error") /\ UNCHANGED <<node, todo>>
       \/ \E n \in todo :
              IF disk[n] = Wanted
              THEN Goto("trigger") /\ node' = n /\ todo' = {}
              ELSE Return("error") /\ todo' = {} /\ UNCHANGED node
    /\ UNCHANGED <<host, tries, timeUp, faults, history>>

\* getDevFsSerial of one node after the other; one that cannot be read is passed over.
\* The condition gives up if none is the disk.
Scan ==
    /\ pc = "scan"
    /\ \/ todo = {} /\ Return("error") /\ UNCHANGED <<node, todo, faults>>
       \/ \E n \in todo :
              \/ /\ IF disk[n] = Wanted
                    THEN Goto("trigger") /\ node' = n /\ todo' = {}
                    ELSE Goto("scan") /\ todo' = todo \ {n} /\ UNCHANGED node
                 /\ UNCHANGED faults
              \/ Fails("serial") /\ Goto("scan") /\ todo' = todo \ {n} /\ UNCHANGED node
    /\ UNCHANGED <<host, tries, timeUp, history>>

\* udevadmChangeToDrive, which only asks for the repair.
Trigger ==
    /\ pc = "trigger"
    /\ node' = NoNode
    /\ \/ events' = events \cup {node} /\ NotYet /\ UNCHANGED faults
       \/ Fails("udevadm") /\ Return("error") /\ UNCHANGED events
    /\ UNCHANGED <<disk, link, changes, todo, tries, timeUp, history>>

\* The caller has the answer, and may call again.
End ==
    /\ pc = "return"
    /\ pc' = "idle"
    /\ answer' = "none"
    /\ node' = NoNode
    /\ tries' = 0
    /\ timeUp' = FALSE
    /\ UNCHANGED <<host, todo, faults, history>>

Verify ==
    \/ CheckTools \/ Tick \/ TimeUp \/ Stat \/ Resolve \/ Serial
    \/ Glob \/ Scan \/ Trigger \/ End

-----------------------------------------------------------------------------
\* The kernel and udev.

\* A disk comes or goes; udev hears of it, or misses it.
Change(n, d) ==
    /\ changes < MaxChanges
    /\ \/ disk[n] = NoDisk /\ d # NoDisk /\ \A m \in Nodes : disk[m] # d
       \/ disk[n] # NoDisk /\ d = NoDisk
    /\ disk' = [disk EXCEPT ![n] = d]
    /\ events' \in {events, events \cup {n}}
    /\ changes' = changes + 1
    /\ quiet' = FALSE
    /\ UNCHANGED <<link, pc, node, todo, tries, timeUp, answer, faults, prompt, missing>>

\* udev makes the path lead to the node of its disk, and no other node.
Udev(n) ==
    /\ n \in events
    /\ events' = events \ {n}
    /\ link' = IF disk[n] = Wanted THEN n ELSE IF link = n THEN NoNode ELSE link
    /\ UNCHANGED <<disk, changes, pc, node, todo, tries, timeUp, answer, faults, history>>

Next ==
    \/ Begin
    \/ Verify
    \/ \E n \in Nodes : Udev(n) \/ \E d \in Disks \cup {NoDisk} : Change(n, d)

Spec == Init /\ [][Next]_vars

(***************************************************************************)
(* VerifyDevicePath and udev run, and the timer of wait.Poll goes off:     *)
(* attempts do not go on for ever.                                         *)
(***************************************************************************)
Fairness == WF_vars(Verify) /\ SF_vars(TimeUp) /\ \A n \in Nodes : WF_vars(Udev(n))

FairSpec == Spec /\ Fairness

-----------------------------------------------------------------------------
\* Properties.

\* Type invariant.
TypeOK ==
    /\ disk \in [Nodes -> Disks \cup {NoDisk}]
    /\ link \in Nodes \cup {NoNode}
    /\ events \subseteq Nodes
    /\ pc \in Steps
    /\ node \in Nodes \cup {NoNode}
    /\ todo \subseteq Known
    /\ tries \in 0..MinTries
    /\ timeUp \in BOOLEAN /\ quiet \in BOOLEAN /\ prompt \in BOOLEAN /\ missing \in BOOLEAN
    /\ answer \in Answers
    /\ changes \in 0..MaxChanges
    /\ faults \in 0..MaxFaults

\* VerifyDevicePath answers true only if the path leads to the wanted disk, unless
\* disks came or went during the call: that udev moves the path between the look at
\* the path and the look at the disk does no harm.
TrueIsTrue == pc = "return" /\ answer = "true" /\ quiet => link \in Known /\ disk[link] = Wanted

\* The wanted disk is there, nothing fails, and udev does what it is told in time.
AllWell == quiet /\ prompt /\ faults = 0 /\ \E n \in Known : disk[n] = Wanted

\* If all is well VerifyDevicePath answers true, also when the path led to another
\* disk, unless an attempt finds no path.
WrongPathIsRepaired == pc = "return" /\ AllWell /\ ~missing => answer = "true"

\* If all is well VerifyDevicePath answers true ("If the device is not found, it will
\* attempt to fix any issues caused by missing paths or mismatched devices by running
\* a udevadm --trigger", src/mount-manager/device-utils.go:166).
DiskIsFound == pc = "return" /\ AllWell => answer = "true"

\* VerifyDevicePath comes to an end, whatever comes and goes meanwhile.
VerifyEnds == pc # "idle" ~> pc = "idle"
=============================================================================
