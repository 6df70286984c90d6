----------------------- MODULE WindowsMounter_proofs ------------------------
(***************************************************************************)
(* Proofs about WindowsMounter, for any disks, numbers and bounds.         *)
(***************************************************************************)
EXTENDS WindowsMounter, TLAPS

\* The steps at which a call holds the number of a disk, or the ID of a volume.
WithNumber == {"partition", "online", "list", "offline"}
WithVolume == {"check", "format", "mount", "unmount", "rmdir", "number"}

\* The type of a call; what it holds is what its step needs.
CallTyped ==
    /\ pc \in [Disks -> Steps]
    /\ at \in [Disks -> Numbers \cup Disks \cup {NoDisk}]
    /\ nil \in [Disks -> BOOLEAN]
    /\ \A d \in Disks : pc[d] \in WithNumber => at[d] \in Numbers
    /\ \A d \in Disks : pc[d] \in WithVolume => at[d] \in Disks

\* The type of the rest.
HostTyped ==
    /\ number \in [Numbers -> Disks \cup {NoDisk}]
    /\ partitioned \subseteq Disks /\ online \subseteq Disks /\ formatted \subseteq Disks
    /\ data \subseteq Disks /\ staging \subseteq Disks
    /\ lost \subseteq Disks /\ left \subseteq Disks
    /\ shows \in [Disks -> Disks \cup {NoDisk}]
    /\ target \in [Disks -> {"absent", "dir", "link"}]
    /\ op \in [Disks -> Ops]
    /\ faults \in 0..MaxFaults /\ leaves \in 0..MaxLeaves

Typed == HostTyped /\ CallTyped /\ torn \in BOOLEAN /\ mixed \in BOOLEAN

-----------------------------------------------------------------------------
\* Type correctness.

LEMMA InitTyped == Init => Typed
<1> SUFFICES ASSUME Init PROVE Typed
  OBVIOUS
<1>1. HostTyped
  <2>1. number \in [Numbers -> Disks \cup {NoDisk}] /\ shows \in [Disks -> Disks \cup {NoDisk}]
    BY DEF Init
  <2>2. target \in [Disks -> {"absent", "dir", "link"}] /\ op \in [Disks -> Ops]
    BY DEF Init, Ops
  <2>3. /\ partitioned \subseteq Disks /\ online \subseteq Disks /\ formatted \subseteq Disks
        /\ data \subseteq Disks /\ staging \subseteq Disks
        /\ lost \subseteq Disks /\ left \subseteq Disks
    BY DEF Init
  <2>4. faults \in 0..MaxFaults /\ leaves \in 0..MaxLeaves
    BY WindowsAssumption DEF Init
  <2> QED
    BY <2>1, <2>2, <2>3, <2>4 DEF HostTyped
<1>2. CallTyped
  <2>1. \A d \in Disks : pc[d] = "idle"
    BY DEF Init
  <2>2. pc \in [Disks -> Steps] /\ nil \in [Disks -> BOOLEAN]
    BY DEF Init, Steps
  <2>3. at \in [Disks -> Numbers \cup Disks \cup {NoDisk}]
    BY DEF Init
  <2> QED
    BY <2>1, <2>2, <2>3 DEF CallTyped, WithNumber, WithVolume
<1>3. torn \in BOOLEAN /\ mixed \in BOOLEAN
  BY Zenon DEF Init
<1> QED
  BY <1>1, <1>2, <1>3 DEF Typed

\* A method that returns keeps the type of its call.
LEMMA ReturnTyped ==
    ASSUME CallTyped, NEW d \in Disks, NEW ok \in BOOLEAN, Return(d, ok)
    PROVE  CallTyped'
BY DEF CallTyped, Return, Steps, WithNumber, WithVolume

\* So does one that goes to a step with what the step needs.
LEMMA GotoTyped ==
    ASSUME CallTyped, NEW d \in Disks, NEW step \in Steps,
           NEW x \in Numbers \cup Disks \cup {NoDisk}, GotoWith(d, step, x),
           step \in WithNumber => x \in Numbers,
           step \in WithVolume => x \in Disks
    PROVE  CallTyped'
BY DEF CallTyped, GotoWith, WithNumber, WithVolume

LEMMA StageTyped ==
    ASSUME Typed, NEW d \in Disks,
           \/ GetDiskNumber(d) \/ PartitionDisk(d) \/ SetOnline(d) \/ ListVolumesOnDisk(d)
           \/ IsVolumeFormatted(d) \/ FormatVolume(d) \/ MountVolume(d)
    PROVE  Typed'
<1> USE DEF Typed
<1>8. torn' \in BOOLEAN /\ mixed' \in BOOLEAN
  BY Zenon DEF GetDiskNumber, PartitionDisk, SetOnline, ListVolumesOnDisk, IsVolumeFormatted,
        FormatVolume, MountVolume, GotoVolume, history
<1>0. /\ \A n \in Numbers : number[n] \in Disks \cup {NoDisk}
      /\ at[d] \in Numbers \cup Disks \cup {NoDisk}
      /\ pc[d] \in WithNumber => at[d] \in Numbers
      /\ pc[d] \in WithVolume => at[d] \in Disks
  BY DEF HostTyped, CallTyped
<1>1. CASE GetDiskNumber(d)
  <2>1. HostTyped'
    BY <1>1 DEF GetDiskNumber, HostTyped, windows, history
  <2>2. Return(d, FALSE) \/ \E n \in Numbers : GotoWith(d, "partition", n)
    BY <1>1 DEF GetDiskNumber
  <2>3. CallTyped'
    BY <2>2, ReturnTyped, GotoTyped DEF Steps, StageSteps, WithNumber, WithVolume
  <2> QED
    BY <1>8, <2>1, <2>3
<1>2. CASE PartitionDisk(d)
  <2>1. at[d] \in Numbers
    BY <1>0, <1>2 DEF PartitionDisk, WithNumber
  <2>2. partitioned' \subseteq Disks
    <3>1. \/ partitioned' = partitioned
          \/ /\ number[at[d]] # NoDisk
             /\ partitioned' = partitioned \cup {number[at[d]]}
      BY <1>2 DEF PartitionDisk
    <3> QED
      BY <1>0, <2>1, <3>1 DEF HostTyped
  <2>5. HostTyped'
    BY <1>2, <2>2 DEF PartitionDisk, HostTyped, history
  <2>3. Return(d, FALSE) \/ GotoWith(d, "online", at[d])
    BY <1>2 DEF PartitionDisk, Goto
  <2>4. CallTyped'
    BY <1>0, <2>1, <2>3, ReturnTyped, GotoTyped DEF Steps, StageSteps, WithNumber, WithVolume
  <2> QED
    BY <1>8, <2>4, <2>5
<1>3. CASE SetOnline(d)
  <2>1. at[d] \in Numbers
    BY <1>0, <1>3 DEF SetOnline, WithNumber
  <2>2. online' \subseteq Disks /\ left' \subseteq Disks
    <3>1. \/ online' = online /\ left' = left
          \/ /\ number[at[d]] # NoDisk
             /\ online' = online \cup {number[at[d]]}
             /\ left' = left \ {number[at[d]]}
      BY <1>3 DEF SetOnline
    <3> QED
      BY <1>0, <2>1, <3>1 DEF HostTyped
  <2>5. HostTyped'
    BY <1>3, <2>2 DEF SetOnline, HostTyped
  <2>3. Return(d, FALSE) \/ GotoWith(d, "list", at[d])
    BY <1>3 DEF SetOnline, Goto
  <2>4. CallTyped'
    BY <1>0, <2>1, <2>3, ReturnTyped, GotoTyped DEF Steps, StageSteps, WithNumber, WithVolume
  <2> QED
    BY <1>8, <2>4, <2>5
<1>4. CASE ListVolumesOnDisk(d)
  <2>1. HostTyped'
    BY <1>4 DEF ListVolumesOnDisk, GotoVolume, HostTyped, windows
  <2>2. Return(d, FALSE) \/ \E v \in Disks : GotoWith(d, "check", v)
    BY <1>4 DEF ListVolumesOnDisk, GotoVolume, HostTyped
  <2>3. CallTyped'
    BY <2>2, ReturnTyped, GotoTyped DEF Steps, StageSteps, WithNumber, WithVolume
  <2> QED
    BY <1>8, <2>1, <2>3
<1>5. CASE IsVolumeFormatted(d)
  <2>1. HostTyped'
    BY <1>5 DEF IsVolumeFormatted, HostTyped, windows, history
  <2>2. at[d] \in Disks
    BY <1>0, <1>5 DEF IsVolumeFormatted, WithVolume
  <2>3. \/ Return(d, FALSE)
        \/ GotoWith(d, "mount", at[d])
        \/ GotoWith(d, "format", at[d])
    BY <1>5 DEF IsVolumeFormatted, Goto
  <2>4. CallTyped'
    BY <2>2, <2>3, ReturnTyped, GotoTyped DEF Steps, StageSteps, WithNumber, WithVolume
  <2> QED
    BY <1>8, <2>1, <2>4
<1>6. CASE FormatVolume(d)
  <2>1. at[d] \in Disks
    BY <1>0, <1>6 DEF FormatVolume, WithVolume
  <2>2. HostTyped'
    BY <1>6, <2>1 DEF FormatVolume, HostTyped
  <2>3. Return(d, FALSE) \/ GotoWith(d, "mount", at[d])
    BY <1>6 DEF FormatVolume, Goto
  <2>4. CallTyped'
    BY <2>1, <2>3, ReturnTyped, GotoTyped DEF Steps, StageSteps, WithNumber, WithVolume
  <2> QED
    BY <1>8, <2>2, <2>4
<1>7. CASE MountVolume(d)
  <2>1. at[d] \in Disks
    BY <1>0, <1>7 DEF MountVolume, WithVolume
  <2>2. HostTyped'
    BY <1>7, <2>1 DEF MountVolume, HostTyped, history
  <2>3. Return(d, FALSE) \/ Return(d, TRUE)
    BY <1>7 DEF MountVolume
  <2>4. CallTyped'
    BY <2>3, ReturnTyped
  <2> QED
    BY <1>8, <2>2, <2>4
<1> QED
  BY <1>1, <1>2, <1>3, <1>4, <1>5, <1>6, <1>7, <1>8

LEMMA UnstageTyped ==
    ASSUME Typed, NEW d \in Disks,
           \/ ExistsPath(d) \/ GetVolumeIDFromTargetPath(d) \/ UnmountVolume(d) \/ Rmdir(d)
           \/ GetDiskNumberFromVolumeID(d) \/ SetOffline(d)
    PROVE  Typed'
<1> USE DEF Typed
<1>8. torn' \in BOOLEAN /\ mixed' \in BOOLEAN
  BY Zenon DEF ExistsPath, GetVolumeIDFromTargetPath, UnmountVolume, Rmdir,
        GetDiskNumberFromVolumeID, SetOffline, GotoVolume, history
<1>0. /\ \A n \in Numbers : number[n] \in Disks \cup {NoDisk}
      /\ at[d] \in Numbers \cup Disks \cup {NoDisk}
      /\ shows[d] \in Disks \cup {NoDisk}
      /\ pc[d] \in WithNumber => at[d] \in Numbers
      /\ pc[d] \in WithVolume => at[d] \in Disks
  BY DEF HostTyped, CallTyped
<1>1. CASE ExistsPath(d)
  <2>1. HostTyped'
    BY <1>1 DEF ExistsPath, HostTyped, windows, history
  <2>2. GotoWith(d, "volume", at[d]) \/ Return(d, TRUE)
    BY <1>1 DEF ExistsPath, Goto
  <2>3. CallTyped'
    BY <1>0, <2>2, ReturnTyped, GotoTyped DEF Steps, UnstageSteps, WithNumber, WithVolume
  <2> QED
    BY <1>8, <2>1, <2>3
<1>2. CASE GetVolumeIDFromTargetPath(d)
  <2>1. HostTyped'
    BY <1>2 DEF GetVolumeIDFromTargetPath, GotoVolume, HostTyped, windows
  <2>2. Return(d, FALSE) \/ \E v \in Disks : GotoWith(d, "unmount", v)
    BY <1>0, <1>2 DEF GetVolumeIDFromTargetPath, GotoVolume
  <2>3. CallTyped'
    BY <2>2, ReturnTyped, GotoTyped DEF Steps, UnstageSteps, WithNumber, WithVolume
  <2> QED
    BY <1>8, <2>1, <2>3
<1>3. CASE UnmountVolume(d)
  <2>1. HostTyped'
    BY <1>3 DEF UnmountVolume, HostTyped, history
  <2>2. GotoWith(d, "rmdir", at[d]) \/ Return(d, FALSE)
    BY <1>3 DEF UnmountVolume, Goto
  <2>3. at[d] \in Disks
    BY <1>0, <1>3 DEF UnmountVolume, WithVolume
  <2>4. CallTyped'
    BY <2>2, <2>3, ReturnTyped, GotoTyped DEF Steps, UnstageSteps, WithNumber, WithVolume
  <2> QED
    BY <1>8, <2>1, <2>4
<1>4. CASE Rmdir(d)
  <2>1. HostTyped'
    BY <1>4 DEF Rmdir, HostTyped
  <2>2. GotoWith(d, "number", at[d])
    BY <1>4 DEF Rmdir, Goto
  <2>3. at[d] \in Disks
    BY <1>0, <1>4 DEF Rmdir, WithVolume
  <2>4. CallTyped'
    BY <2>2, <2>3, GotoTyped DEF Steps, UnstageSteps, WithNumber, WithVolume
  <2> QED
    BY <1>8, <2>1, <2>4
<1>5. CASE GetDiskNumberFromVolumeID(d)
  <2>1. HostTyped'
    BY <1>5 DEF GetDiskNumberFromVolumeID, HostTyped, windows, history
  <2>2. Return(d, FALSE) \/ \E n \in Numbers : GotoWith(d, "offline", n)
    BY <1>5 DEF GetDiskNumberFromVolumeID
  <2>3. CallTyped'
    BY <2>2, ReturnTyped, GotoTyped DEF Steps, UnstageSteps, WithNumber, WithVolume
  <2> QED
    BY <1>8, <2>1, <2>3
<1>6. CASE SetOffline(d)
  <2>1. online' \subseteq Disks /\ left' \subseteq Disks
    BY <1>6 DEF SetOffline, HostTyped
  <2>2. HostTyped'
    BY <1>6, <2>1 DEF SetOffline, HostTyped
  <2>3. Return(d, FALSE) \/ Return(d, TRUE)
    BY <1>6 DEF SetOffline
  <2>4. CallTyped'
    BY <2>3, ReturnTyped
  <2> QED
    BY <1>8, <2>2, <2>4
<1> QED
  BY <1>1, <1>2, <1>3, <1>4, <1>5, <1>6

LEMMA PublishTyped ==
    ASSUME Typed, NEW d \in Disks, PreparePublishPath(d) \/ RemovePodDir(d) \/ Mount(d)
    PROVE  Typed'
<1> USE DEF Typed
<1>1. torn' \in BOOLEAN /\ mixed' \in BOOLEAN
  BY Zenon DEF PreparePublishPath, RemovePodDir, Mount, history
<1>2. HostTyped'
  BY DEF PreparePublishPath, RemovePodDir, Mount, HostTyped, windows, history
<1>3. at[d] \in Numbers \cup Disks \cup {NoDisk}
  BY DEF CallTyped
<1>4. \/ Return(d, FALSE) \/ Return(d, TRUE)
      \/ GotoWith(d, "link", at[d]) \/ GotoWith(d, "clear", at[d])
  BY DEF PreparePublishPath, RemovePodDir, Mount, Goto
<1>5. CallTyped'
  BY <1>3, <1>4, ReturnTyped, GotoTyped DEF Steps, WithNumber, WithVolume
<1> QED
  BY <1>1, <1>2, <1>5

LEMMA FailsTyped == ASSUME Typed, NEW d \in Disks, Fails(d) PROVE Typed'
<1> USE DEF Typed
<1>1. torn' \in BOOLEAN /\ mixed' \in BOOLEAN
  BY Zenon DEF Fails
<1>2. faults' \in 0..MaxFaults
  BY WindowsAssumption DEF Fails, HostTyped
<1>3. HostTyped'
  BY <1>2 DEF Fails, HostTyped, windows
<1>4. CallTyped'
  BY ReturnTyped DEF Fails
<1> QED
  BY <1>1, <1>3, <1>4

LEMMA BeginTyped == ASSUME Typed, NEW d \in Disks, NEW o \in Ops, Begin(d, o) PROVE Typed'
<1> USE DEF Typed
<1>1. torn' \in BOOLEAN /\ mixed' \in BOOLEAN
  BY Zenon DEF Begin, history
<1>2. HostTyped'
  BY DEF Begin, HostTyped, history
<1>3. FirstStep(o) \in Steps /\ FirstStep(o) \notin WithNumber \cup WithVolume
  BY DEF FirstStep, Ops, Steps, StageSteps, UnstageSteps, WithNumber, WithVolume
<1>4. CallTyped'
  BY <1>3 DEF Begin, CallTyped
<1> QED
  BY <1>1, <1>2, <1>4

LEMMA OthersTyped ==
    ASSUME Typed, NEW d \in Disks,
           WriteData(d) \/ Leave(d) \/ \E n \in Numbers : Arrive(d, n)
    PROVE  Typed'
<1> USE DEF Typed
<1>1. CASE WriteData(d)
  <2>1. HostTyped'
    BY <1>1 DEF WriteData, HostTyped, call, history
  <2> QED
    BY <1>1, <2>1 DEF WriteData, CallTyped, call, history
<1>2. CASE Leave(d)
  <2>1. torn' \in BOOLEAN /\ mixed' \in BOOLEAN
    BY <1>2, Zenon DEF Leave
  <2>2. leaves' \in 0..MaxLeaves
    BY <1>2, WindowsAssumption DEF Leave, HostTyped
  <2>3. HostTyped'
    BY <1>2, <2>2 DEF Leave, HostTyped
  <2>4. CallTyped'
    BY <1>2 DEF Leave, CallTyped
  <2> QED
    BY <2>1, <2>3, <2>4
<1>3. CASE \E n \in Numbers : Arrive(d, n)
  <2>1. HostTyped'
    BY <1>3 DEF Arrive, HostTyped, call, history
  <2> QED
    BY <1>3, <2>1 DEF Arrive, CallTyped, call, history
<1> QED
  BY <1>1, <1>2, <1>3

LEMMA CrashTyped == ASSUME Typed, Crash PROVE Typed'
<1> USE DEF Typed
<1>1. faults' \in 0..MaxFaults
  BY WindowsAssumption DEF Crash, HostTyped
<1>2. op' \in [Disks -> Ops]
  BY DEF Crash, Ops
<1>3. HostTyped'
  BY <1>1, <1>2 DEF Crash, HostTyped, windows
<1>4. pc' \in [Disks -> Steps] /\ nil' \in [Disks -> BOOLEAN]
  BY DEF Crash, Steps
<1>5. at' \in [Disks -> Numbers \cup Disks \cup {NoDisk}]
  BY DEF Crash
<1>6. \A e \in Disks : pc'[e] = "idle"
  BY DEF Crash
<1>7. CallTyped'
  BY <1>4, <1>5, <1>6 DEF CallTyped, WithNumber, WithVolume
<1> QED
  BY <1>3, <1>7 DEF Crash

LEMMA NextTyped == ASSUME Typed, [Next]_vars PROVE Typed'
<1>1. CASE \E d \in Disks : Step(d)
  BY <1>1, StageTyped, UnstageTyped, PublishTyped DEF Step
<1>2. CASE \E d \in Disks : Fails(d) \/ WriteData(d) \/ Leave(d) \/ \E n \in Numbers : Arrive(d, n)
  BY <1>2, FailsTyped, OthersTyped
<1>3. CASE \E d \in Disks, o \in Ops : Begin(d, o)
  BY <1>3, BeginTyped
<1>4. CASE Crash
  BY <1>4, CrashTyped
<1>5. CASE UNCHANGED vars
  BY <1>5 DEF vars, windows, call, history, Typed, HostTyped, CallTyped
<1> QED
  BY <1>1, <1>2, <1>3, <1>4, <1>5 DEF Next

LEMMA AlwaysTyped == Spec => []Typed
  BY InitTyped, NextTyped, PTL DEF Spec

\* The mounter is well typed, whatever fails and leaves.
THEOREM TypeCorrect == Spec => []TypeOK
<1>1. Typed => TypeOK
  BY DEF Typed, HostTyped, CallTyped, TypeOK
<1> QED
  BY <1>1, AlwaysTyped, PTL

-----------------------------------------------------------------------------
\* No data is deleted.  A volume that is about to be formatted has no data, since only
\* a formatted one gets data and no other call works on the same volume; and nothing is
\* mounted on a path that is about to be removed.

Apart == \A d, e \in Disks : d # e /\ at[d] \in Disks => at[d] # at[e]

Kept ==
    /\ \A d \in Disks : pc[d] = "rmdir" => shows[d] = NoDisk
    /\ data \subseteq formatted
    /\ mixed \/ Apart
    /\ mixed \/ \A d \in Disks : pc[d] = "format" => at[d] \notin formatted
    /\ mixed \/ lost = {}

LEMMA InitKept == Init => Kept
BY WindowsAssumption DEF Init, Kept, Apart

LEMMA StageKept ==
    ASSUME Typed, Kept, NEW d \in Disks,
           \/ GetDiskNumber(d) \/ PartitionDisk(d) \/ SetOnline(d) \/ ListVolumesOnDisk(d)
           \/ IsVolumeFormatted(d) \/ FormatVolume(d) \/ MountVolume(d)
    PROVE  Kept'
<1> USE WindowsAssumption
    DEF Typed, CallTyped, Kept, Apart, Return, Goto, GotoWith, GotoVolume, windows, history
<1>1. CASE GetDiskNumber(d)
  BY <1>1 DEF GetDiskNumber
<1>2. CASE PartitionDisk(d)
  BY <1>2 DEF PartitionDisk
<1>3. CASE SetOnline(d)
  BY <1>3 DEF SetOnline
<1>4. CASE ListVolumesOnDisk(d)
  <2>1. pc' = [pc EXCEPT ![d] = "return"] \/ pc' = [pc EXCEPT ![d] = "check"]
    BY <1>4 DEF ListVolumesOnDisk
  <2>2. mixed' \/ (~mixed /\ Apart')
    <3>1. CASE Return(d, FALSE) /\ UNCHANGED mixed
      BY <3>1
    <3>2. CASE GotoVolume(d, "check", number[at[d]])
      BY <3>2
    <3> QED
      BY <1>4, <3>1, <3>2 DEF ListVolumesOnDisk
  <2>3. UNCHANGED <<shows, data, formatted, lost>>
    BY <1>4 DEF ListVolumesOnDisk
  <2>4. mixed' \/ \A e \in Disks \ {d} : at'[e] = at[e]
    BY <1>4 DEF ListVolumesOnDisk
  <2> QED
    BY <2>1, <2>2, <2>3, <2>4
<1>5. CASE IsVolumeFormatted(d)
  BY <1>5 DEF IsVolumeFormatted
<1>6. CASE FormatVolume(d)
  <2>1. at[d] \in Disks
    BY <1>6 DEF FormatVolume, WithVolume
  <2>2. data' \subseteq formatted' /\ \A e \in Disks : pc'[e] = "rmdir" => shows'[e] = NoDisk
    BY <1>6, <2>1 DEF FormatVolume
  <2>3. mixed' \/ Apart'
    BY <1>6 DEF FormatVolume
  <2>4. mixed' \/ \A e \in Disks : pc'[e] = "format" => at'[e] \notin formatted'
    BY <1>6, <2>1 DEF FormatVolume
  <2>5. mixed' \/ lost' = {}
    BY <1>6, <2>1 DEF FormatVolume
  <2> QED
    BY <2>2, <2>3, <2>4, <2>5
<1>7. CASE MountVolume(d)
  <2>1. \A e \in Disks : pc'[e] = "rmdir" => pc[e] = "rmdir" /\ shows'[e] = shows[e]
    BY <1>7 DEF MountVolume, HostTyped
  <2> QED
    BY <1>7, <2>1 DEF MountVolume
<1> QED
  BY <1>1, <1>2, <1>3, <1>4, <1>5, <1>6, <1>7

LEMMA UnstageKept ==
    ASSUME Typed, Kept, NEW d \in Disks,
           \/ ExistsPath(d) \/ GetVolumeIDFromTargetPath(d) \/ UnmountVolume(d) \/ Rmdir(d)
           \/ GetDiskNumberFromVolumeID(d) \/ SetOffline(d)
    PROVE  Kept'
<1> USE WindowsAssumption
    DEF Typed, CallTyped, Kept, Apart, Return, Goto, GotoWith, GotoVolume, windows, history
<1>1. CASE ExistsPath(d)
  BY <1>1 DEF ExistsPath
<1>2. CASE GetVolumeIDFromTargetPath(d)
  <2>1. pc' = [pc EXCEPT ![d] = "return"] \/ pc' = [pc EXCEPT ![d] = "unmount"]
    BY <1>2 DEF GetVolumeIDFromTargetPath
  <2>2. mixed' \/ (~mixed /\ Apart')
    <3>1. CASE Return(d, FALSE) /\ UNCHANGED mixed
      BY <3>1
    <3>2. CASE GotoVolume(d, "unmount", shows[d])
      BY <3>2
    <3> QED
      BY <1>2, <3>1, <3>2 DEF GetVolumeIDFromTargetPath
  <2>3. UNCHANGED <<shows, data, formatted, lost>>
    BY <1>2 DEF GetVolumeIDFromTargetPath
  <2>4. \A e \in Disks \ {d} : at'[e] = at[e]
    BY <1>2 DEF GetVolumeIDFromTargetPath
  <2> QED
    BY <2>1, <2>2, <2>3, <2>4
<1>3. CASE UnmountVolume(d)
  <2>1. \A e \in Disks : pc'[e] = "rmdir" => shows'[e] = NoDisk
    BY <1>3 DEF UnmountVolume, HostTyped
  <2> QED
    BY <1>3, <2>1 DEF UnmountVolume
<1>4. CASE Rmdir(d)
  <2>1. shows[d] = NoDisk
    BY <1>4 DEF Rmdir
  <2>2. data' = data /\ lost' = lost
    BY <1>4, <2>1 DEF Rmdir, HostTyped
  <2>3. \A e \in Disks : pc'[e] = "rmdir" => shows'[e] = NoDisk
    BY <1>4 DEF Rmdir, HostTyped
  <2> QED
    BY <1>4, <2>2, <2>3 DEF Rmdir
<1>5. CASE GetDiskNumberFromVolumeID(d)
  BY <1>5 DEF GetDiskNumberFromVolumeID
<1>6. CASE SetOffline(d)
  BY <1>6 DEF SetOffline
<1> QED
  BY <1>1, <1>2, <1>3, <1>4, <1>5, <1>6

LEMMA OthersKept ==
    ASSUME Typed, Kept, NEW d \in Disks,
           \/ PreparePublishPath(d) \/ RemovePodDir(d) \/ Mount(d)
           \/ Fails(d) \/ WriteData(d) \/ Leave(d)
           \/ \E o \in Ops : Begin(d, o)
           \/ \E n \in Numbers : Arrive(d, n)
    PROVE  Kept'
<1> USE WindowsAssumption
    DEF Typed, CallTyped, Kept, Apart, Return, Goto, GotoWith, windows, call, history
<1>1. CASE PreparePublishPath(d) \/ RemovePodDir(d) \/ Mount(d)
  BY <1>1 DEF PreparePublishPath, RemovePodDir, Mount
<1>2. CASE Fails(d)
  BY <1>2 DEF Fails
<1>3. CASE WriteData(d)
  BY <1>3 DEF WriteData
<1>4. CASE Leave(d)
  <2>1. \A e \in Disks : shows[e] = NoDisk => shows'[e] = NoDisk
    BY <1>4 DEF Leave
  <2> QED
    BY <1>4, <2>1 DEF Leave
<1>5. CASE \E o \in Ops : Begin(d, o)
  <2>1. \A o \in Ops : FirstStep(o) \notin {"rmdir", "format"}
    BY DEF FirstStep, Ops
  <2> QED
    BY <1>5, <2>1 DEF Begin
<1>6. CASE \E n \in Numbers : Arrive(d, n)
  BY <1>6 DEF Arrive
<1> QED
  BY <1>1, <1>2, <1>3, <1>4, <1>5, <1>6

LEMMA NextKept == ASSUME Typed, Kept, [Next]_vars PROVE Kept'
<1>1. CASE \E d \in Disks : Step(d)
  BY <1>1, StageKept, UnstageKept, OthersKept DEF Step
<1>2. CASE \E d \in Disks : Fails(d) \/ WriteData(d) \/ Leave(d) \/ \E n \in Numbers : Arrive(d, n)
  BY <1>2, OthersKept
<1>3. CASE \E d \in Disks, o \in Ops : Begin(d, o)
  BY <1>3, OthersKept
<1>4. CASE Crash
  BY <1>4, WindowsAssumption DEF Crash, Kept, Apart, windows
<1>5. CASE UNCHANGED vars
  BY <1>5 DEF vars, windows, call, history, Kept, Apart
<1> QED
  BY <1>1, <1>2, <1>3, <1>4, <1>5 DEF Next

\* No data is formatted over or removed, whatever fails and leaves, unless two calls
\* come to work on one volume.
THEOREM DataIsSafe == Spec => []DataIsKept
<1>1. Kept => DataIsKept
  BY DEF Kept, DataIsKept
<1>2. Spec => []Kept
  BY InitKept, NextKept, AlwaysTyped, PTL DEF Spec
<1> QED
  BY <1>1, <1>2, PTL

-----------------------------------------------------------------------------
\* What nil means.  As long as no disk leaves while it is in use, a call works on the
\* disk that it is for, and nobody else does.

\* The operation whose step this is.
OpFits(d) ==
    /\ pc[d] \in StageSteps => op[d] = "Stage"
    /\ pc[d] \in UnstageSteps => op[d] = "Unstage"
    /\ pc[d] \in {"prepare", "link"} => op[d] = "Publish"
    /\ pc[d] = "clear" => op[d] \in {"Publish", "Unpublish"}

\* NilIsTrue for one disk.
NilFits(d) ==
    pc[d] = "return" /\ nil[d] =>
        /\ op[d] = "Stage" => shows[d] = d /\ d \in formatted /\ d \in online
        /\ op[d] = "Unstage" => d \notin staging /\ (d \in online => d \in left)
        /\ op[d] = "Publish" => target[d] = "link"
        /\ op[d] = "Unpublish" => target[d] = "absent"

\* A call of UnmountDevice between Rmdir and SetDiskState.
Between(d) == pc[d] \in {"number", "offline"}

\* The call for a disk, and its path, are about that disk.
Sound(d) ==
    /\ shows[d] \in {d, NoDisk}
    /\ pc[d] \in WithNumber => number[at[d]] = d
    /\ pc[d] \in WithVolume => at[d] = d
    /\ pc[d] = "mount" => d \in formatted
    /\ pc[d] \in StageSteps => d \in staging
    /\ Between(d) => d \notin staging
    /\ d \in online => Attached(d)
    /\ d \in online => d \in staging \/ d \in left \/ Between(d)
    /\ OpFits(d)
    /\ NilFits(d)

Owned == torn \/ \A d \in Disks : Sound(d)

LEMMA InitOwned == Init => Owned
BY WindowsAssumption
   DEF Init, Owned, Sound, OpFits, NilFits, Between, StageSteps, UnstageSteps, WithNumber,
       WithVolume

\* A step that leaves a disk alone, except that it may be formatted.
Spares(d) ==
    /\ pc'[d] = pc[d] /\ at'[d] = at[d] /\ op'[d] = op[d] /\ nil'[d] = nil[d]
    /\ shows'[d] = shows[d] /\ target'[d] = target[d]
    /\ \A n \in Numbers : number'[n] = d <=> number[n] = d
    /\ d \in online' <=> d \in online
    /\ d \in staging' <=> d \in staging
    /\ d \in left' <=> d \in left
    /\ d \in formatted => d \in formatted'

LEMMA SparedIsSound == ASSUME NEW d \in Disks, Typed, Sound(d), Spares(d) PROVE Sound(d)'
<1>1. Attached(d)' <=> Attached(d)
  BY DEF Attached, Spares
<1>2. pc[d] \in WithNumber => at[d] \in Numbers
  BY DEF Typed, CallTyped
<1>3. OpFits(d)' /\ NilFits(d)' /\ Between(d)' = Between(d)
  BY DEF Spares, Sound, OpFits, NilFits, Between
<1> QED
  BY <1>1, <1>2, <1>3 DEF Spares, Sound

LEMMA StageSound ==
    ASSUME Typed, NEW d \in Disks, Sound(d),
           \/ GetDiskNumber(d) \/ PartitionDisk(d) \/ SetOnline(d)
           \/ ListVolumesOnDisk(d) \/ IsVolumeFormatted(d) \/ FormatVolume(d)
           \/ MountVolume(d)
    PROVE  (\A e \in Disks \ {d} : Spares(e)) /\ Sound(d)'
<1> USE WindowsAssumption
    DEF Typed, CallTyped, HostTyped, Sound, OpFits, NilFits, Between, Spares, Attached,
        StageSteps, UnstageSteps, WithNumber, WithVolume, Ops,
        Return, Goto, GotoWith, GotoVolume, windows, call, history
<1>0. /\ Sound(d)
      /\ \A e \in Disks : pc[e] \in WithNumber => at[e] \in Numbers
      /\ \A n \in Numbers : number[n] \in Disks \cup {NoDisk}
  OBVIOUS
<1>1. CASE GetDiskNumber(d)
  <2>1. \A e \in Disks \ {d} : Spares(e)
    BY <1>0, <1>1 DEF GetDiskNumber
  <2>2. Sound(d)'
    BY <1>0, <1>1 DEF GetDiskNumber
  <2> QED
    BY <2>1, <2>2
<1>2. CASE PartitionDisk(d)
  <2>1. \A e \in Disks \ {d} : Spares(e)
    BY <1>0, <1>2 DEF PartitionDisk
  <2>2. Sound(d)'
    BY <1>0, <1>2 DEF PartitionDisk
  <2> QED
    BY <2>1, <2>2
<1>3. CASE SetOnline(d)
  <2>1. \A e \in Disks \ {d} : Spares(e)
    BY <1>0, <1>3 DEF SetOnline
  <2>2. Sound(d)'
    BY <1>0, <1>3 DEF SetOnline
  <2> QED
    BY <2>1, <2>2
<1>4. CASE ListVolumesOnDisk(d)
  <2>1. \A e \in Disks \ {d} : Spares(e)
    BY <1>0, <1>4 DEF ListVolumesOnDisk
  <2>2. Sound(d)'
    BY <1>0, <1>4 DEF ListVolumesOnDisk
  <2> QED
    BY <2>1, <2>2
<1>5. CASE IsVolumeFormatted(d)
  <2>1. \A e \in Disks \ {d} : Spares(e)
    BY <1>0, <1>5 DEF IsVolumeFormatted
  <2>2. Sound(d)'
    BY <1>0, <1>5 DEF IsVolumeFormatted
  <2> QED
    BY <2>1, <2>2
<1>6. CASE FormatVolume(d)
  <2>1. \A e \in Disks \ {d} : Spares(e)
    BY <1>0, <1>6 DEF FormatVolume
  <2>2. Sound(d)'
    BY <1>0, <1>6 DEF FormatVolume
  <2> QED
    BY <2>1, <2>2
<1>7. CASE MountVolume(d)
  <2>1. \A e \in Disks \ {d} : Spares(e)
    BY <1>0, <1>7 DEF MountVolume
  <2>2. Sound(d)'
    BY <1>0, <1>7 DEF MountVolume
  <2> QED
    BY <2>1, <2>2
<1> QED
  BY <1>1, <1>2, <1>3, <1>4, <1>5, <1>6, <1>7

LEMMA UnstageSound ==
    ASSUME Typed, NEW d \in Disks, Sound(d),
           \/ ExistsPath(d) \/ GetVolumeIDFromTargetPath(d) \/ UnmountVolume(d)
           \/ Rmdir(d) \/ GetDiskNumberFromVolumeID(d) \/ SetOffline(d)
    PROVE  (\A e \in Disks \ {d} : Spares(e)) /\ Sound(d)'
<1> USE WindowsAssumption
    DEF Typed, CallTyped, HostTyped, Sound, OpFits, NilFits, Between, Spares, Attached,
        StageSteps, UnstageSteps, WithNumber, WithVolume, Ops,
        Return, Goto, GotoWith, GotoVolume, windows, call, history
<1>0. /\ Sound(d)
      /\ \A e \in Disks : pc[e] \in WithNumber => at[e] \in Numbers
      /\ \A n \in Numbers : number[n] \in Disks \cup {NoDisk}
  OBVIOUS
<1>1. CASE ExistsPath(d)
  <2>1. \A e \in Disks \ {d} : Spares(e)
    BY <1>0, <1>1 DEF ExistsPath
  <2>2. Sound(d)'
    BY <1>0, <1>1 DEF ExistsPath
  <2> QED
    BY <2>1, <2>2
<1>2. CASE GetVolumeIDFromTargetPath(d)
  <2>1. \A e \in Disks \ {d} : Spares(e)
    BY <1>0, <1>2 DEF GetVolumeIDFromTargetPath
  <2>2. Sound(d)'
    BY <1>0, <1>2 DEF GetVolumeIDFromTargetPath
  <2> QED
    BY <2>1, <2>2
<1>3. CASE UnmountVolume(d)
  <2>1. \A e \in Disks \ {d} : Spares(e)
    BY <1>0, <1>3 DEF UnmountVolume
  <2>2. Sound(d)'
    BY <1>0, <1>3 DEF UnmountVolume
  <2> QED
    BY <2>1, <2>2
<1>4. CASE Rmdir(d)
  <2>1. \A e \in Disks \ {d} : Spares(e)
    BY <1>0, <1>4 DEF Rmdir
  <2>2. Sound(d)'
    BY <1>0, <1>4 DEF Rmdir
  <2> QED
    BY <2>1, <2>2
<1>5. CASE GetDiskNumberFromVolumeID(d)
  <2>1. \A e \in Disks \ {d} : Spares(e)
    BY <1>0, <1>5 DEF GetDiskNumberFromVolumeID
  <2>2. Sound(d)'
    BY <1>0, <1>5 DEF GetDiskNumberFromVolumeID
  <2> QED
    BY <2>1, <2>2
<1>6. CASE SetOffline(d)
  <2>1. \A e \in Disks \ {d} : Spares(e)
    BY <1>0, <1>6 DEF SetOffline
  <2>2. Sound(d)'
    BY <1>0, <1>6 DEF SetOffline
  <2> QED
    BY <2>1, <2>2
<1> QED
  BY <1>1, <1>2, <1>3, <1>4, <1>5, <1>6

LEMMA PublishSound ==
    ASSUME Typed, NEW d \in Disks, Sound(d),
           \/ PreparePublishPath(d) \/ RemovePodDir(d) \/ Mount(d)
    PROVE  (\A e \in Disks \ {d} : Spares(e)) /\ Sound(d)'
<1> USE WindowsAssumption
    DEF Typed, CallTyped, HostTyped, Sound, OpFits, NilFits, Between, Spares, Attached,
        StageSteps, UnstageSteps, WithNumber, WithVolume, Ops,
        Return, Goto, GotoWith, GotoVolume, windows, call, history
<1>0. /\ Sound(d)
      /\ \A e \in Disks : pc[e] \in WithNumber => at[e] \in Numbers
      /\ \A n \in Numbers : number[n] \in Disks \cup {NoDisk}
  OBVIOUS
<1>1. CASE PreparePublishPath(d)
  <2>1. \A e \in Disks \ {d} : Spares(e)
    BY <1>0, <1>1 DEF PreparePublishPath
  <2>2. Sound(d)'
    BY <1>0, <1>1 DEF PreparePublishPath
  <2> QED
    BY <2>1, <2>2
<1>2. CASE RemovePodDir(d)
  <2>1. \A e \in Disks \ {d} : Spares(e)
    BY <1>0, <1>2 DEF RemovePodDir
  <2>2. Sound(d)'
    <3>1. CASE op[d] = "Publish"
      BY <1>0, <1>2, <3>1 DEF RemovePodDir
    <3>2. CASE op[d] # "Publish"
      BY <1>0, <1>2, <3>2 DEF RemovePodDir
    <3> QED
      BY <3>1, <3>2
  <2> QED
    BY <2>1, <2>2
<1>3. CASE Mount(d)
  <2>1. \A e \in Disks \ {d} : Spares(e)
    BY <1>0, <1>3 DEF Mount
  <2>2. Sound(d)'
    BY <1>0, <1>3 DEF Mount
  <2> QED
    BY <2>1, <2>2
<1> QED
  BY <1>1, <1>2, <1>3

LEMMA OthersSound ==
    ASSUME Typed, NEW d \in Disks, Sound(d),
           \/ Fails(d) \/ WriteData(d) \/ Leave(d)
           \/ \E o \in Ops : Begin(d, o)
           \/ \E n \in Numbers : Arrive(d, n)
    PROVE  (\A e \in Disks \ {d} : shows[e] \in {e, NoDisk} => Spares(e)) /\ (torn' \/ Sound(d)')
<1> USE WindowsAssumption
    DEF Typed, CallTyped, HostTyped, Sound, OpFits, NilFits, Between, Spares, Attached,
        StageSteps, UnstageSteps, WithNumber, WithVolume, Ops,
        Return, windows, call, history
<1>0. /\ Sound(d)
      /\ \A e \in Disks : pc[e] \in WithNumber => at[e] \in Numbers
      /\ \A n \in Numbers : number[n] \in Disks \cup {NoDisk}
  OBVIOUS
<1>1. CASE Fails(d)
  <2>1. \A e \in Disks \ {d} : Spares(e)
    BY <1>0, <1>1 DEF Fails
  <2>2. Sound(d)'
    BY <1>0, <1>1 DEF Fails
  <2> QED
    BY <2>1, <2>2
<1>2. CASE WriteData(d)
  BY <1>0, <1>2 DEF WriteData
<1>3. CASE Leave(d)
  <2>1. \A e \in Disks \ {d} : shows[e] \in {e, NoDisk} => Spares(e)
    BY <1>0, <1>3 DEF Leave
  <2>2. torn' \/ Sound(d)'
    BY <1>0, <1>3 DEF Leave
  <2> QED
    BY <2>1, <2>2
<1>4. CASE \E o \in Ops : Begin(d, o)
  <2>1. PICK o \in Ops : Begin(d, o)
    BY <1>4
  <2>2. /\ FirstStep(o) \in {"find", "exists", "prepare", "clear"}
        /\ FirstStep(o) = "find" <=> o = "Stage"
        /\ FirstStep(o) = "exists" <=> o = "Unstage"
        /\ FirstStep(o) = "prepare" <=> o = "Publish"
    BY DEF FirstStep
  <2>3. \A e \in Disks \ {d} : Spares(e)
    BY <1>0, <2>1 DEF Begin
  <2>4. Sound(d)'
    BY <1>0, <2>1, <2>2 DEF Begin
  <2> QED
    BY <2>3, <2>4
<1>5. CASE \E n \in Numbers : Arrive(d, n)
  <2>1. \A e \in Disks \ {d} : Spares(e)
    BY <1>0, <1>5 DEF Arrive
  <2>2. Sound(d)'
    BY <1>0, <1>5 DEF Arrive
  <2> QED
    BY <2>1, <2>2
<1> QED
  BY <1>1, <1>2, <1>3, <1>4, <1>5

LEMMA CrashSound == ASSUME Typed, NEW d \in Disks, Sound(d), Crash PROVE Sound(d)'
BY WindowsAssumption
   DEF Typed, CallTyped, HostTyped, Sound, OpFits, NilFits, Between, Attached, StageSteps,
       UnstageSteps, WithNumber, WithVolume, Crash, windows

\* A torn history stays torn.
LEMMA TornStays == ASSUME torn, [Next]_vars PROVE torn'
BY Zenon
   DEF Next, Step, GetDiskNumber, PartitionDisk, SetOnline, ListVolumesOnDisk,
       IsVolumeFormatted, FormatVolume, MountVolume, ExistsPath, GetVolumeIDFromTargetPath,
       UnmountVolume, Rmdir, GetDiskNumberFromVolumeID, SetOffline, PreparePublishPath,
       RemovePodDir, Mount, Fails, WriteData, Leave, Begin, Arrive, Crash, GotoVolume, vars,
       history

LEMMA NextOwned == ASSUME Typed, Owned, [Next]_vars PROVE Owned'
<1>0. SUFFICES ASSUME ~torn, ~torn', NEW e \in Disks PROVE Sound(e)'
  BY TornStays DEF Owned
<1>1. \A d \in Disks : Sound(d)
  BY <1>0 DEF Owned
<1>2. CASE \E d \in Disks : Step(d)
  <2>1. PICK d \in Disks : Step(d)
    BY <1>2
  <2>2. (\A x \in Disks \ {d} : Spares(x)) /\ Sound(d)'
    BY <1>1, <2>1, StageSound, UnstageSound, PublishSound DEF Step
  <2> QED
    BY <1>1, <2>2, SparedIsSound
<1>3. CASE \E d \in Disks : \/ Fails(d) \/ WriteData(d) \/ Leave(d)
                            \/ \E o \in Ops : Begin(d, o)
                            \/ \E n \in Numbers : Arrive(d, n)
  <2>1. PICK d \in Disks : \/ Fails(d) \/ WriteData(d) \/ Leave(d)
                           \/ \E o \in Ops : Begin(d, o)
                           \/ \E n \in Numbers : Arrive(d, n)
    BY <1>3
  <2>2. /\ \A x \in Disks \ {d} : shows[x] \in {x, NoDisk} => Spares(x)
        /\ torn' \/ Sound(d)'
    BY <1>1, <2>1, OthersSound
  <2>3. shows[e] \in {e, NoDisk}
    BY <1>1 DEF Sound
  <2> QED
    BY <1>0, <1>1, <2>2, <2>3, SparedIsSound
<1>4. CASE Crash
  BY <1>1, <1>4, CrashSound
<1>5. CASE UNCHANGED vars
  BY <1>1, <1>5, SparedIsSound DEF vars, windows, call, history, Spares
<1>6. \/ \E d \in Disks : Step(d)
      \/ \E d \in Disks : \/ Fails(d) \/ WriteData(d) \/ Leave(d)
                          \/ \E o \in Ops : Begin(d, o)
                          \/ \E n \in Numbers : Arrive(d, n)
      \/ Crash
      \/ UNCHANGED vars
  BY DEF Next
<1> QED
  BY <1>2, <1>3, <1>4, <1>5, <1>6

\* Nil means done, as long as no disk leaves while it is in use.
THEOREM NilMeansDone == Spec => []NilIsTrue
<1>1. Typed /\ Owned => NilIsTrue
  <2>1. SUFFICES ASSUME Typed, ~torn, NEW d \in Disks, Sound(d), pc[d] = "return", nil[d]
                 PROVE  CASE op[d] = "Stage" -> shows[d] = d /\ d \in formatted \cap online
                          [] op[d] = "Unstage" -> d \notin staging /\ (d \in online => d \in left)
                          [] op[d] = "Publish" -> target[d] = "link"
                          [] op[d] = "Unpublish" -> target[d] = "absent"
    BY DEF Owned, NilIsTrue
  <2>2. op[d] \in Ops
    BY <2>1 DEF Typed, HostTyped
  <2>3. NilFits(d)
    BY <2>1 DEF Sound
  <2> QED
    BY <2>1, <2>2, <2>3 DEF NilFits, Ops
<1>2. Spec => []Owned
  BY InitOwned, NextOwned, AlwaysTyped, PTL DEF Spec
<1> QED
  BY <1>1, <1>2, AlwaysTyped, PTL
=============================================================================
