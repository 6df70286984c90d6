---------------------- MODULE FilesystemStorage_proofs ----------------------
(***************************************************************************)
(* Proofs about FilesystemStorage, for any callers, volumes, contexts and  *)
(* payloads, and any calls that fail; and about MemoryStorage, which sets  *)
(* it beside MemoryFS.                                                     *)
(***************************************************************************)
EXTENDS MemoryStorage, TLAPS

Answers == {"none", "true", "false", "ok", "error"}

\* What is on disk.
DiskTyped ==
    /\ dirs \subseteq Volumes
    /\ dataDirs \subseteq dirs
    /\ DOMAIN metadata \cap torn = {}
    /\ DOMAIN metadata \cup torn \subseteq dirs \cup {NoID}
    /\ \A id \in DOMAIN metadata : metadata[id] \in Contexts
    /\ files \in [Volumes -> Payloads \cup {NoFiles}]
    /\ group \in [Volumes -> {NoGroup} \cup Groups]
    /\ dirGroup \in [Volumes -> {NoGroup} \cup Groups]
    /\ \A v \in Volumes : files[v] # NoFiles => v \in dataDirs
    /\ hidden \subseteq {v \in Volumes : files[v] # NoFiles}
    /\ stale \subseteq dataDirs

\* What the calls remember.
CallsTyped ==
    /\ pc \in [Callers -> Steps]
    /\ call \in [Callers -> CallsOfAll \cup {NoCall}]
    /\ target \in [Callers -> IDs]
    /\ misread \in [Callers -> BOOLEAN]
    /\ todo \in [Callers -> SUBSET IDs]
    /\ vols \in [Callers -> SUBSET IDs]
    /\ answer \in [Callers -> Answers]

Typed == DiskTyped /\ CallsTyped /\ faults \in 0..MaxFaults

MetadataOps == {"RegisterMetadata", "WriteMetadata"}

\* Which calls get to a step.
Fits(c) ==
    /\ pc[c] = "idle" <=> call[c].op = "none"
    /\ pc[c] = "readMetadata" => call[c].op = "RegisterMetadata"
    /\ pc[c] \in {"mkdir", "mkdirData"} => call[c].op \in {"RegisterMetadata", "WriteFiles"}
    /\ pc[c] \in {"truncate", "write"} => call[c].op \in MetadataOps
    /\ pc[c] \in {"chownDir", "writeFiles", "chownFiles"} => call[c].op = "WriteFiles"
    /\ pc[c] = "removeAll" => call[c].op = "RemoveVolume"
    /\ pc[c] \in {"readDir", "open"} => call[c].op = "ListVolumes"

\* What a call that works on a volume knows of it.
Knows(c) ==
    /\ call[c].op \in OnVolume => target[c] \in {Vol(c), NoID}
    /\ pc[c] = "mkdirData" => Vol(c) \in dirs
    /\ pc[c] = "write" => target[c] \in dirs \cup {NoID}
    /\ pc[c] \in {"chownDir", "writeFiles", "chownFiles"} => Vol(c) \in dataDirs
    /\ pc[c] \in {"writeFiles", "chownFiles"} => GroupOf(call[c].context) # BadGroup

\* RegisterMetadata is about to write for its volume, or for none if its ReadMetadata
\* failed; and what it has done when it returns.
Registers(c) ==
    call[c].op = "RegisterMetadata" =>
        /\ pc[c] # "return" => misread[c] \/ target[c] = Vol(c)
        /\ pc[c] = "return" /\ answer[c] # "error" =>
               misread[c] \/ IsStored(Vol(c), call[c].context)

\* WriteFiles sets the group of the directory, then writes the files, then sets theirs.
Writes(c) ==
    call[c].op = "WriteFiles" =>
        LET gid == GroupOf(call[c].context)
        IN  /\ pc[c] \in {"writeFiles", "chownFiles"} /\ IsSet(gid) =>
                   dirGroup[Vol(c)] = Gid(gid)
            /\ pc[c] = "chownFiles" => files[Vol(c)] = call[c].files
            /\ pc[c] = "return" /\ answer[c] # "error" =>
                   /\ files[Vol(c)] = call[c].files
                   /\ IsSet(gid) => group[Vol(c)] = Gid(gid) /\ dirGroup[Vol(c)] = Gid(gid)

CallOK(c) == Fits(c) /\ Knows(c) /\ Registers(c) /\ Writes(c)

\* No two calls work on one volume.
Exclusive ==
    \A c, d \in Callers :
        c # d /\ call[c].op \in OnVolume /\ call[d].op \in OnVolume => Vol(c) # Vol(d)

IInv == Typed /\ Exclusive /\ \A c \in Callers : CallOK(c)

-----------------------------------------------------------------------------

LEMMA InitIInv == Init => IInv
<1> SUFFICES ASSUME Init PROVE IInv
  OBVIOUS
<1> USE StorageAssumption
<1>1. DiskTyped
  BY DEF Init, DiskTyped
<1>2. CallsTyped
  BY DEF Init, CallsTyped, Steps, IDs, Answers
<1>3. faults \in 0..MaxFaults
  BY DEF Init
<1>4. Exclusive
  BY DEF Init, Exclusive, NoCall, OnVolume
<1>5. \A c \in Callers : CallOK(c)
  BY DEF Init, CallOK, Fits, Knows, Registers, Writes, NoCall, OnVolume, Vol
<1> QED
  BY <1>1, <1>2, <1>3, <1>4, <1>5 DEF IInv, Typed

\* What chown makes of the group of a context.
LEMMA ChownSets ==
    ASSUME NEW x, GroupOf(x) # BadGroup, NEW owner \in {NoGroup} \cup Groups
    PROVE  /\ Chown(owner, GroupOf(x)) \in {NoGroup} \cup Groups
           /\ IsSet(GroupOf(x)) => Chown(owner, GroupOf(x)) = Gid(GroupOf(x))
<1> DEFINE g == GroupOf(x)
<1>1. CASE g = NoGroup
  BY <1>1 DEF Chown, IsSet
<1>2. CASE g # NoGroup
  <2>1. g \in IF FixedFSGroup = NoGroup THEN 1..MaxGroup ELSE Int
    BY <1>2, StorageAssumption DEF GroupOf
  <2>2. Gid(g) \in IF FixedFSGroup = NoGroup THEN 1..MaxGroup ELSE 0..MaxGroup
    <3>1. CASE FixedFSGroup = NoGroup
      <4>1. Gid(g) = g
        BY <2>1, <3>1, StorageAssumption DEF Gid
      <4> QED
        BY <2>1, <3>1, <4>1
    <3>2. CASE FixedFSGroup # NoGroup
      BY <2>1, <3>2, StorageAssumption DEF Gid
    <3> QED
      BY <3>1, <3>2
  <2>3. Gid(g) # MaxGroup => Gid(g) \in Groups
    BY <2>2, StorageAssumption DEF Groups
  <2> QED
    BY <2>3 DEF Chown, IsSet
<1> QED
  BY <1>1, <1>2

\* A call that is no list has a volume.
LEMMA VolumeOfCall ==
    ASSUME Typed, NEW c \in Callers
    PROVE  /\ call[c].op \in OnVolume => Vol(c) \in Volumes
           /\ call[c].op \in MetadataOps => call[c].context \in Contexts
           /\ call[c].op = "WriteFiles" =>
                  call[c].files \in Payloads /\ call[c].context \in Contexts
           /\ call[c].op \in OnVolume \cup {"ListVolumes", "none"}
BY StorageAssumption
   DEF Typed, CallsTyped, CallsOfAll, MetadataCalls, WriteFilesCalls, RemoveCalls, ListCall, NoCall,
       OnVolume, MetadataOps, Vol

-----------------------------------------------------------------------------
\* A step of one call leaves alone what another one knows of its volume.

SameVolume(v) ==
    /\ v \in dirs' <=> v \in dirs
    /\ v \in dataDirs' <=> v \in dataDirs
    /\ v \in torn' <=> v \in torn
    /\ v \in DOMAIN metadata' <=> v \in DOMAIN metadata
    /\ v \in DOMAIN metadata => metadata'[v] = metadata[v]
    /\ v \in stale' <=> v \in stale
    /\ files'[v] = files[v]
    /\ group'[v] = group[v]
    /\ dirGroup'[v] = dirGroup[v]

LEMMA StepsStayAtHome ==
    ASSUME IInv, NEW c \in Callers, Step(c), NEW v \in Volumes,
           call[c].op \in OnVolume => Vol(c) # v
    PROVE  SameVolume(v)
<1> USE StorageAssumption DEF IInv, Typed, DiskTyped, SameVolume
<1>0. /\ CallOK(c)
      /\ call[c].op \in OnVolume => target[c] # v
  BY DEF CallOK, Knows
<1> USE DEF CallOK, Fits, OnVolume, MetadataOps
<1>1. CASE ReadMetadata(c) \/ ReadDir(c) \/ Open(c)
  BY <1>1 DEF ReadMetadata, ReadDir, Open, disk, data
<1>2. CASE Mkdir(c)
  BY <1>0, <1>2 DEF Mkdir, data
<1>3. CASE MkdirData(c)
  BY <1>0, <1>3 DEF MkdirData, data
<1>4. CASE Truncate(c)
  BY <1>0, <1>4 DEF Truncate, data, Restrict
<1>5. CASE Write(c)
  BY <1>0, <1>5 DEF Write, data
<1>6. CASE WriteFiles(c)
  BY <1>0, <1>6 DEF WriteFiles, Writing
<1>7. CASE ChownDir(c) \/ ChownFiles(c)
  BY <1>0, <1>7 DEF ChownDir, ChownFiles
<1>8. CASE RemoveAll(c)
  <2>1. Vol(c) # v
    BY <1>0, <1>8 DEF RemoveAll
  <2>2. CASE RemoveMetadata(Vol(c))
    BY <2>1, <2>2 DEF RemoveMetadata, Restrict, data
  <2>3. CASE RemoveLinks(Vol(c)) \/ RemoveFiles(Vol(c)) \/ RemoveStale(Vol(c))
    BY <2>1, <2>3 DEF RemoveLinks, RemoveFiles, RemoveStale
  <2>4. CASE RemoveDataDir(Vol(c))
    BY <2>1, <2>4 DEF RemoveDataDir
  <2>5. CASE UNCHANGED <<dataDirs, metadata, torn, data>> /\ dirs' \in {dirs, dirs \ {Vol(c)}}
    BY <2>1, <2>5 DEF data
  <2> QED
    BY <1>8, <2>2, <2>3, <2>4, <2>5 DEF RemoveAll, disk
<1> QED
  BY <1>1, <1>2, <1>3, <1>4, <1>5, <1>6, <1>7, <1>8 DEF Step

\* A call that nothing happens to, to itself or to its volume, is as good as before.
LEMMA UntouchedIsOK ==
    ASSUME IInv, NEW d \in Callers,
           pc'[d] = pc[d], call'[d] = call[d], target'[d] = target[d],
           misread'[d] = misread[d], answer'[d] = answer[d],
           call[d].op \in OnVolume => SameVolume(Vol(d))
    PROVE  CallOK(d)'
<1>1. CallOK(d)
  BY DEF IInv
<1>2. call[d].op \in OnVolume => Vol(d) \in Volumes
  BY VolumeOfCall DEF IInv
<1>3. Fits(d)'
  BY <1>1 DEF CallOK, Fits
<1>4. Knows(d)'
  BY <1>1, <1>2 DEF CallOK, Fits, Knows, SameVolume, Vol, OnVolume, MetadataOps, GroupOf
<1>5. Registers(d)'
  BY <1>1, <1>2 DEF CallOK, Registers, SameVolume, Vol, OnVolume, IsStored
<1>6. Writes(d)'
  BY <1>1, <1>2 DEF CallOK, Writes, SameVolume, Vol, OnVolume, GroupOf, IsSet, Gid
<1> QED
  BY <1>3, <1>4, <1>5, <1>6 DEF CallOK
-----------------------------------------------------------------------------
\* The disk stays well typed.

LEMMA DiskStaysTyped == ASSUME IInv, NEW c \in Callers, Step(c) PROVE DiskTyped'
<1> USE StorageAssumption DEF DiskTyped
<1>0. /\ DiskTyped
      /\ Fits(c) /\ Knows(c)
      /\ target[c] \in IDs
      /\ call[c].op \in OnVolume => Vol(c) \in Volumes
      /\ call[c].op \in MetadataOps => call[c].context \in Contexts
      /\ call[c].op = "WriteFiles" => call[c].files \in Payloads
  BY VolumeOfCall DEF IInv, CallOK, Typed, CallsTyped
<1>1. CASE ReadMetadata(c) \/ ReadDir(c) \/ Open(c)
  BY <1>0, <1>1 DEF ReadMetadata, ReadDir, Open, disk, data
<1>2. CASE Mkdir(c)
  BY <1>0, <1>2 DEF Mkdir, data, Fits, OnVolume
<1>3. CASE MkdirData(c)
  BY <1>0, <1>3 DEF MkdirData, data, Fits, Knows, OnVolume
<1>4. CASE Truncate(c)
  BY <1>0, <1>4 DEF Truncate, data, Restrict
<1>5. CASE Write(c)
  BY <1>0, <1>5 DEF Write, data, Fits, Knows
<1>6. CASE ChownDir(c)
  <2>1. Vol(c) \in Volumes
    BY <1>0, <1>6 DEF ChownDir, Fits, OnVolume
  <2>2. dirGroup' \in [Volumes -> {NoGroup} \cup Groups]
    BY <1>0, <1>6, <2>1, ChownSets DEF ChownDir
  <2> QED
    BY <1>0, <1>6, <2>2 DEF ChownDir
<1>7. CASE WriteFiles(c)
  <2>1. Vol(c) \in Volumes /\ Vol(c) \in dataDirs /\ call[c].files \in Payloads
    BY <1>0, <1>7 DEF WriteFiles, Fits, Knows, OnVolume
  <2> QED
    BY <1>0, <1>7, <2>1 DEF WriteFiles, Writing
<1>8. CASE ChownFiles(c)
  <2>1. Vol(c) \in Volumes /\ GroupOf(call[c].context) # BadGroup
    BY <1>0, <1>8 DEF ChownFiles, Fits, Knows, OnVolume
  <2>2. group' \in [Volumes -> {NoGroup} \cup Groups]
    BY <1>0, <1>8, <2>1, ChownSets DEF ChownFiles
  <2> QED
    BY <1>0, <1>8, <2>2 DEF ChownFiles
<1>9. CASE RemoveAll(c)
  <2>1. Vol(c) \in Volumes
    BY <1>0, <1>9 DEF RemoveAll, Fits, OnVolume
  <2>2. CASE RemoveMetadata(Vol(c))
    BY <1>0, <2>1, <2>2 DEF RemoveMetadata, Restrict, data
  <2>3. CASE RemoveLinks(Vol(c)) \/ RemoveFiles(Vol(c)) \/ RemoveStale(Vol(c))
    BY <1>0, <2>1, <2>3 DEF RemoveLinks, RemoveFiles, RemoveStale
  <2>4. CASE RemoveDataDir(Vol(c))
    BY <1>0, <2>1, <2>4 DEF RemoveDataDir
  <2>5. CASE UNCHANGED disk
    BY <1>0, <2>5 DEF disk, data
  <2>6. CASE /\ ~HasMetadata(Vol(c)) /\ Vol(c) \notin dataDirs
             /\ dirs' = dirs \ {Vol(c)}
             /\ UNCHANGED <<dataDirs, metadata, torn, data>>
    BY <1>0, <2>1, <2>6 DEF HasMetadata, data
  <2> QED
    BY <1>9, <2>2, <2>3, <2>4, <2>5, <2>6 DEF RemoveAll
<1> QED
  BY <1>1, <1>2, <1>3, <1>4, <1>5, <1>6, <1>7, <1>8, <1>9 DEF Step

LEMMA CallsStayTyped ==
    ASSUME IInv, NEW c \in Callers, Step(c)
    PROVE  CallsTyped' /\ faults' \in 0..MaxFaults
<1> USE StorageAssumption DEF CallsTyped
<1>0. /\ CallsTyped
      /\ faults \in 0..MaxFaults
      /\ call' = call
  BY DEF IInv, Typed, Step, ReadMetadata, Mkdir, MkdirData, Truncate, Write, ChownDir, WriteFiles,
         ChownFiles, RemoveAll, ReadDir, Open
<1>1. pc' \in [Callers -> Steps] /\ answer' \in [Callers -> Answers]
  BY <1>0 DEF Step, ReadMetadata, Mkdir, MkdirData, Truncate, Write, ChownDir, WriteFiles,
         ChownFiles, RemoveAll, ReadDir, Open, Goto, Return, Steps, Answers
<1>2. target' \in [Callers -> IDs] /\ misread' \in [Callers -> BOOLEAN]
  <2>1. CASE ReadMetadata(c)
    <3>1. Vol(c) \in Volumes
      BY <2>1, VolumeOfCall DEF ReadMetadata, IInv, CallOK, Fits, OnVolume
    <3> QED
      BY <1>0, <2>1, <3>1 DEF ReadMetadata, ExistingID, IDs, aim
  <2>2. CASE ~ReadMetadata(c)
    BY <1>0, <2>2 DEF Step, Mkdir, MkdirData, Truncate, Write, ChownDir, WriteFiles,
           ChownFiles, RemoveAll, ReadDir, Open, aim
  <2> QED
    BY <2>1, <2>2
<1>3. todo' \in [Callers -> SUBSET IDs] /\ vols' \in [Callers -> SUBSET IDs]
  <2>1. CASE ReadDir(c)
    BY <1>0, <2>1 DEF ReadDir, IDs, IInv, Typed, DiskTyped
  <2>2. CASE Open(c)
    BY <1>0, <2>2 DEF Open, IDs, list
  <2>3. CASE ~ReadDir(c) /\ ~Open(c)
    BY <1>0, <2>3 DEF Step, ReadMetadata, Mkdir, MkdirData, Truncate, Write, ChownDir, WriteFiles,
           ChownFiles, RemoveAll, list
  <2> QED
    BY <2>1, <2>2, <2>3
<1>4. faults' \in 0..MaxFaults
  BY <1>0 DEF Step, ReadMetadata, Mkdir, MkdirData, Truncate, Write, ChownDir, WriteFiles,
         ChownFiles, RemoveAll, ReadDir, Open, Fails
<1> QED
  BY <1>0, <1>1, <1>2, <1>3, <1>4

-----------------------------------------------------------------------------
\* A call does what its next step relies on.

LEMMA MetadataStepsAreOK ==
    ASSUME IInv, NEW c \in Callers,
           ReadMetadata(c) \/ Mkdir(c) \/ MkdirData(c) \/ Truncate(c) \/ Write(c)
    PROVE  CallOK(c)'
<1> USE StorageAssumption DEF CallOK, Fits, Knows, Registers, Writes, OnVolume, MetadataOps
<1>0. /\ CallOK(c)
      /\ Typed
      /\ pc[c] \in Steps
      /\ call[c].op \in OnVolume => Vol(c) \in Volumes
      /\ call[c].op \in OnVolume \cup {"ListVolumes", "none"}
      /\ call' = call
  BY VolumeOfCall DEF IInv, Typed, CallsTyped, ReadMetadata, Mkdir, MkdirData, Truncate, Write
<1> USE DEF Typed, CallsTyped, DiskTyped, Vol, Goto, Return, IsStored, GroupOf, IsSet, Gid,
            aim
<1>1. CASE ReadMetadata(c)
  <2>1. call[c].op = "RegisterMetadata" /\ UNCHANGED <<dirs, dataDirs, metadata, torn>>
    BY <1>0, <1>1 DEF ReadMetadata, disk
  <2>2. CASE pc' = [pc EXCEPT ![c] = "mkdir"]
    BY <1>0, <1>1, <2>1, <2>2 DEF ReadMetadata, NotFound, Changed, ExistingID, disk
  <2>3. CASE pc' = [pc EXCEPT ![c] = "return"]
    BY <1>0, <1>1, <2>1, <2>3
       DEF ReadMetadata, NotFound, Changed, ExistingContext, HasMetadata, disk
  <2> QED
    BY <1>1, <2>2, <2>3 DEF ReadMetadata
<1>2. CASE Mkdir(c)
  BY <1>0, <1>2 DEF Mkdir
<1>3. CASE MkdirData(c)
  BY <1>0, <1>3 DEF MkdirData
<1>4. CASE Truncate(c)
  BY <1>0, <1>4 DEF Truncate, Restrict
<1>5. CASE Write(c)
  BY <1>0, <1>5 DEF Write
<1> QED
  BY <1>1, <1>2, <1>3, <1>4, <1>5

LEMMA FileStepsAreOK ==
    ASSUME IInv, NEW c \in Callers,
           ChownDir(c) \/ WriteFiles(c) \/ ChownFiles(c) \/ RemoveAll(c) \/ ReadDir(c) \/ Open(c)
    PROVE  CallOK(c)'
<1> USE StorageAssumption DEF CallOK, Fits, Knows, Registers, Writes, OnVolume, MetadataOps
<1>0. /\ CallOK(c)
      /\ Typed
      /\ pc[c] \in Steps
      /\ call[c].op \in OnVolume => Vol(c) \in Volumes
      /\ call[c].op \in OnVolume \cup {"ListVolumes", "none"}
      /\ call' = call /\ target' = target /\ misread' = misread
  BY VolumeOfCall
     DEF IInv, Typed, CallsTyped, ChownDir, WriteFiles, ChownFiles, RemoveAll, ReadDir, Open,
         aim
<1> USE DEF Typed, CallsTyped, DiskTyped, Vol, Goto, Return
<1>1. CASE ChownDir(c)
  <2>1. Vol(c) \in Volumes
    BY <1>0, <1>1 DEF ChownDir
  <2>2. pc'[c] = "writeFiles" =>
            /\ GroupOf(call[c].context) # BadGroup
            /\ dirGroup'[Vol(c)] = Chown(dirGroup[Vol(c)], GroupOf(call[c].context))
    BY <1>0, <1>1, <2>1 DEF ChownDir
  <2>3. pc'[c] = "writeFiles" /\ IsSet(GroupOf(call[c].context)) =>
            dirGroup'[Vol(c)] = Gid(GroupOf(call[c].context))
    BY <1>0, <2>1, <2>2, ChownSets
  <2> QED
    BY <1>0, <1>1, <2>2, <2>3 DEF ChownDir, GroupOf, IsSet, Gid
<1>2. CASE WriteFiles(c)
  BY <1>0, <1>2 DEF WriteFiles, IsNew, GroupOf, IsSet, Gid
<1>3. CASE ChownFiles(c)
  <2>1. Vol(c) \in Volumes /\ GroupOf(call[c].context) # BadGroup
    BY <1>0, <1>3 DEF ChownFiles
  <2>2. answer'[c] # "error" =>
            group'[Vol(c)] = Chown(group[Vol(c)], GroupOf(call[c].context))
    BY <1>0, <1>3, <2>1 DEF ChownFiles
  <2>3. answer'[c] # "error" /\ IsSet(GroupOf(call[c].context)) =>
            group'[Vol(c)] = Gid(GroupOf(call[c].context))
    BY <1>0, <2>1, <2>2, ChownSets
  <2> QED
    BY <1>0, <1>3, <2>3 DEF ChownFiles, GroupOf, IsSet, Gid
<1>4. CASE RemoveAll(c)
  BY <1>0, <1>4 DEF RemoveAll, disk
<1>5. CASE ReadDir(c)
  BY <1>0, <1>5 DEF ReadDir, disk
<1>6. CASE Open(c)
  BY <1>0, <1>6 DEF Open, disk
<1> QED
  BY <1>1, <1>2, <1>3, <1>4, <1>5, <1>6
-----------------------------------------------------------------------------
\* The invariant is inductive.

LEMMA StepKeepsIInv == ASSUME IInv, NEW c \in Callers, Step(c) PROVE IInv'
<1>1. Typed'
  BY DiskStaysTyped, CallsStayTyped DEF Typed
<1>2. Exclusive'
  <2>1. call' = call
    BY DEF Step, ReadMetadata, Mkdir, MkdirData, Truncate, Write, ChownDir, WriteFiles,
           ChownFiles, RemoveAll, ReadDir, Open
  <2> QED
    BY <2>1 DEF IInv, Exclusive, Vol
<1>3. CallOK(c)'
  BY MetadataStepsAreOK, FileStepsAreOK DEF Step
<1>4. ASSUME NEW d \in Callers, d # c PROVE CallOK(d)'
  <2>1. call[d].op \in OnVolume => SameVolume(Vol(d))
    BY <1>4, StepsStayAtHome, VolumeOfCall DEF IInv, Exclusive
  <2>2. /\ pc'[d] = pc[d] /\ call'[d] = call[d] /\ target'[d] = target[d]
        /\ misread'[d] = misread[d] /\ answer'[d] = answer[d]
    BY <1>4
       DEF IInv, Typed, CallsTyped, Step, ReadMetadata, Mkdir, MkdirData, Truncate, Write, ChownDir,
           WriteFiles, ChownFiles, RemoveAll, ReadDir, Open, Goto, Return, aim
  <2> QED
    BY <2>1, <2>2, UntouchedIsOK
<1> QED
  BY <1>1, <1>2, <1>3, <1>4 DEF IInv

LEMMA UnchangedDisk ==
    ASSUME DiskTyped, UNCHANGED disk
    PROVE  DiskTyped' /\ \A v \in Volumes : SameVolume(v)
BY DEF disk, data, DiskTyped, SameVolume

LEMMA BeginKeepsIInv ==
    ASSUME IInv, NEW c \in Callers, NEW k \in CallsOfAll, Begin(c, k)
    PROVE  IInv'
<1> USE DEF Begin
<1>0. /\ UNCHANGED <<disk, answer, faults>>
      /\ Typed
      /\ pc[c] = "idle" /\ call[c].op = "none"
  BY DEF Goto, IInv, CallOK, Fits
<1>1. /\ k.op \in OnVolume => k.vol \in Volumes
      /\ k.op \in OnVolume \cup {"ListVolumes"}
  BY DEF CallsOfAll, MetadataCalls, WriteFilesCalls, RemoveCalls, ListCall, OnVolume
<1>2. FirstStep(k.op) \in Steps
  BY <1>1 DEF FirstStep, OnVolume, Steps
<1>3. Typed'
  <2>1. CallsTyped'
    BY <1>0, <1>1, <1>2 DEF Typed, CallsTyped, IDs, Goto, list
  <2> QED
    BY <1>0, <2>1, UnchangedDisk DEF Typed
<1>4. ASSUME NEW d \in Callers, d # c, call[d].op \in OnVolume, k.op \in OnVolume
      PROVE  Vol(d) # k.vol
  <2>1. pc[d] # "idle"
    BY <1>4 DEF IInv, CallOK, Fits, OnVolume
  <2> QED
    BY <1>4, <2>1
<1>5. Exclusive'
  BY <1>0, <1>4 DEF IInv, Typed, CallsTyped, Exclusive, Vol
<1>6. CallOK(c)'
  <2>1. call'[c] = k /\ pc'[c] = FirstStep(k.op) /\ (k.op \in OnVolume => target'[c] = k.vol)
    BY <1>0, <1>1 DEF Typed, CallsTyped, Goto
  <2> QED
    BY <1>0, <1>1, <2>1
       DEF CallOK, Fits, Knows, Registers, Writes, Vol, OnVolume, FirstStep, MetadataOps
<1>7. ASSUME NEW d \in Callers, d # c PROVE CallOK(d)'
  <2>1. /\ pc'[d] = pc[d] /\ call'[d] = call[d] /\ target'[d] = target[d]
        /\ misread'[d] = misread[d] /\ answer'[d] = answer[d]
    BY <1>0, <1>7 DEF Typed, CallsTyped, Goto
  <2>2. call[d].op \in OnVolume => SameVolume(Vol(d))
    BY <1>0, UnchangedDisk, VolumeOfCall DEF Typed
  <2> QED
    BY <2>1, <2>2, UntouchedIsOK
<1> QED
  BY <1>3, <1>5, <1>6, <1>7 DEF IInv

LEMMA EndKeepsIInv == ASSUME IInv, NEW c \in Callers, End(c) PROVE IInv'
<1> USE DEF End
<1>0. Typed
  BY DEF IInv
<1>1. Typed'
  <2>1. CallsTyped'
    BY <1>0, StorageAssumption DEF Typed, CallsTyped, Steps, Answers, IDs
  <2> QED
    BY <1>0, <2>1, UnchangedDisk DEF Typed
<1>2. Exclusive'
  BY <1>0 DEF IInv, Typed, CallsTyped, Exclusive, Vol, OnVolume, NoCall
<1>3. CallOK(c)'
  BY <1>0
     DEF Typed, CallsTyped, CallOK, Fits, Knows, Registers, Writes, OnVolume, NoCall
<1>4. ASSUME NEW d \in Callers, d # c PROVE CallOK(d)'
  <2>1. /\ pc'[d] = pc[d] /\ call'[d] = call[d] /\ target'[d] = target[d]
        /\ misread'[d] = misread[d] /\ answer'[d] = answer[d]
    BY <1>0, <1>4 DEF Typed, CallsTyped
  <2>2. call[d].op \in OnVolume => SameVolume(Vol(d))
    BY <1>0, UnchangedDisk, VolumeOfCall DEF Typed
  <2> QED
    BY <2>1, <2>2, UntouchedIsOK
<1> QED
  BY <1>1, <1>2, <1>3, <1>4 DEF IInv

\* A crash takes nothing from the disk; a ..data_tmp may be left by a writer.
LEMMA CrashDisk ==
    ASSUME IInv, Crash
    PROVE  /\ DiskTyped'
           /\ \A v \in Volumes :
                  (\A c \in Callers : v \notin Writing(c)) => SameVolume(v)
<1>1. /\ UNCHANGED <<dirs, dataDirs, metadata, torn, files, group, dirGroup, hidden>>
      /\ stale \subseteq stale'
      /\ stale' \subseteq stale \cup UNION {Writing(c) : c \in Callers}
  BY DEF Crash
<1>2. \A c \in Callers : Writing(c) \subseteq dataDirs
  BY DEF Writing, IInv, CallOK, Knows
<1> QED
  BY <1>1, <1>2 DEF DiskTyped, SameVolume, IInv, Typed

LEMMA CrashKeepsIInv == ASSUME IInv, Crash PROVE IInv'
<1> USE DEF Crash
<1>1. Typed'
  <2>1. CallsTyped'
    BY StorageAssumption DEF CallsTyped, Steps, Answers, IDs
  <2>2. faults' \in 0..MaxFaults
    BY StorageAssumption DEF Fails, IInv, Typed
  <2> QED
    BY <2>1, <2>2, CrashDisk DEF Typed
<1>2. Exclusive'
  BY DEF Exclusive, OnVolume, NoCall
<1>3. \A c \in Callers : CallOK(c)'
  BY DEF CallOK, Fits, Knows, Registers, Writes, OnVolume, NoCall
<1> QED
  BY <1>1, <1>2, <1>3 DEF IInv

LEMMA NextKeepsIInv == ASSUME IInv, [Next]_vars PROVE IInv'
<1>1. CASE UNCHANGED vars
  BY <1>1
     DEF vars, disk, data, aim, list, IInv, Typed, DiskTyped, CallsTyped, Exclusive, CallOK, Fits,
         Knows, Registers, Writes, Vol, IsStored, GroupOf, IsSet, Gid
<1> QED
  BY <1>1, StepKeepsIInv, BeginKeepsIInv, EndKeepsIInv, CrashKeepsIInv DEF Next

LEMMA AlwaysIInv == Spec => []IInv
  BY InitIInv, NextKeepsIInv, PTL DEF Spec

\* The storage is well typed: in particular no file is without its directory, no file
\* gets a group but the ones that chown can set, and 0 only if it is the fixed group.
THEOREM TypeCorrect == Spec => []TypeOK
<1>1. IInv => TypeOK
  <2> SUFFICES ASSUME IInv PROVE TypeOK
    OBVIOUS
  <2>1. Range(metadata) \subseteq Contexts
    BY DEF IInv, Typed, DiskTyped, Range
  <2>2. \A v \in Volumes : files[v] # NoFiles => files[v] \in Payloads /\ v \in dataDirs
    BY DEF IInv, Typed, DiskTyped
  <2>3. \A c \in Callers : pc[c] = "idle" <=> call[c].op = "none"
    BY DEF IInv, CallOK, Fits
  <2>4. \A v \in Volumes : {group[v], dirGroup[v]} \subseteq {NoGroup} \cup Groups
    BY DEF IInv, Typed, DiskTyped
  <2> QED
    BY <2>1, <2>2, <2>3, <2>4 DEF IInv, Typed, DiskTyped, CallsTyped, TypeOK
<1> QED
  BY <1>1, AlwaysIInv, PTL

\* What RegisterMetadata has answered true or false to is in metadata.json, unless its
\* ReadMetadata failed on the file, whichever calls fail and whenever the process dies.
THEOREM RegistrationHolds == Spec => []RegisteredIsStored
<1>1. IInv => RegisteredIsStored
  BY DEF IInv, CallOK, Registers, RegisteredIsStored, Returns
<1> QED
  BY <1>1, AlwaysIInv, PTL

\* What WriteFiles has answered ok to is below ..data, in the group of the volume, and so
\* is the data directory, for any group that chown can set.
THEOREM WritingHolds == Spec => []WrittenAreReadable
<1>1. IInv => WrittenAreReadable
  BY DEF IInv, CallOK, Writes, WrittenAreReadable, Returns
<1> QED
  BY <1>1, AlwaysIInv, PTL
-----------------------------------------------------------------------------
\* Lists.  What was stored all the while is listed or still to be opened; what is
\* listed was stored when its metadata.json was opened.

Lists(c) ==
    /\ call[c].op # "ListVolumes" \/ pc[c] = "readDir" => vols[c] = {}
    /\ call[c].op = "ListVolumes" =>
           /\ pc[c] = "open" => vols[c] \subseteq ever[c] /\ always[c] \subseteq vols[c] \cup todo[c]
           /\ pc[c] = "return" /\ answer[c] = "ok" =>
                  always[c] \subseteq vols[c] /\ vols[c] \subseteq ever[c]

\* What a list that goes on observes.
LEMMA Observed ==
    ASSUME Observe, NEW c \in Callers, call'[c] = ListCall, pc'[c] # "readDir"
    PROVE  /\ pc'[c] = "return" => always'[c] = always[c] /\ ever'[c] = ever[c]
           /\ pc'[c] # "return" =>
                  always'[c] = always[c] \cap Stored' /\ ever'[c] = ever[c] \cup Stored'
<1>1. /\ always'[c] = IF pc'[c] = "return" THEN always[c] ELSE always[c] \cap Stored'
      /\ ever'[c] = IF pc'[c] = "return" THEN ever[c] ELSE ever[c] \cup Stored'
  BY DEF Observe
<1> QED
  BY <1>1

LEMMA OnlyListCall ==
    ASSUME IInv, NEW c \in Callers
    PROVE  call[c].op = "ListVolumes" <=> call[c] = ListCall
BY DEF IInv, Typed, CallsTyped, CallsOfAll, MetadataCalls, WriteFilesCalls, RemoveCalls, ListCall,
       NoCall

LEMMA StoredHaveDirs == ASSUME IInv PROVE Stored \subseteq dirs /\ Stored \subseteq Volumes
BY StorageAssumption DEF IInv, Typed, DiskTyped, Stored, HasMetadata

\* Another call does no harm to a list.
LEMMA ListGoesOn ==
    ASSUME IInv, IInv', Observe, NEW c \in Callers, Lists(c),
           pc'[c] = pc[c], call'[c] = call[c], answer'[c] = answer[c],
           todo'[c] = todo[c], vols'[c] = vols[c]
    PROVE  Lists(c)'
<1>1. CASE call[c].op # "ListVolumes" \/ pc[c] = "readDir"
  BY <1>1 DEF Lists
<1>2. CASE call[c].op = "ListVolumes" /\ pc[c] # "readDir"
  <2>1. call'[c] = ListCall
    BY <1>2, OnlyListCall
  <2> QED
    BY <1>2, <2>1, Observed DEF Lists
<1> QED
  BY <1>1, <1>2

LEMMA OwnStepKeepsLists ==
    ASSUME IInv, Observe, NEW c \in Callers, Lists(c), Step(c)
    PROVE  Lists(c)'
<1> USE DEF IInv, Typed, CallsTyped
<1>0. Fits(c) /\ call' = call
  BY DEF CallOK, Step, ReadMetadata, Mkdir, MkdirData, Truncate, Write, ChownDir, WriteFiles,
         ChownFiles, RemoveAll, ReadDir, Open
<1>1. CASE ReadDir(c)
  <2>1. call'[c] = ListCall
    BY <1>0, <1>1, OnlyListCall DEF Fits, ReadDir
  <2>2. UNCHANGED Stored
    BY <1>1 DEF ReadDir, disk, Stored, HasMetadata
  <2>3. CASE Return(c, "error")
    BY <1>0, <1>1, <2>1, <2>3 DEF ReadDir, Return, Lists, ListCall
  <2>4. CASE ~Return(c, "error")
    <3>1. pc'[c] = "open" /\ dirs \subseteq todo'[c] /\ vols'[c] = {}
      BY <1>1, <2>4 DEF ReadDir, Goto, Lists
    <3>2. always'[c] \subseteq Stored'
      BY <2>1, <3>1, Observed
    <3> QED
      BY <2>1, <2>2, <3>1, <3>2, StoredHaveDirs DEF Lists, ListCall
  <2> QED
    BY <2>3, <2>4
<1>2. CASE Open(c)
  <2>1. call'[c] = ListCall /\ call[c].op = "ListVolumes"
    BY <1>0, <1>2, OnlyListCall DEF Fits, Open
  <2>2. UNCHANGED Stored
    BY <1>2 DEF Open, disk, Stored, HasMetadata
  <2>3. pc[c] = "open" /\ vols[c] \subseteq ever[c] /\ always[c] \subseteq vols[c] \cup todo[c]
    BY <1>2, <2>1 DEF Open, Lists
  <2>4. CASE \E id \in todo[c] :
                 /\ id # NoID /\ HasMetadata(id)
                 /\ vols' = [vols EXCEPT ![c] = @ \cup {id}]
                 /\ todo' = [todo EXCEPT ![c] = @ \ {id}]
                 /\ Goto(c, "open")
    <3>1. PICK id \in todo[c] :
              /\ id # NoID /\ HasMetadata(id)
              /\ vols' = [vols EXCEPT ![c] = @ \cup {id}]
              /\ todo' = [todo EXCEPT ![c] = @ \ {id}]
              /\ Goto(c, "open")
      BY <2>4
    <3>2. id \in Stored
      BY <3>1 DEF Stored, IDs
    <3>3. pc'[c] = "open" /\ vols'[c] = vols[c] \cup {id} /\ todo'[c] = todo[c] \ {id}
      BY <3>1 DEF Goto
    <3>4. always'[c] \subseteq always[c] /\ ever'[c] = ever[c] \cup Stored
      BY <2>1, <2>2, <3>3, Observed
    <3> QED
      BY <2>1, <2>3, <3>2, <3>3, <3>4 DEF Lists, ListCall
  <2>5. CASE Return(c, "error")
    BY <1>2, <2>1, <2>5 DEF Return, Lists, ListCall
  <2>6. CASE todo[c] = {} /\ Return(c, "ok") /\ UNCHANGED list
    <3>1. pc'[c] = "return" /\ vols'[c] = vols[c]
      BY <2>6 DEF Return, list
    <3>2. always'[c] = always[c] /\ ever'[c] = ever[c]
      BY <2>1, <3>1, Observed
    <3> QED
      BY <2>1, <2>3, <2>6, <3>1, <3>2 DEF Lists, ListCall
  <2> QED
    BY <1>2, <2>4, <2>5, <2>6 DEF Open
<1>3. CASE ~ReadDir(c) /\ ~Open(c)
  <2>1. call[c].op # "ListVolumes" /\ vols' = vols
    BY <1>0, <1>3
       DEF Step, ReadMetadata, Mkdir, MkdirData, Truncate, Write, ChownDir, WriteFiles,
           ChownFiles, RemoveAll, list, Fits, MetadataOps
  <2> QED
    BY <1>0, <2>1 DEF Lists
<1> QED
  BY <1>1, <1>2, <1>3

LEMMA NextKeepsLists ==
    ASSUME IInv, IInv', NEW c \in Callers, Lists(c), [Next]_vars
    PROVE  Lists(c)'
<1> USE DEF IInv, Typed, CallsTyped
<1>1. ASSUME NEW d \in Callers, Step(d), Observe PROVE Lists(c)'
  <2>1. CASE d = c
    BY <1>1, <2>1, OwnStepKeepsLists
  <2>2. CASE d # c
    <3>1. pc'[c] = pc[c] /\ call'[c] = call[c] /\ answer'[c] = answer[c]
          /\ todo'[c] = todo[c] /\ vols'[c] = vols[c]
      BY <1>1, <2>2
         DEF Step, ReadMetadata, Mkdir, MkdirData, Truncate, Write, ChownDir, WriteFiles,
             ChownFiles, RemoveAll, ReadDir, Open, Goto, Return, list
    <3> QED
      BY <1>1, <3>1, ListGoesOn
  <2> QED
    BY <2>1, <2>2
<1>2. ASSUME NEW d \in Callers, NEW k \in CallsOfAll, Begin(d, k), Observe PROVE Lists(c)'
  <2>1. CASE d = c
    <3>1. pc'[c] = FirstStep(k.op) /\ call'[c] = k /\ vols'[c] = vols[c]
      BY <1>2, <2>1 DEF Begin, Goto, list
    <3>2. vols[c] = {}
      BY <1>2, <2>1 DEF Begin, CallOK, Fits, Lists
    <3>3. k.op = "ListVolumes" => pc'[c] = "readDir"
      BY <3>1 DEF FirstStep
    <3> QED
      BY <3>1, <3>2, <3>3 DEF Lists
  <2>2. CASE d # c
    <3>1. pc'[c] = pc[c] /\ call'[c] = call[c] /\ answer'[c] = answer[c]
          /\ todo'[c] = todo[c] /\ vols'[c] = vols[c]
      BY <1>2, <2>2 DEF Begin, Goto, list
    <3> QED
      BY <1>2, <3>1, ListGoesOn
  <2> QED
    BY <2>1, <2>2
<1>3. ASSUME NEW d \in Callers, End(d), Observe PROVE Lists(c)'
  <2>1. CASE d = c
    BY <1>3, <2>1 DEF End, Lists, NoCall
  <2>2. CASE d # c
    <3>1. pc'[c] = pc[c] /\ call'[c] = call[c] /\ answer'[c] = answer[c]
          /\ todo'[c] = todo[c] /\ vols'[c] = vols[c]
      BY <1>3, <2>2 DEF End
    <3> QED
      BY <1>3, <3>1, ListGoesOn
  <2> QED
    BY <2>1, <2>2
<1>4. CASE Crash
  BY <1>4 DEF Crash, Lists, NoCall
<1>5. CASE UNCHANGED vars
  BY <1>5 DEF vars, list, Lists
<1> QED
  BY <1>1, <1>2, <1>3, <1>4, <1>5 DEF Next

\* A list without error has each volume that was there all the while and none that
\* never was, whatever else happens meanwhile.
THEOREM ListsAreExact == Spec => []ListIsExact
<1> DEFINE LInv == \A c \in Callers : Lists(c)
<1>1. Init => LInv
  BY DEF Init, Lists, NoCall
<1>2. IInv /\ IInv' /\ LInv /\ [Next]_vars => LInv'
  BY NextKeepsLists
<1>3. LInv => ListIsExact
  BY DEF Lists, ListIsExact, Returns
<1> QED
  BY <1>1, <1>2, <1>3, AlwaysIInv, PTL DEF Spec
-----------------------------------------------------------------------------
\* Filesystem beside MemoryFS.  Between calls, both have a volume with the same
\* metadata, or neither has it.
Settled(v) ==
    /\ v \notin torn \cup stale
    /\ v \in DOMAIN metadata <=> v \in DOMAIN memory
    /\ v \in DOMAIN memory => metadata[v] = memory[v]

Remembers(v, x) == v \in DOMAIN memory /\ memory[v] = x

\* How far Filesystem is in a call that MemoryFS has done already.
Tracks(c) ==
    call[c].op \in OnVolume /\ Vol(c) \notin apart =>
        LET v == Vol(c)
        IN  /\ pc[c] = "readMetadata" =>
                   /\ Remembers(v, call[c].context)
                   /\ \/ AbsoluteBase
                      \/ expected[c] \in
                             {"any", IF IsStored(v, call[c].context) THEN "false" ELSE "true"}
            /\ pc[c] # "return" /\ call[c].op \in MetadataOps =>
                   (pc[c] # "write" => v \notin torn) /\ v \notin stale /\ target[c] = v
            /\ call[c].op = "RegisterMetadata"
                   /\ pc[c] \in {"mkdir", "mkdirData", "truncate", "write"} =>
                   /\ Remembers(v, call[c].context)
                   /\ AbsoluteBase \/ expected[c] \in {"any", "true"}
                   /\ pc[c] = "truncate" => v \in dirs
            /\ call[c].op = "WriteMetadata" /\ pc[c] = "truncate" =>
                   \/ v \in dirs /\ Remembers(v, call[c].context) /\ expected[c] = "ok"
                   \/ v \notin dirs /\ v \notin DOMAIN memory /\ expected[c] = "error"
            /\ call[c].op = "WriteMetadata" /\ pc[c] = "write" =>
                   Remembers(v, call[c].context) /\ expected[c] = "ok"
            /\ call[c].op = "WriteFiles" /\ pc[c] # "return" =>
                   /\ Settled(v)
                   /\ \/ expected[c] = "any"
                      \/ expected[c] = "ok" /\ GroupOf(call[c].context) # BadGroup
            /\ pc[c] = "removeAll" => v \notin DOMAIN memory /\ expected[c] \in {"any", "ok"}
            /\ pc[c] = "return" =>
                   /\ Settled(v)
                   /\ \/ AbsoluteBase /\ call[c].op = "RegisterMetadata"
                      \/ expected[c] \in {"any", answer[c]}

Unused(v) == \A c \in Callers : call[c].op \in OnVolume => Vol(c) # v

MTyped ==
    /\ expected \in [Callers -> Answers \cup {"any"}]
    /\ DOMAIN memory \subseteq Volumes \ apart
    /\ apart \subseteq Volumes

MInv ==
    /\ MTyped
    /\ \A v \in Volumes \ apart : Unused(v) => Settled(v)
    /\ \A c \in Callers : Tracks(c)

SameMemory(v) ==
    /\ v \in DOMAIN memory' <=> v \in DOMAIN memory
    /\ v \in DOMAIN memory => memory'[v] = memory[v]

\* What becomes of MemoryFS and of the history in the steps of Filesystem.
Follows ==
    /\ apart' = IF faults' = faults THEN apart
                ELSE apart \cup {v \in Volumes :
                         \E c \in Callers : WorksOn(c, v) /\ pc'[c] # pc[c]}
    /\ memory' = Without(memory, apart')
    /\ expected' = [c \in Callers |->
                       IF pc'[c] = "idle" THEN "none"
                       ELSE IF call'[c].op \in OnVolume /\ Vol(c) \in apart' THEN "any"
                       ELSE expected[c]]

LEMMA AlsoFilesystem == [PNext]_pvars => [Next]_vars
BY DEF PNext, PStep, PBegin, Next, pvars

LEMMA FollowsKeeps ==
    ASSUME MTyped, Follows
    PROVE  /\ MTyped'
           /\ apart \subseteq apart'
           /\ \A v \in Volumes \ apart' : SameMemory(v)
<1>1. apart \subseteq apart' /\ apart' \subseteq Volumes
  BY DEF Follows, MTyped
<1>2. /\ DOMAIN memory' = DOMAIN memory \ apart'
      /\ \A v \in DOMAIN memory' : memory'[v] = memory[v]
  BY DEF Follows, Without, Restrict
<1>3. expected' \in [Callers -> Answers \cup {"any"}]
  BY DEF Follows, MTyped, Answers
<1> QED
  BY <1>1, <1>2, <1>3 DEF MTyped, SameMemory

\* A call that nothing happens to, to itself or to its volume, is as far as before.
LEMMA UntouchedTracks ==
    ASSUME IInv, NEW d \in Callers, Tracks(d),
           pc'[d] = pc[d], call'[d] = call[d], target'[d] = target[d], answer'[d] = answer[d],
           call[d].op \in OnVolume /\ Vol(d) \notin apart' =>
               /\ Vol(d) \notin apart
               /\ SameVolume(Vol(d)) /\ SameMemory(Vol(d))
               /\ expected'[d] = expected[d]
    PROVE  Tracks(d)'
<1> SUFFICES ASSUME call[d].op \in OnVolume, Vol(d) \notin apart' PROVE Tracks(d)'
  BY DEF Tracks, Vol
<1>1. Vol(d)' = Vol(d) /\ GroupOf(call'[d].context) = GroupOf(call[d].context)
  BY DEF Vol
<1>2. Settled(Vol(d)) => Settled(Vol(d))'
  BY <1>1 DEF Settled, SameVolume, SameMemory, Vol
<1>3. Remembers(Vol(d), call[d].context) => Remembers(Vol(d), call[d].context)'
  BY <1>1 DEF Remembers, SameMemory, Vol
<1>4. IsStored(Vol(d), call[d].context)' <=> IsStored(Vol(d), call[d].context)
  BY <1>1 DEF IsStored, SameVolume, Vol
<1>5. /\ Vol(d) \in torn' <=> Vol(d) \in torn
      /\ Vol(d) \in stale' <=> Vol(d) \in stale
      /\ Vol(d) \in dirs' <=> Vol(d) \in dirs
      /\ Vol(d) \in DOMAIN memory' <=> Vol(d) \in DOMAIN memory
  BY DEF SameVolume, SameMemory
<1> QED
  BY <1>1, <1>2, <1>3, <1>4, <1>5 DEF Tracks, GroupOf

LEMMA InitMInv == PInit => MInv
BY StorageAssumption
   DEF PInit, Init, MInv, MTyped, Answers, NewMemoryFS, Unused, Settled, Tracks, NoCall, OnVolume

-----------------------------------------------------------------------------
\* A step of a call on a volume.

\* A call to the file system that fails, at the first step or any other, ends that step.
LEMMA StepsOfOne ==
    ASSUME IInv, NEW c \in Callers, Step(c)
    PROVE  /\ call' = call
           /\ pc[c] \notin {"idle", "return"}
           /\ faults' # faults => pc'[c] # pc[c]
           /\ \A d \in Callers \ {c} :
                  pc'[d] = pc[d] /\ target'[d] = target[d] /\ answer'[d] = answer[d]
BY DEF IInv, Typed, CallsTyped, Step, ReadMetadata, Mkdir, MkdirData, Truncate, Write, ChownDir,
       WriteFiles, ChownFiles, RemoveAll, ReadDir, Open, Goto, Return, Fails, aim

\* Only steps without failures leave a volume together.
LEMMA TogetherIsFaultless ==
    ASSUME IInv, MTyped, Follows, NEW c \in Callers, Step(c),
           call[c].op \in OnVolume, Vol(c) \notin apart'
    PROVE  /\ faults' = faults
           /\ Vol(c) \in Volumes /\ Vol(c) \notin apart
           /\ SameMemory(Vol(c)) /\ expected'[c] = expected[c]
<1>1. Vol(c) \in Volumes
  BY VolumeOfCall DEF IInv
<1>2. Vol(c) \notin apart /\ SameMemory(Vol(c))
  BY <1>1, FollowsKeeps
<1>3. faults' = faults
  <2> SUFFICES ASSUME faults' # faults PROVE FALSE
    OBVIOUS
  <2>1. WorksOn(c, Vol(c)) /\ pc'[c] # pc[c]
    BY StepsOfOne DEF WorksOn
  <2> QED
    BY <1>1, <2>1 DEF Follows
<1>4. pc'[c] # "idle"
  BY DEF IInv, Typed, CallsTyped, Step, ReadMetadata, Mkdir, MkdirData, Truncate, Write, ChownDir,
         WriteFiles, ChownFiles, RemoveAll, ReadDir, Open, Goto, Return
<1>5. expected'[c] = expected[c]
  BY <1>4, StepsOfOne DEF Follows
<1> QED
  BY <1>1, <1>2, <1>3, <1>5

LEMMA OwnStepTracks ==
    ASSUME IInv, MInv, Follows, NEW c \in Callers, Step(c)
    PROVE  Tracks(c)'
<1> SUFFICES ASSUME call[c].op \in OnVolume, Vol(c) \notin apart' PROVE Tracks(c)'
  BY StepsOfOne DEF Tracks, Vol
<1> DEFINE v == Vol(c)
<1>0. /\ faults' = faults
      /\ v \in Volumes /\ v # NoID
      /\ v \notin apart
      /\ SameMemory(v) /\ expected'[c] = expected[c]
      /\ Vol(c)' = v /\ call' = call
  BY TogetherIsFaultless, StepsOfOne, StorageAssumption DEF MInv, Vol
<1>1. Fits(c) /\ Knows(c) /\ Tracks(c) /\ DiskTyped /\ CallsTyped /\ faults \in Nat
  BY StorageAssumption DEF IInv, CallOK, MInv, Typed
<1>2. faults + 1 # faults
  BY <1>1
<1>3. IsStored(v, call[c].context)' <=> v \in DOMAIN metadata' /\ metadata'[v] = call[c].context
  BY <1>0 DEF IsStored
<1> USE DEF Goto, Return, Fails, CallsTyped, Fits, Knows, OnVolume, MetadataOps, aim
<1>4. CASE ReadMetadata(c)
  <2>1. /\ call[c].op = "RegisterMetadata" /\ v \notin torn \cup stale
        /\ Remembers(v, call[c].context)
        /\ target[c] = v
        /\ \/ AbsoluteBase
           \/ expected[c] \in {"any", IF IsStored(v, call[c].context) THEN "false" ELSE "true"}
    BY <1>0, <1>1, <1>4 DEF ReadMetadata, Tracks
  <2>2. UNCHANGED disk
    BY <1>4 DEF ReadMetadata
  <2>3. CASE ~AbsoluteBase /\ v \in DOMAIN metadata /\ metadata[v] = call[c].context
    <3>1. pc'[c] = "return" /\ answer'[c] = "false"
      BY <1>0, <1>1, <1>2, <1>4, <2>1, <2>3
         DEF ReadMetadata, NotFound, HasMetadata, Changed, ExistingContext
    <3>2. Settled(v)'
      BY <1>0, <2>1, <2>2, <2>3 DEF Settled, SameMemory, Remembers, disk, data
    <3> QED
      BY <1>0, <2>1, <2>3, <3>1, <3>2 DEF Tracks, IsStored
  <2>4. CASE AbsoluteBase \/ ~(v \in DOMAIN metadata /\ metadata[v] = call[c].context)
    <3>1. pc'[c] = "mkdir" /\ target'[c] = v
      BY <1>0, <1>1, <1>2, <1>4, <2>1, <2>4
         DEF ReadMetadata, NotFound, HasMetadata, Changed, ExistingContext, ExistingID
    <3>2. Remembers(v, call[c].context)' /\ v \notin torn' \cup stale'
      BY <1>0, <2>1, <2>2 DEF SameMemory, Remembers, disk, data
    <3> QED
      BY <1>0, <2>1, <2>4, <3>1, <3>2 DEF Tracks, IsStored
  <2> QED
    BY <2>3, <2>4
<1>5. CASE Mkdir(c)
  <2>1. pc[c] = "mkdir" /\ pc'[c] = "mkdirData" /\ target' = target
        /\ UNCHANGED <<metadata, torn, stale>>
    BY <1>0, <1>1, <1>2, <1>5 DEF Mkdir, data
  <2>2. Remembers(v, call[c].context) => Remembers(v, call[c].context)'
    BY <1>0 DEF Remembers, SameMemory
  <2>3. Settled(v) => Settled(v)'
    BY <1>0, <2>1 DEF Settled, SameMemory
  <2> QED
    BY <1>0, <1>1, <2>1, <2>2, <2>3 DEF Tracks, GroupOf
<1>6. CASE MkdirData(c)
  <2>1. /\ pc[c] = "mkdirData" /\ target' = target
        /\ pc'[c] = IF call[c].op = "WriteFiles" THEN "chownDir" ELSE "truncate"
        /\ UNCHANGED <<dirs, metadata, torn, stale>>
    BY <1>0, <1>1, <1>2, <1>6 DEF MkdirData, data
  <2>2. Remembers(v, call[c].context) => Remembers(v, call[c].context)'
    BY <1>0 DEF Remembers, SameMemory
  <2>3. Settled(v) => Settled(v)'
    BY <1>0, <2>1 DEF Settled, SameMemory
  <2> QED
    BY <1>0, <1>1, <2>1, <2>2, <2>3 DEF Tracks, GroupOf
<1>7. CASE Truncate(c)
  <2>1. /\ pc[c] = "truncate" /\ target[c] = v /\ target' = target
        /\ v \notin torn \cup stale
        /\ UNCHANGED <<dirs, stale>>
    BY <1>0, <1>1, <1>7 DEF Truncate, Tracks, data
  <2>2. CASE v \in dirs
    <3>1. pc'[c] = "write"
      BY <1>0, <1>1, <1>2, <1>7, <2>1, <2>2 DEF Truncate
    <3>2. Remembers(v, call[c].context) => Remembers(v, call[c].context)'
      BY <1>0 DEF Remembers, SameMemory
    <3> QED
      BY <1>0, <1>1, <2>1, <2>2, <3>1, <3>2 DEF Tracks
  <2>3. CASE v \notin dirs
    <3>1. pc'[c] = "return" /\ answer'[c] = "error" /\ UNCHANGED <<torn, metadata>>
      BY <1>0, <1>1, <1>2, <1>7, <2>1, <2>3 DEF Truncate
    <3>2. v \notin DOMAIN memory /\ expected[c] = "error"
      BY <1>0, <1>1, <2>1, <2>3 DEF Tracks
    <3>3. v \notin DOMAIN metadata
      BY <1>0, <1>1, <2>3 DEF DiskTyped
    <3>4. Settled(v)'
      BY <1>0, <2>1, <3>1, <3>2, <3>3 DEF Settled, SameMemory
    <3> QED
      BY <1>0, <3>1, <3>2, <3>4 DEF Tracks
  <2> QED
    BY <2>2, <2>3
<1>8. CASE Write(c)
  <2>1. /\ pc[c] = "write" /\ target[c] = v
        /\ v \notin stale /\ UNCHANGED stale
        /\ Remembers(v, call[c].context)
        /\ \/ AbsoluteBase /\ call[c].op = "RegisterMetadata"
           \/ expected[c] \in {"any", IF call[c].op = "RegisterMetadata" THEN "true" ELSE "ok"}
    BY <1>0, <1>1, <1>8 DEF Write, Tracks, data
  <2>2. /\ pc'[c] = "return"
        /\ answer'[c] = IF call[c].op = "RegisterMetadata" THEN "true" ELSE "ok"
        /\ v \notin torn' /\ v \in DOMAIN metadata' /\ metadata'[v] = call[c].context
    BY <1>0, <1>1, <1>2, <1>8, <2>1 DEF Write
  <2>3. Settled(v)'
    BY <1>0, <2>1, <2>2 DEF Settled, SameMemory, Remembers
  <2> QED
    BY <1>0, <2>1, <2>2, <2>3 DEF Tracks
<1>9. CASE ChownDir(c) \/ WriteFiles(c) \/ ChownFiles(c)
  <2>1. /\ call[c].op = "WriteFiles" /\ Settled(v)
        /\ expected[c] = "any" \/ (expected[c] = "ok" /\ GroupOf(call[c].context) # BadGroup)
        /\ UNCHANGED <<metadata, torn>>
    BY <1>0, <1>1, <1>9 DEF ChownDir, WriteFiles, ChownFiles, Tracks
  <2>2. \/ pc'[c] \in {"writeFiles", "chownFiles"}
        \/ pc'[c] = "return" /\ (answer'[c] = "ok" \/ expected[c] = "any")
    BY <1>0, <1>1, <1>2, <1>9, <2>1 DEF ChownDir, WriteFiles, ChownFiles, Settled
  <2>3. UNCHANGED stale
    BY <1>0, <1>1, <1>2, <1>9 DEF ChownDir, WriteFiles, ChownFiles
  <2>4. Settled(v)'
    BY <1>0, <2>1, <2>3 DEF Settled, SameMemory
  <2> QED
    BY <1>0, <2>1, <2>2, <2>4 DEF Tracks, GroupOf
<1>10. CASE RemoveAll(c)
  <2>1. /\ call[c].op = "RemoveVolume"
        /\ v \notin DOMAIN memory' /\ expected[c] \in {"any", "ok"}
    BY <1>0, <1>1, <1>10 DEF RemoveAll, Tracks, SameMemory
  <2>2. CASE pc'[c] = "removeAll"
    BY <1>0, <2>1, <2>2 DEF Tracks
  <2>3. CASE pc'[c] # "removeAll"
    <3>1. /\ ~HasMetadata(v) /\ v \notin stale
          /\ pc'[c] = "return" /\ answer'[c] = "ok"
          /\ UNCHANGED <<metadata, torn, stale>>
      BY <1>0, <1>1, <1>2, <1>10, <2>3 DEF RemoveAll, data, DiskTyped
    <3>2. Settled(v)'
      BY <1>0, <2>1, <3>1 DEF Settled, HasMetadata
    <3> QED
      BY <1>0, <2>1, <3>1, <3>2 DEF Tracks
  <2> QED
    BY <2>2, <2>3
<1>11. ~ReadDir(c) /\ ~Open(c)
  BY <1>1 DEF ReadDir, Open
<1> QED
  BY <1>4, <1>5, <1>6, <1>7, <1>8, <1>9, <1>10, <1>11 DEF Step

LEMMA OthersTrack ==
    ASSUME IInv, MInv, Follows, NEW c \in Callers, Step(c), NEW d \in Callers \ {c}
    PROVE  Tracks(d)'
<1>1. /\ call' = call
      /\ pc'[d] = pc[d] /\ target'[d] = target[d] /\ answer'[d] = answer[d]
  BY StepsOfOne
<1>2. ASSUME call[d].op \in OnVolume, Vol(d) \notin apart'
      PROVE  /\ Vol(d) \notin apart
             /\ SameVolume(Vol(d)) /\ SameMemory(Vol(d))
             /\ expected'[d] = expected[d]
  <2>1. Vol(d) \in Volumes
    BY <1>2, VolumeOfCall DEF IInv
  <2>2. SameVolume(Vol(d))
    BY <1>2, <2>1, StepsStayAtHome DEF IInv, Exclusive
  <2>3. pc[d] # "idle"
    BY <1>2 DEF IInv, CallOK, Fits, OnVolume
  <2>4. expected'[d] = expected[d]
    BY <1>1, <1>2, <2>3 DEF Follows
  <2> QED
    BY <1>2, <2>1, <2>2, <2>4, FollowsKeeps DEF MInv
<1> QED
  BY <1>1, <1>2, UntouchedTracks DEF MInv

LEMMA StepKeepsMInv ==
    ASSUME IInv, MInv, Follows, NEW c \in Callers, Step(c)
    PROVE  MInv'
<1>1. MTyped'
  BY FollowsKeeps DEF MInv
<1>2. ASSUME NEW v \in Volumes \ apart', Unused(v)' PROVE Settled(v)'
  <2>1. Unused(v)
    BY <1>2, StepsOfOne DEF Unused, Vol
  <2>2. v \notin apart /\ SameMemory(v)
    BY <1>2, FollowsKeeps DEF MInv
  <2>3. SameVolume(v)
    BY <2>1, StepsStayAtHome DEF Unused
  <2> QED
    BY <2>1, <2>2, <2>3 DEF MInv, Settled, SameMemory, SameVolume
<1>3. \A d \in Callers : Tracks(d)'
  BY OwnStepTracks, OthersTrack
<1> QED
  BY <1>1, <1>2, <1>3 DEF MInv

LEMMA EndKeepsMInv ==
    ASSUME IInv, MInv, Follows, NEW c \in Callers, End(c)
    PROVE  MInv'
<1>0. /\ pc[c] = "return"
      /\ UNCHANGED <<disk, faults>> /\ apart' = apart
      /\ call'[c] = NoCall
      /\ \A d \in Callers \ {c} :
             /\ pc'[d] = pc[d] /\ call'[d] = call[d]
             /\ target'[d] = target[d] /\ answer'[d] = answer[d]
  BY DEF End, Follows, IInv, Typed, CallsTyped
<1>1. MTyped'
  BY FollowsKeeps DEF MInv
<1>2. \A v \in Volumes : SameVolume(v)
  BY <1>0, UnchangedDisk DEF IInv, Typed
<1>3. ASSUME NEW v \in Volumes \ apart', Unused(v)' PROVE Settled(v)'
  <2>1. SameMemory(v) /\ SameVolume(v) /\ v \notin apart
    BY <1>0, <1>2, <1>3, FollowsKeeps DEF MInv
  <2>2. CASE call[c].op \in OnVolume /\ Vol(c) = v
    BY <1>0, <2>1, <2>2 DEF MInv, Tracks, Settled, SameMemory, SameVolume
  <2>3. CASE ~(call[c].op \in OnVolume /\ Vol(c) = v)
    <3>1. Unused(v)
      BY <1>0, <1>3, <2>3 DEF Unused, Vol
    <3> QED
      BY <2>1, <3>1 DEF MInv, Settled, SameMemory, SameVolume
  <2> QED
    BY <2>2, <2>3
<1>4. Tracks(c)'
  BY <1>0 DEF Tracks, NoCall, OnVolume
<1>5. ASSUME NEW d \in Callers \ {c} PROVE Tracks(d)'
  <2>1. ASSUME call[d].op \in OnVolume, Vol(d) \notin apart'
        PROVE  /\ Vol(d) \notin apart
               /\ SameVolume(Vol(d)) /\ SameMemory(Vol(d))
               /\ expected'[d] = expected[d]
    <3>1. Vol(d) \in Volumes /\ pc[d] # "idle"
      BY <2>1, VolumeOfCall DEF IInv, CallOK, Fits, OnVolume
    <3>2. expected'[d] = expected[d]
      BY <1>0, <2>1, <3>1 DEF Follows
    <3> QED
      BY <1>0, <1>2, <2>1, <3>1, <3>2, FollowsKeeps DEF MInv
  <2> QED
    BY <1>0, <2>1, UntouchedTracks DEF MInv
<1> QED
  BY <1>1, <1>3, <1>4, <1>5 DEF MInv

\* A crash parts the volumes that something was under way for.
LEMMA CrashKeepsMInv == ASSUME IInv, MInv, Follows, Crash PROVE MInv'
<1>1. MTyped'
  BY FollowsKeeps DEF MInv
<1>2. faults' # faults
  BY StorageAssumption DEF Crash, Fails, IInv, Typed
<1>3. ASSUME NEW v \in Volumes \ apart' PROVE Settled(v)'
  <2>1. SameMemory(v) /\ v \notin apart
    BY <1>3, FollowsKeeps DEF MInv
  <2>2. ASSUME NEW c \in Callers, call[c].op \in OnVolume, Vol(c) = v
        PROVE  pc[c] = "return"
    <3>1. pc[c] # "idle" /\ pc'[c] = "idle"
      BY <2>2 DEF IInv, CallOK, Fits, OnVolume, Crash
    <3> QED
      BY <1>2, <1>3, <2>2, <3>1 DEF Follows, WorksOn
  <2>3. Settled(v)
    BY <2>1, <2>2 DEF MInv, Unused, Tracks
  <2>4. ASSUME NEW c \in Callers PROVE v \notin Writing(c)
    BY <2>2 DEF Writing, IInv, CallOK, Fits, OnVolume
  <2>5. SameVolume(v)
    BY <2>4, CrashDisk
  <2> QED
    BY <2>1, <2>3, <2>5 DEF Settled, SameMemory, SameVolume
<1>4. \A c \in Callers : Tracks(c)'
  BY DEF Crash, Tracks, NoCall, OnVolume
<1> QED
  BY <1>1, <1>3, <1>4 DEF MInv

-----------------------------------------------------------------------------
\* A call begins, and MemoryFS does it.

\* What each call makes of the volume that it is about, and that it touches no other.
LEMMA MemoryCalls ==
    ASSUME IInv, MInv, NEW c \in Callers, NEW k \in CallsOfAll, PBegin(c, k), k.op \in OnVolume
    PROVE  /\ MTyped'
           /\ \A v \in Volumes \ {k.vol} : SameMemory(v) /\ (v \in apart' <=> v \in apart)
           /\ k.op \in MetadataOps /\ k.vol \notin apart' =>
                  \/ Remembers(k.vol, k.context)'
                  \/ k.op = "WriteMetadata" /\ k.vol \notin DOMAIN memory \cup DOMAIN memory'
           /\ k.op = "WriteFiles" => SameMemory(k.vol)
           /\ k.op = "RemoveVolume" => k.vol \notin DOMAIN memory'
           /\ \A d \in Callers \ {c} : expected'[d] = expected[d]
           /\ expected'[c] = Expected(k)
<1>0. /\ k.vol \in Volumes
      /\ MTyped
      /\ apart' = Part(k)
      /\ expected' = [expected EXCEPT ![c] = Expected(k)]
  BY DEF MInv, PBegin, CallsOfAll, MetadataCalls, WriteFilesCalls, RemoveCalls, ListCall, OnVolume
<1> DEFINE after == Apply(memory, k).files
<1>1. /\ DOMAIN memory' = DOMAIN after \ apart'
      /\ \A v \in DOMAIN memory' : memory'[v] = after[v]
  BY DEF PBegin, Without, Restrict
<1>2. CASE k.op = "RegisterMetadata"
  <2>1. Apply(memory, k) = RegisterMetadata(memory, k)
    BY <1>2 DEF Apply
  <2>2. /\ DOMAIN after = DOMAIN memory \cup {k.vol}
        /\ after[k.vol] = k.context
        /\ \A v \in DOMAIN memory \ {k.vol} : after[v] = memory[v]
        /\ Apply(memory, k).answer \in Answers
    BY <2>1 DEF RegisterMetadata, Put, Answers
  <2>3. apart' \in {apart, apart \ {k.vol}}
    BY <1>0, <1>2 DEF Part
  <2> HIDE DEF after
  <2> QED
    BY <1>0, <1>1, <1>2, <2>2, <2>3
       DEF MTyped, SameMemory, Remembers, Expected, Answers, MetadataOps
<1>3. CASE k.op = "WriteMetadata"
  <2>1. Apply(memory, k) = WriteMetadata(memory, k)
    BY <1>3 DEF Apply
  <2>2. /\ DOMAIN after = DOMAIN memory
        /\ k.vol \in DOMAIN memory => after[k.vol] = k.context
        /\ \A v \in DOMAIN memory \ {k.vol} : after[v] = memory[v]
        /\ Apply(memory, k).answer \in Answers
    BY <2>1 DEF WriteMetadata, Put, Answers
  <2>3. apart' \in {apart, apart \cup {k.vol}}
    BY <1>0, <1>3 DEF Part
  <2> HIDE DEF after
  <2> QED
    BY <1>0, <1>1, <1>3, <2>2, <2>3
       DEF MTyped, SameMemory, Remembers, Expected, Answers, MetadataOps
<1>4. CASE k.op = "WriteFiles"
  <2>1. after = memory /\ Apply(memory, k).answer \in Answers
    BY <1>4 DEF Apply, WriteFilesToMap, Answers
  <2>2. apart' = apart
    BY <1>0, <1>4 DEF Part
  <2> HIDE DEF after
  <2> QED
    BY <1>0, <1>1, <1>4, <2>1, <2>2 DEF MTyped, SameMemory, Expected, Answers, MetadataOps
<1>5. CASE k.op = "RemoveVolume"
  <2>1. Apply(memory, k) = RemoveVolume(memory, k)
    BY <1>5 DEF Apply
  <2>2. /\ DOMAIN after = DOMAIN memory \ {k.vol}
        /\ \A v \in DOMAIN memory \ {k.vol} : after[v] = memory[v]
        /\ Apply(memory, k).answer \in Answers
    BY <2>1 DEF RemoveVolume, Without, Restrict, Answers
  <2>3. apart' = apart \ {k.vol}
    BY <1>0, <1>5 DEF Part
  <2> HIDE DEF after
  <2> QED
    BY <1>0, <1>1, <1>5, <2>2, <2>3 DEF MTyped, SameMemory, Expected, Answers, MetadataOps
<1> QED
  BY <1>2, <1>3, <1>4, <1>5 DEF OnVolume

LEMMA BeginKeepsMInv ==
    ASSUME IInv, MInv, NEW c \in Callers, NEW k \in CallsOfAll, PBegin(c, k)
    PROVE  MInv'
<1>0. /\ pc[c] = "idle" /\ call[c].op = "none"
      /\ UNCHANGED disk
      /\ call'[c] = k /\ pc'[c] = FirstStep(k.op)
      /\ k.op \in OnVolume => target'[c] = k.vol
      /\ \A d \in Callers \ {c} :
             /\ pc'[d] = pc[d] /\ call'[d] = call[d]
             /\ target'[d] = target[d] /\ answer'[d] = answer[d]
  BY DEF PBegin, Begin, Goto, IInv, CallOK, Fits, Typed, CallsTyped
<1>1. \A v \in Volumes : SameVolume(v)
  BY <1>0, UnchangedDisk DEF IInv, Typed
<1>2. CASE k.op \in OnVolume
  <2> DEFINE v == k.vol
  <2>0. v \in Volumes
    BY <1>2 DEF CallsOfAll, MetadataCalls, WriteFilesCalls, RemoveCalls, ListCall, OnVolume
  <2>1. \A d \in Callers : call[d].op \in OnVolume => Vol(d) # v
    BY <1>2 DEF PBegin, Begin, IInv, CallOK, Fits, OnVolume
  <2>2. v \notin apart => Settled(v)
    BY <2>0, <2>1 DEF MInv, Unused
  <2>3. ASSUME NEW w \in Volumes \ apart', Unused(w)' PROVE Settled(w)'
    <3>1. w # v /\ Unused(w)
      BY <1>0, <1>2, <2>3 DEF Unused, Vol, OnVolume
    <3> QED
      BY <1>1, <1>2, <3>1, MemoryCalls DEF MInv, Settled, SameMemory, SameVolume
  <2>4. ASSUME NEW d \in Callers \ {c} PROVE Tracks(d)'
    <3>1. ASSUME call[d].op \in OnVolume
          PROVE  Vol(d) \in Volumes \ {v}
      BY <2>1, <3>1, VolumeOfCall DEF IInv
    <3> QED
      BY <1>0, <1>1, <1>2, <3>1, MemoryCalls, UntouchedTracks DEF MInv
  <2>5. Tracks(c)'
    <3> SUFFICES ASSUME v \notin apart' PROVE Tracks(c)'
      BY <1>0 DEF Tracks, Vol
    <3>1. /\ Vol(c)' = v /\ target'[c] = v
          /\ apart' = Part(k) /\ expected'[c] = Expected(k)
      BY <1>0, <1>2, MemoryCalls DEF Vol, PBegin
    <3>2. UNCHANGED <<dirs, metadata, torn, stale>> /\ DiskTyped /\ v # NoID
      BY <1>0, <2>0, StorageAssumption DEF disk, data, IInv, Typed
    <3>3. CASE k.op = "RegisterMetadata"
      <4>1. v \notin torn \cup stale /\ Remembers(v, k.context)'
        BY <1>2, <2>2, <3>1, <3>3, MemoryCalls DEF Part, Settled, MetadataOps
      <4>2. v \notin apart => (IsStored(v, k.context) <=> Remembers(v, k.context))
        BY <2>2 DEF Settled, IsStored, Remembers
      <4>3. Expected(k) \in {"any", IF IsStored(v, k.context) THEN "false" ELSE "true"}
        <5>1. Apply(memory, k).answer = IF Remembers(v, k.context) THEN "false" ELSE "true"
          BY <3>3 DEF Apply, RegisterMetadata, Remembers
        <5> QED
          BY <4>2, <5>1 DEF Expected
      <4>4. IsStored(v, k.context)' <=> IsStored(v, k.context)
        BY <3>2 DEF IsStored
      <4>5. pc'[c] = "readMetadata"
        BY <1>0, <3>3 DEF FirstStep
      <4> QED
        BY <1>0, <3>1, <3>2, <3>3, <4>1, <4>3, <4>4, <4>5 DEF Tracks
    <3>4. CASE k.op = "WriteMetadata"
      <4>1. v \notin apart /\ (v \in dirs => v \in DOMAIN memory)
        BY <3>1, <3>4 DEF Part
      <4>2. v \notin torn \cup stale /\ (v \in DOMAIN memory => v \in dirs)
        BY <2>2, <3>2, <4>1 DEF Settled, DiskTyped
      <4>3. Expected(k) = IF v \in DOMAIN memory THEN "ok" ELSE "error"
        BY <3>4, <4>1 DEF Expected, Apply, WriteMetadata
      <4>4. /\ v \in DOMAIN memory => Remembers(v, k.context)'
            /\ v \notin DOMAIN memory => v \notin DOMAIN memory'
        <5>1. Apply(memory, k).files =
                  IF v \in DOMAIN memory THEN Put(memory, v, k.context) ELSE memory
          BY <3>4 DEF Apply, WriteMetadata
        <5> QED
          BY <1>2, <5>1 DEF PBegin, Without, Restrict, Put, Remembers
      <4>5. pc'[c] = "truncate"
        BY <1>0, <3>4 DEF FirstStep
      <4> QED
        BY <1>0, <3>1, <3>2, <3>4, <4>1, <4>2, <4>3, <4>4, <4>5 DEF Tracks
    <3>5. CASE k.op = "WriteFiles"
      <4>1. v \notin apart
        BY <3>1, <3>5 DEF Part
      <4>2. Settled(v)'
        BY <1>2, <2>2, <3>2, <3>5, <4>1, MemoryCalls DEF Settled, SameMemory
      <4>3. Expected(k) \in {"any", "ok"}
            /\ (Expected(k) = "ok" => GroupOf(k.context) # BadGroup)
        BY <3>5 DEF Expected, Apply, WriteFilesToMap
      <4>4. pc'[c] = "mkdir"
        BY <1>0, <3>5 DEF FirstStep
      <4> QED
        BY <1>0, <3>1, <3>5, <4>2, <4>3, <4>4 DEF Tracks, GroupOf, MetadataOps
    <3>6. CASE k.op = "RemoveVolume"
      <4>1. Expected(k) \in {"any", "ok"}
        BY <3>6 DEF Expected, Apply, RemoveVolume
      <4>2. pc'[c] = "removeAll" /\ v \notin DOMAIN memory'
        BY <1>0, <1>2, <3>6, MemoryCalls DEF FirstStep
      <4> QED
        BY <1>0, <3>1, <3>6, <4>1, <4>2 DEF Tracks, MetadataOps
    <3> QED
      BY <1>2, <3>3, <3>4, <3>5, <3>6 DEF OnVolume
  <2> QED
    BY <1>2, <2>3, <2>4, <2>5, MemoryCalls DEF MInv
<1>3. CASE k.op \notin OnVolume
  <2>1. UNCHANGED <<memory, expected, apart>>
    BY <1>3 DEF PBegin
  <2>2. ASSUME NEW w \in Volumes \ apart', Unused(w)' PROVE Settled(w)'
    <3>1. Unused(w)
      BY <1>0, <2>2 DEF Unused, Vol, OnVolume
    <3> QED
      BY <1>1, <2>1, <3>1 DEF MInv, Settled, SameVolume
  <2>3. ASSUME NEW d \in Callers \ {c} PROVE Tracks(d)'
    <3>1. call[d].op \in OnVolume => Vol(d) \in Volumes
      BY VolumeOfCall DEF IInv
    <3>2. \A w \in Volumes : SameMemory(w)
      BY <2>1 DEF SameMemory
    <3> QED
      BY <1>0, <1>1, <2>1, <3>1, <3>2, UntouchedTracks DEF MInv
  <2>4. Tracks(c)'
    BY <1>0, <1>3 DEF Tracks
  <2> QED
    BY <2>1, <2>2, <2>3, <2>4 DEF MInv, MTyped
<1> QED
  BY <1>2, <1>3

LEMMA NextKeepsMInv ==
    ASSUME IInv, MInv, [PNext]_pvars
    PROVE  MInv'
<1>1. CASE UNCHANGED pvars
  BY <1>1
     DEF pvars, vars, disk, data, aim, MInv, MTyped, Unused, Settled, Tracks, Remembers, IsStored, Vol, GroupOf
<1>2. CASE PStep
  <2>1. Follows
    BY <1>2 DEF PStep, Follows
  <2> QED
    BY <1>2, <2>1, StepKeepsMInv, EndKeepsMInv, CrashKeepsMInv DEF PStep
<1> QED
  BY <1>1, <1>2, BeginKeepsMInv DEF PNext

LEMMA AlwaysMInv == PSpec => [](IInv /\ MInv)
<1>1. PInit => IInv /\ MInv
  BY InitIInv, InitMInv DEF PInit
<1>2. IInv /\ MInv /\ [PNext]_pvars => (IInv /\ MInv)'
  BY AlsoFilesystem, NextKeepsIInv, NextKeepsMInv
<1> QED
  BY <1>1, <1>2, PTL DEF PSpec

\* Filesystem answers as MemoryFS does, and both hold the same metadata of the volume
\* when a call about it returns, with any calls before, for a baseDir that is relative,
\* except for the volumes that a failure has parted.
THEOREM AgreementHolds ==
    ASSUME ~AbsoluteBase
    PROVE  PSpec => []AgreesWithMemory
<1>1. IInv /\ MInv => AgreesWithMemory
  BY DEF MInv, Tracks, Settled, AgreesWithMemory
<1> QED
  BY <1>1, AlwaysMInv, PTL

\* What two storages hold that nothing parted, once no call about the volume is under way.
SameContents ==
    \A v \in Volumes \ apart :
        (\A c \in Callers : ~WorksOn(c, v)) => Settled(v)

\* With any baseDir both hold the same metadata between the calls about a volume: with an
\* absolute one only the answer of RegisterMetadata differs, which is true each time.
THEOREM ContentsAgree == PSpec => []SameContents
<1>1. IInv /\ MInv => SameContents
  <2> SUFFICES ASSUME IInv, MInv,
                      NEW v \in Volumes \ apart, \A c \in Callers : ~WorksOn(c, v)
               PROVE  Settled(v)
    BY DEF SameContents
  <2>1. ASSUME NEW c \in Callers, call[c].op \in OnVolume, Vol(c) = v
        PROVE  pc[c] = "return"
    BY <2>1 DEF WorksOn, IInv, CallOK, Fits, OnVolume
  <2> QED
    BY <2>1 DEF MInv, Unused, Tracks
<1> QED
  BY <1>1, AlwaysMInv, PTL
=============================================================================
