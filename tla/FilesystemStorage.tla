------------------------- MODULE FilesystemStorage --------------------------
(***************************************************************************)
(* storage.Filesystem (src/storage/filesystem.go): the metadata and the    *)
(* files of volumes in a tmpfs, <baseDir>/inmemfs/<volume>/metadata.json   *)
(* and <volume>/data.  Every call to the file system is a step; it may     *)
(* fail, and the process may be killed between two of them, which the      *)
(* tmpfs survives.                                                         *)
(*                                                                         *)
(* Filesystem has no lock.  Its callers do not use one volume twice at a   *)
(* time (the node service locks volumes by their ID), but ListVolumes runs *)
(* beside anything.                                                        *)
(***************************************************************************)
EXTENDS Integers, Functions

CONSTANTS
    Callers,        \* the goroutines that use the storage
    Volumes,        \* the volume IDs
    NoID,           \* the empty volume ID, whose metadata.json is in inmemfs itself
    Contexts,       \* the volume contexts
    EmptyContext,   \* the one without attributes
    Registered,     \* bound: those that metadata is written for, which only compares them
    Written,        \* bound: those that files are written for, which only read the group
    Payloads,       \* the sets of files that WriteFiles writes
    NoFiles,        \* a data directory without files, or without all those written to it
    GroupIn,        \* GroupIn[x]: the group that context x names, as a number
    NoGroup,        \* none: the files keep the group of the process
    BadGroup,       \* what is no group
    MaxGroup,       \* the largest number of 32 bits, 4294967295
    FixedFSGroup,   \* the group of all volumes, any number, or NoGroup
    AbsoluteBase,   \* baseDir is an absolute path
    Failing,        \* the calls that may fail, and "crash" if the process may
    MaxFaults       \* bound: failing calls and crashes in a behaviour

ASSUME StorageAssumption ==
    /\ NoID \notin Volumes
    /\ EmptyContext \in Contexts
    /\ Registered \subseteq Contexts /\ Written \subseteq Contexts
    /\ GroupIn[EmptyContext] = NoGroup
    /\ MaxGroup \in Nat
    /\ NoGroup \notin Int /\ BadGroup \notin {NoGroup} \cup Int
    /\ FixedFSGroup \in {NoGroup} \cup Int
    /\ NoFiles \notin Payloads
    /\ AbsoluteBase \in BOOLEAN
    /\ MaxFaults \in Nat

VARIABLES
    dirs,           \* the volumes that have a directory
    dataDirs,       \* those that have a data directory in it
    metadata,       \* the metadata.json files that parse: the context for each volume ID
    torn,           \* the volume IDs whose metadata.json is cut short
    files,          \* the files below ..data of each volume
    group,          \* their group
    dirGroup,       \* the group of the data directory
    hidden,         \* the volumes with files below ..data, but not all the links to them
    stale,          \* those whose data directory has a ..data_tmp left in it
    pc,             \* the next step of each caller
    call,           \* what it calls, with which arguments
    target,         \* the volume ID that RegisterMetadata is about to write for
    misread,        \* history: whether its ReadMetadata failed on the file it found
    todo,           \* ListVolumes: the entries that it has still to open
    vols,           \* ListVolumes: its variable vols
    answer,         \* what the call returns
    faults          \* the number of failures so far

\* History: the volumes with metadata at every, or at some, moment of a ListVolumes.
VARIABLES always, ever

data == <<files, group, dirGroup, hidden, stale>>
disk == <<dirs, dataDirs, metadata, torn, data>>
aim == <<target, misread>>
list == <<todo, vols>>
vars == <<disk, pc, call, aim, list, answer, faults, always, ever>>

IDs == Volumes \cup {NoID}

HasMetadata(id) == id \in DOMAIN metadata \cup torn
Stored == {v \in Volumes : HasMetadata(v)}

-----------------------------------------------------------------------------
\* Calls.

OnVolume == {"RegisterMetadata", "WriteMetadata", "WriteFiles", "RemoveVolume"}

MetadataCalls ==
    [op : {"RegisterMetadata", "WriteMetadata"}, vol : Volumes, context : Registered]
WriteFilesCalls ==
    [op : {"WriteFiles"}, vol : Volumes, context : Written, files : Payloads]
RemoveCalls == [op : {"RemoveVolume"}, vol : Volumes]
ListCall == [op |-> "ListVolumes"]

CallsOfAll == MetadataCalls \cup WriteFilesCalls \cup RemoveCalls \cup {ListCall}

NoCall == [op |-> "none"]

Steps == {"idle", "readMetadata", "mkdir", "mkdirData", "truncate", "write", "chownDir",
          "writeFiles", "chownFiles", "removeAll", "readDir", "open", "return"}

FirstStep(op) ==
    CASE op = "RegisterMetadata" -> "readMetadata"
      [] op = "WriteMetadata"    -> "truncate"
      [] op = "WriteFiles"       -> "mkdir"
      [] op = "RemoveVolume"     -> "removeAll"
      [] op = "ListVolumes"      -> "readDir"

Vol(c) == call[c].vol

Goto(c, step) == pc' = [pc EXCEPT ![c] = step] /\ UNCHANGED answer

Return(c, value) ==
    /\ pc' = [pc EXCEPT ![c] = "return"]
    /\ answer' = [answer EXCEPT ![c] = value]

Fails(op) ==
    /\ op \in Failing
    /\ faults < MaxFaults
    /\ faults' = faults + 1

Init ==
    /\ dirs = {}
    /\ dataDirs = {}
    /\ metadata = [id \in {} |-> EmptyContext]
    /\ torn = {}
    /\ files = [v \in Volumes |-> NoFiles]
    /\ group = [v \in Volumes |-> NoGroup]
    /\ dirGroup = [v \in Volumes |-> NoGroup]
    /\ hidden = {}
    /\ stale = {}
    /\ pc = [c \in Callers |-> "idle"]
    /\ call = [c \in Callers |-> NoCall]
    /\ target = [c \in Callers |-> NoID]
    /\ misread = [c \in Callers |-> FALSE]
    /\ todo = [c \in Callers |-> {}]
    /\ vols = [c \in Callers |-> {}]
    /\ answer = [c \in Callers |-> "none"]
    /\ faults = 0
    /\ always = [c \in Callers |-> {}]
    /\ ever = [c \in Callers |-> {}]

Begin(c, k) ==
    /\ pc[c] = "idle"
    /\ k.op \in OnVolume =>
           \A d \in Callers : pc[d] # "idle" /\ call[d].op \in OnVolume => Vol(d) # k.vol
    /\ call' = [call EXCEPT ![c] = k]
    /\ target' = [target EXCEPT ![c] = IF k.op \in OnVolume THEN k.vol ELSE NoID]
    /\ misread' = [misread EXCEPT ![c] = FALSE]
    /\ Goto(c, FirstStep(k.op))
    /\ UNCHANGED <<disk, list, faults>>

End(c) ==
    /\ pc[c] = "return"
    /\ pc' = [pc EXCEPT ![c] = "idle"]
    /\ call' = [call EXCEPT ![c] = NoCall]
    /\ target' = [target EXCEPT ![c] = NoID]
    /\ misread' = [misread EXCEPT ![c] = FALSE]
    /\ todo' = [todo EXCEPT ![c] = {}]
    /\ vols' = [vols EXCEPT ![c] = {}]
    /\ answer' = [answer EXCEPT ![c] = "none"]
    /\ UNCHANGED <<disk, faults>>

-----------------------------------------------------------------------------
\* RegisterMetadata and WriteMetadata.

\* ReadMetadata: fs.FS refuses a rooted path, which is reported as ErrNotFound.
NotFound(id) == AbsoluteBase \/ ~HasMetadata(id)

\* Any other error, of Stat, of a read or of the JSON, leaves the zero Metadata, and
\* RegisterMetadata does not look at it.
ExistingID(id, failed) == IF failed THEN NoID ELSE id
ExistingContext(id, failed) == IF failed THEN EmptyContext ELSE metadata[id]

\* Mutant: a context is compared with the empty one.
ChangedFromEmpty(id, failed, x) == x # EmptyContext

Changed(id, failed, x) == ExistingContext(id, failed) # x

\* Whether there is anything to write, and for which volume ID.
ReadMetadata(c) ==
    /\ pc[c] = "readMetadata"
    /\ \/ /\ (NotFound(Vol(c)) /\ UNCHANGED faults) \/ Fails("open")
          /\ Goto(c, "mkdir")
          /\ UNCHANGED aim
       \/ /\ ~NotFound(Vol(c))
          /\ \E failed \in BOOLEAN :
                 /\ Vol(c) \in torn => failed
                 /\ IF failed /\ Vol(c) \notin torn THEN Fails("read") ELSE UNCHANGED faults
                 /\ misread' = [misread EXCEPT ![c] = failed]
                 /\ IF Changed(Vol(c), failed, call[c].context)
                    THEN /\ Goto(c, "mkdir")
                         /\ target' = [target EXCEPT ![c] = ExistingID(Vol(c), failed)]
                    ELSE Return(c, "false") /\ UNCHANGED target
    /\ UNCHANGED <<disk, call, list>>

\* ensureVolumeDirectory, of the volume's directory
Mkdir(c) ==
    /\ pc[c] = "mkdir"
    /\ \/ dirs' = dirs \cup {Vol(c)} /\ Goto(c, "mkdirData") /\ UNCHANGED faults
       \/ Fails("mkdir") /\ Return(c, "error") /\ UNCHANGED dirs
    /\ UNCHANGED <<dataDirs, metadata, torn, data, call, aim, list>>

\* and of the data directory in it.
MkdirData(c) ==
    /\ pc[c] = "mkdirData"
    /\ \/ /\ dataDirs' = dataDirs \cup {Vol(c)}
          /\ Goto(c, IF call[c].op = "WriteFiles" THEN "chownDir" ELSE "truncate")
          /\ UNCHANGED faults
       \/ Fails("mkdir") /\ Return(c, "error") /\ UNCHANGED dataDirs
    /\ UNCHANGED <<dirs, metadata, torn, data, call, aim, list>>

\* Mutant: the directory of the volume is not needed.
TruncateAnywhere(c) ==
    /\ pc[c] = "truncate"
    /\ torn' = torn \cup {target[c]}
    /\ metadata' = Restrict(metadata, DOMAIN metadata \ {target[c]})
    /\ Goto(c, "write")
    /\ UNCHANGED <<dirs, dataDirs, data, call, aim, list, faults>>

\* os.WriteFile opens the file, which needs its directory, and cuts it to no bytes,
Truncate(c) ==
    /\ pc[c] = "truncate"
    /\ \/ /\ target[c] \in dirs \cup {NoID}
          /\ torn' = torn \cup {target[c]}
          /\ metadata' = Restrict(metadata, DOMAIN metadata \ {target[c]})
          /\ Goto(c, "write")
          /\ UNCHANGED faults
       \/ /\ \/ target[c] \notin dirs \cup {NoID} /\ UNCHANGED faults
             \/ Fails("open")
          /\ Return(c, "error")
          /\ UNCHANGED <<torn, metadata>>
    /\ UNCHANGED <<dirs, dataDirs, data, call, aim, list>>

\* then writes the JSON.  (Two writes for NoID may mix, but nothing reads that file.)
Write(c) ==
    /\ pc[c] = "write"
    /\ \/ /\ torn' = torn \ {target[c]}
          /\ metadata' = [id \in DOMAIN metadata \cup {target[c]} |->
                             IF id = target[c] THEN call[c].context ELSE metadata[id]]
          /\ Return(c, IF call[c].op = "RegisterMetadata" THEN "true" ELSE "ok")
          /\ UNCHANGED faults
       \/ Fails("write") /\ Return(c, "error") /\ UNCHANGED <<torn, metadata>>
    /\ UNCHANGED <<dirs, dataDirs, data, call, aim, list>>

-----------------------------------------------------------------------------
\* WriteFiles, with the atomic writer as AtomicFiles promises it.

\* Mutant: any number will do.
AnyGroup(x) == IF FixedFSGroup # NoGroup THEN FixedFSGroup ELSE GroupIn[x]

\* fsGroupForMetadata, which looks at the group that a context names, and at no other.
GroupOf(x) ==
    IF FixedFSGroup # NoGroup THEN FixedFSGroup
    ELSE IF GroupIn[x] \in {NoGroup} \cup 1..MaxGroup THEN GroupIn[x]
    ELSE BadGroup

\* The group that chown gets, of 32 bits.
Gid(g) == g % (MaxGroup + 1)

\* Whether chown sets it: the largest number stands for "as it is".
IsSet(g) == g # NoGroup /\ Gid(g) # MaxGroup

Chown(owner, g) == IF IsSet(g) THEN Gid(g) ELSE owner

\* The group of the data directory.
ChownDir(c) ==
    /\ pc[c] = "chownDir"
    /\ LET gid == GroupOf(call[c].context)
       IN  \/ gid = BadGroup /\ Return(c, "error") /\ UNCHANGED <<dirGroup, faults>>
           \/ /\ gid # BadGroup
              /\ dirGroup' = [dirGroup EXCEPT ![Vol(c)] = Chown(@, gid)]
              /\ Goto(c, "writeFiles")
              /\ UNCHANGED faults
           \/ /\ gid \notin {NoGroup, BadGroup}
              /\ Fails("chown")
              /\ Return(c, "error")
              /\ UNCHANGED dirGroup
    /\ UNCHANGED <<dirs, dataDirs, metadata, torn, files, group, hidden, stale, call, aim, list>>

\* Mutant: nothing is left to do if the files are there already.
WriteFilesOnce(c) ==
    /\ pc[c] = "writeFiles"
    /\ IF files[Vol(c)] = call[c].files
       THEN Return(c, "ok") /\ UNCHANGED data
       ELSE /\ files' = [files EXCEPT ![Vol(c)] = call[c].files]
            /\ group' = [group EXCEPT ![Vol(c)] = NoGroup]
            /\ Goto(c, "chownFiles")
            /\ UNCHANGED <<dirGroup, hidden, stale>>
    /\ UNCHANGED <<dirs, dataDirs, metadata, torn, call, aim, list, faults>>

\* Whether the atomic writer has anything to write.
IsNew(c) == files[Vol(c)] # call[c].files

\* The volume whose data directory it may leave a ..data_tmp in.
Writing(c) == IF pc[c] = "writeFiles" /\ IsNew(c) THEN {Vol(c)} ELSE {}

\* Files that are there already keep their group and their links, or the lack of them;
\* files that are written anew have the group of the process and all their links.  An
\* error may come before or after the switch.  A ..data_tmp from before is an error, and
\* an error may leave one.  (The links that a failing Write makes are left out.)
WriteFiles(c) ==
    /\ pc[c] = "writeFiles"
    /\ \/ ~IsNew(c) /\ Goto(c, "chownFiles") /\ UNCHANGED <<files, group, hidden, stale, faults>>
       \/ /\ IsNew(c) /\ Vol(c) \notin stale
          /\ files' = [files EXCEPT ![Vol(c)] = call[c].files]
          /\ group' = [group EXCEPT ![Vol(c)] = NoGroup]
          /\ hidden' = hidden \ {Vol(c)}
          /\ \/ Goto(c, "chownFiles") /\ UNCHANGED faults
             \/ Fails("files") /\ Return(c, "error")
          /\ UNCHANGED stale
       \/ /\ \/ IsNew(c) /\ Vol(c) \in stale /\ UNCHANGED <<stale, faults>>
             \/ Fails("files") /\ stale' \in {stale} \cup {stale \cup {v} : v \in Writing(c)}
          /\ Return(c, "error")
          /\ UNCHANGED <<files, group, hidden>>
    /\ UNCHANGED <<dirs, dataDirs, metadata, torn, dirGroup, call, aim, list>>

ChownFiles(c) ==
    /\ pc[c] = "chownFiles"
    /\ LET gid == GroupOf(call[c].context)
       IN  \/ /\ group' = [group EXCEPT ![Vol(c)] = Chown(@, gid)]
              /\ Return(c, "ok")
              /\ UNCHANGED faults
           \/ gid # NoGroup /\ Fails("chown") /\ Return(c, "error") /\ UNCHANGED group
    /\ UNCHANGED <<dirs, dataDirs, metadata, torn, files, dirGroup, hidden, stale, call, aim, list>>

-----------------------------------------------------------------------------
\* RemoveVolume: os.RemoveAll removes what is in a directory, in any order, then the
\* directory, and may fail on the way.

RemoveMetadata(v) ==
    /\ HasMetadata(v)
    /\ torn' = torn \ {v}
    /\ metadata' = Restrict(metadata, DOMAIN metadata \ {v})
    /\ UNCHANGED <<dirs, dataDirs, data>>

\* The visible names, which are links to names below ..data,
RemoveLinks(v) ==
    /\ files[v] # NoFiles
    /\ hidden' = hidden \cup {v}
    /\ UNCHANGED <<dirs, dataDirs, metadata, torn, files, group, dirGroup, stale>>

\* ..data, or a file below it,
RemoveFiles(v) ==
    /\ files[v] # NoFiles
    /\ files' = [files EXCEPT ![v] = NoFiles]
    /\ group' = [group EXCEPT ![v] = NoGroup]
    /\ hidden' = hidden \ {v}
    /\ UNCHANGED <<dirs, dataDirs, metadata, torn, dirGroup, stale>>

\* and ..data_tmp.
RemoveStale(v) ==
    /\ v \in stale
    /\ stale' = stale \ {v}
    /\ UNCHANGED <<dirs, dataDirs, metadata, torn, files, group, dirGroup, hidden>>

RemoveDataDir(v) ==
    /\ v \in dataDirs \ stale /\ files[v] = NoFiles
    /\ dataDirs' = dataDirs \ {v}
    /\ dirGroup' = [dirGroup EXCEPT ![v] = NoGroup]
    /\ UNCHANGED <<dirs, metadata, torn, files, group, hidden, stale>>

RemoveAll(c) ==
    /\ pc[c] = "removeAll"
    /\ LET v == Vol(c)
       IN  \/ /\ \/ RemoveMetadata(v) \/ RemoveLinks(v) \/ RemoveFiles(v)
                 \/ RemoveStale(v) \/ RemoveDataDir(v)
              /\ Goto(c, "removeAll")
              /\ UNCHANGED faults
           \/ /\ ~HasMetadata(v) /\ v \notin dataDirs
              /\ dirs' = dirs \ {v}
              /\ Return(c, "ok")
              /\ UNCHANGED <<dataDirs, metadata, torn, data, faults>>
           \/ Fails("remove") /\ Return(c, "error") /\ UNCHANGED disk
    /\ UNCHANGED <<call, aim, list>>

-----------------------------------------------------------------------------
\* ListVolumes.

\* fs.ReadDir of inmemfs.
ReadDir(c) ==
    /\ pc[c] = "readDir"
    /\ \/ AbsoluteBase /\ UNCHANGED faults /\ Return(c, "error") /\ UNCHANGED todo
       \/ Fails("open") /\ Return(c, "error") /\ UNCHANGED todo
       \/ /\ ~AbsoluteBase
          /\ todo' = [todo EXCEPT ![c] = dirs \cup {id \in {NoID} : HasMetadata(id)}]
          /\ Goto(c, "open")
          /\ UNCHANGED faults
    /\ UNCHANGED <<disk, call, aim, vols>>

\* Mutant: an entry is listed whether or not it has metadata.
OpenUnchecked(c) ==
    /\ pc[c] = "open"
    /\ \/ \E id \in todo[c] :
              /\ vols' = [vols EXCEPT ![c] = @ \cup {id}]
              /\ todo' = [todo EXCEPT ![c] = @ \ {id}]
              /\ Goto(c, "open")
       \/ todo[c] = {} /\ Return(c, "ok") /\ UNCHANGED list
    /\ UNCHANGED <<disk, call, aim, faults>>

\* The first entry without a metadata.json, or that cannot be opened, ends it.
Open(c) ==
    /\ pc[c] = "open"
    /\ \/ \E id \in todo[c] :
              \/ /\ id # NoID /\ HasMetadata(id)
                 /\ vols' = [vols EXCEPT ![c] = @ \cup {id}]
                 /\ todo' = [todo EXCEPT ![c] = @ \ {id}]
                 /\ Goto(c, "open")
                 /\ UNCHANGED faults
              \/ /\ \/ (id = NoID \/ ~HasMetadata(id)) /\ UNCHANGED faults
                    \/ Fails("open")
                 /\ Return(c, "error")
                 /\ todo' = [todo EXCEPT ![c] = {}]
                 /\ vols' = [vols EXCEPT ![c] = {}]
       \/ todo[c] = {} /\ Return(c, "ok") /\ UNCHANGED <<list, faults>>
    /\ UNCHANGED <<disk, call, aim>>

-----------------------------------------------------------------------------

\* The process is killed.
Crash ==
    /\ Fails("crash")
    /\ pc' = [c \in Callers |-> "idle"]
    /\ call' = [c \in Callers |-> NoCall]
    /\ target' = [c \in Callers |-> NoID]
    /\ misread' = [c \in Callers |-> FALSE]
    /\ todo' = [c \in Callers |-> {}]
    /\ vols' = [c \in Callers |-> {}]
    /\ answer' = [c \in Callers |-> "none"]
    /\ \E left \in SUBSET UNION {Writing(c) : c \in Callers} : stale' = stale \cup left
    /\ UNCHANGED <<dirs, dataDirs, metadata, torn, files, group, dirGroup, hidden>>

\* The history variables follow the calls of ListVolumes.
Observe ==
    /\ always' = [c \in Callers |->
                     CASE call'[c] # ListCall     -> {}
                       [] pc'[c] = "readDir"      -> Stored'
                       [] pc'[c] = "return"       -> always[c]
                       [] OTHER                   -> always[c] \cap Stored']
    /\ ever' = [c \in Callers |->
                   CASE call'[c] # ListCall     -> {}
                     [] pc'[c] = "readDir"      -> Stored'
                     [] pc'[c] = "return"       -> ever[c]
                     [] OTHER                   -> ever[c] \cup Stored']

Step(c) ==
    \/ ReadMetadata(c) \/ Mkdir(c) \/ MkdirData(c) \/ Truncate(c) \/ Write(c)
    \/ ChownDir(c) \/ WriteFiles(c) \/ ChownFiles(c)
    \/ RemoveAll(c)
    \/ ReadDir(c) \/ Open(c)

Next ==
    /\ \/ \E c \in Callers : (\E k \in CallsOfAll : Begin(c, k)) \/ Step(c) \/ End(c)
       \/ Crash
    /\ Observe

Spec == Init /\ [][Next]_vars

-----------------------------------------------------------------------------
\* Properties.

\* The groups that chown can set: 0 only as the fixed group, which is not checked.
Groups == (IF FixedFSGroup = NoGroup THEN 1 ELSE 0) .. (MaxGroup - 1)

\* Type invariant.
TypeOK ==
    /\ dirs \subseteq Volumes
    /\ dataDirs \subseteq dirs
    /\ DOMAIN metadata \cap torn = {}
    /\ DOMAIN metadata \cup torn \subseteq dirs \cup {NoID}
    /\ Range(metadata) \subseteq Contexts
    /\ \A v \in Volumes : files[v] # NoFiles => files[v] \in Payloads /\ v \in dataDirs
    /\ \A v \in Volumes : {group[v], dirGroup[v]} \subseteq {NoGroup} \cup Groups
    /\ \A v \in hidden : v \in Volumes /\ files[v] # NoFiles
    /\ stale \subseteq dataDirs
    /\ pc \in [Callers -> Steps]
    /\ \A c \in Callers : pc[c] = "idle" <=> call[c].op = "none"
    /\ \A c \in Callers : target[c] \in IDs /\ todo[c] \subseteq IDs /\ vols[c] \subseteq IDs
    /\ misread \in [Callers -> BOOLEAN]
    /\ faults \in 0..MaxFaults

Returns(c, op) == pc[c] = "return" /\ call[c].op = op

IsStored(v, x) == v \in DOMAIN metadata /\ metadata[v] = x

\* When RegisterMetadata returns no error, true or false, the volume's metadata.json
\* has the volume context that it was given, or else ReadMetadata had failed on it: the
\* file was cut short, or could be opened and not be read.
RegisteredIsStored ==
    \A c \in Callers :
        Returns(c, "RegisterMetadata") /\ answer[c] # "error" =>
            misread[c] \/ IsStored(Vol(c), call[c].context)

\* RegisterMetadata returns true only if the volume's metadata.json has been written
\* ("It will return true if the metadata file has been written, false otherwise",
\* src/storage/interfaces.go:66-67).
TrueMeansWritten ==
    \A c \in Callers :
        Returns(c, "RegisterMetadata") /\ answer[c] = "true" =>
            IsStored(Vol(c), call[c].context)

\* When WriteFiles returns no error the files are below ..data and in the group that
\* the volume asks for, and so is the data directory, also when an earlier call had
\* written them and failed, or died, before it changed their group.  (For the groups
\* that chown can set.)
WrittenAreReadable ==
    \A c \in Callers :
        Returns(c, "WriteFiles") /\ answer[c] # "error" =>
            LET gid == GroupOf(call[c].context)
            IN  /\ files[Vol(c)] = call[c].files
                /\ IsSet(gid) => group[Vol(c)] = Gid(gid) /\ dirGroup[Vol(c)] = Gid(gid)

\* The same for every group that a context may name ("fsGroup has to be between 1 and
\* 4294967295 inclusive. 4294967295 is the largest gid number on most modern operating
\* systems", src/storage/filesystem.go:347-348).
GroupIsAsAsked ==
    \A c \in Callers :
        Returns(c, "WriteFiles") /\ answer[c] # "error" =>
            LET gid == GroupOf(call[c].context)
            IN  gid # NoGroup => group[Vol(c)] = gid /\ dirGroup[Vol(c)] = gid

\* When WriteFiles returns no error the files are there by their names ("WriteFiles
\* writes the given data to filesystem files within the volume's data directory",
\* src/storage/filesystem.go:223-224).
WrittenAreVisible ==
    \A c \in Callers :
        Returns(c, "WriteFiles") /\ answer[c] # "error" => Vol(c) \notin hidden

\* A ListVolumes that returns no error has listed each volume that was registered all
\* the while, and none that never was, however many volumes come and go meanwhile.
ListIsExact ==
    \A c \in Callers :
        Returns(c, "ListVolumes") /\ answer[c] = "ok" =>
            always[c] \subseteq vols[c] /\ vols[c] \subseteq ever[c]
=============================================================================
