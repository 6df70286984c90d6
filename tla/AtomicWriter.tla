---------------------------- MODULE AtomicWriter ----------------------------
(***************************************************************************)
(* AtomicWriter.Write (src/third_party/util/atomic_writer.go), which puts  *)
(* a set of files into a directory that others read.  The files are in a   *)
(* timestamped directory, ..data is a symbolic link to it, and the visible *)
(* names are links to names below ..data.                                  *)
(*                                                                         *)
(* One action per call to the file system that a reader, or a later Write, *)
(* can tell apart; each call may fail, and the process may be killed       *)
(* between two of them, after which the next Write finds what is on disk.  *)
(* Writes of one directory do not overlap: the caller synchronizes them.   *)
(* An error that the code does not look at is a failing call too.          *)
(***************************************************************************)
EXTENDS Naturals, Sequences, SequencesExt

CONSTANTS
    Payloads,   \* what callers write: functions from paths, split at "/", to contents
    TooLong,    \* the paths that are too long, or have a name that is
    Reserved,   \* the names of more than two characters that begin with ".."
    Dirs,       \* the names of the timestamped directories
    NoDir,      \* no link, no directory
    Elsewhere,  \* where a link leads that Write has made for a visible name of its own
    Systems,    \* the values of runtime.GOOS that Write tells apart
    Failing,    \* the calls that may fail, and "crash" if the process may
    MaxFaults   \* bound: failing calls and crashes in a behaviour

ASSUME WriterAssumption ==
    /\ NoDir \notin Dirs
    /\ Elsewhere \notin Dirs \cup {NoDir}
    /\ {"..data", "..data_tmp"} \subseteq Reserved
    /\ Systems \subseteq {"linux", "windows"}
    /\ MaxFaults \in Nat
    /\ \A p \in Payloads : \A f \in DOMAIN p : f \in Seq(STRING) /\ f # <<>>
    /\ TooLong \subseteq Seq(STRING)

VARIABLES
    data,       \* what ..data links to
    dataTmp,    \* what ..data_tmp links to
    links,      \* the visible names, links into ..data
    dirs,       \* the timestamped directories that exist
    content,    \* the files in each of them
    want,       \* the payload that the caller wants to be there
    goos,       \* runtime.GOOS
    orphan,     \* history: a crash or a failing os.Remove left a ..data_tmp behind
    pc,         \* the next step of Write
    payload,    \* its variable cleanPayload
    old,        \* its variable oldTsDir
    new,        \* its variable tsDirName
    remove,     \* its variable pathsToRemove; from step (10) on, what is left of it
    failed,     \* err of os.Symlink in step (9), lasterr in removeUserVisiblePaths
    faults      \* the number of failures so far

disk == <<data, dataTmp, links, dirs, content>>
outside == <<want, goos, orphan>>
locals == <<payload, old, new, remove, failed>>
vars == <<disk, outside, pc, locals, faults>>

-----------------------------------------------------------------------------
\* Paths and files.

Nothing == [f \in {} |-> {}]

\* dataDirName and newDataDirName, entries of the same directory as the visible names.
\* (The names of the timestamped directories are random: no payload has them.)
OwnNames == {"..data", "..data_tmp"}

\* validatePath, which looks at a path before it is cleaned.  An absolute path begins
\* with an empty name.
ValidPath(f) ==
    /\ Head(f) \notin {""} \cup Reserved
    /\ \A i \in DOMAIN f : f[i] # ".."
    /\ f \notin TooLong

Valid(p) == \A f \in DOMAIN p : ValidPath(f)

\* filepath.Clean of a valid path.
Clean(f) == SelectSeq(f, LAMBDA n : n \notin {"", "."})

\* What validatePayload makes of a valid payload.  Of two paths that are the same
\* when cleaned, the one that comes last in the order of a Go map counts.
Cleaned(p) ==
    {q \in [{Clean(f) : f \in DOMAIN p} -> {p[f] : f \in DOMAIN p}] :
         \A g \in DOMAIN q : \E f \in DOMAIN p : Clean(f) = g /\ q[g] = p[f]}

ASSUME CleanAssumption == \A p \in Payloads : \A f \in DOMAIN p : Clean(f) \in Seq(STRING)

CleanPayloads == UNION {Cleaned(p) : p \in {q \in Payloads : Valid(q)}}

\* The paths of a payload and the directories above them.
AllPaths(p) == (UNION {Prefixes(f) : f \in DOMAIN p}) \ {<<>>}

\* Mutant: the links are named for the last name of a path.
LastNames(p) == {Last(f) : f \in DOMAIN p}

\* The names that a reader sees for a payload: the first one of each path.
Names(p) == {Head(f) : f \in DOMAIN p}

\* Mutant: a path stays in the set although the payload has it too.
PathsOfOld(p, files) == AllPaths(files)

\* pathsToRemove
PathsToRemove(p, files) == AllPaths(files) \ AllPaths(p)

\* Mutant: a file that is not there yet is taken for unchanged.
SameOrMissing(bytes, f, files) ==
    IF f \in DOMAIN files /\ files[f] # bytes THEN "write" ELSE "keep"

\* shouldWriteFile.  A file where the payload has a directory, or the other way
\* round, is an error: os.Lstat says ENOTDIR, or ioutil.ReadFile says EISDIR.  The
\* path ".", which is <<>> when cleaned, is a directory.
ShouldWriteFile(bytes, f, files) ==
    IF f \in DOMAIN files THEN IF files[f] = bytes THEN "keep" ELSE "write"
    ELSE IF f \in {<<>>} \cup AllPaths(files) \/ \E g \in DOMAIN files : IsStrictPrefix(g, f)
    THEN "error"
    ELSE "write"

\* shouldWritePayload: the first file that decides, in the order of a Go map.
ShouldWritePayload(p, files) ==
    LET answers == {ShouldWriteFile(p[f], f, files) : f \in DOMAIN p}
    IN  IF answers \subseteq {"keep"} THEN {"keep"} ELSE answers \ {"keep"}

\* No path of the payload is a directory: not of another one, nor ".".
Consistent(p) == <<>> \notin DOMAIN p /\ \A f, g \in DOMAIN p : ~IsStrictPrefix(f, g)

-----------------------------------------------------------------------------

Goto(step) == pc' = step

Steps == {"idle", "readData", "walk", "compare", "makeDir", "writeFiles", "linkNames",
          "linkTmp", "switch", "linkData", "removeTmp", "abandon", "removeNew",
          "removeNames", "removeOld", "ok", "error"}

Fails(call) ==
    /\ call \in Failing
    /\ faults < MaxFaults
    /\ faults' = faults + 1

Init ==
    /\ data = NoDir
    /\ dataTmp = NoDir
    /\ links = {}
    /\ dirs = {}
    /\ content = [d \in Dirs |-> Nothing]
    /\ want \in Payloads
    /\ goos \in Systems
    /\ orphan = FALSE
    /\ pc = "idle"
    /\ payload = Nothing
    /\ old = NoDir
    /\ new = NoDir
    /\ remove = {}
    /\ failed = FALSE
    /\ faults = 0

\* The caller gets other files to write.
Change(p) ==
    /\ pc = "idle"
    /\ p # want
    /\ want' = p
    /\ UNCHANGED <<disk, goos, orphan, pc, locals, faults>>

\* (1) The call; an invalid payload is refused.
Call ==
    /\ pc = "idle"
    /\ \/ Valid(want) /\ payload' \in Cleaned(want) /\ Goto("readData")
       \/ ~Valid(want) /\ Goto("error") /\ UNCHANGED payload
    /\ UNCHANGED <<disk, outside, old, new, remove, failed, faults>>

\* (2)
ReadData ==
    /\ pc = "readData"
    /\ \/ /\ old' = data
          /\ Goto(IF data = NoDir THEN "makeDir" ELSE "walk")
          /\ UNCHANGED faults
       \/ Fails("readlink") /\ Goto("error") /\ UNCHANGED old
    /\ UNCHANGED <<disk, outside, payload, new, remove, failed>>

\* What is in the old directory.
OldFiles == IF old = Elsewhere THEN Nothing ELSE content[old]

\* (3) The visitor of filepath.Walk drops the error that it is given: what is below
\* a directory that cannot be read is not found.
FindPaths ==
    /\ pc = "walk"
    /\ \/ remove' = PathsToRemove(payload, OldFiles) /\ UNCHANGED faults
       \/ /\ Fails("walk")
          /\ \E dir \in {<<>>} \cup AllPaths(OldFiles) :
                 remove' = {f \in PathsToRemove(payload, OldFiles) : ~IsStrictPrefix(dir, f)}
    /\ Goto("compare")
    /\ UNCHANGED <<disk, outside, payload, old, new, failed>>

\* (4) Nothing is written if nothing is to be written or removed.  A link ..data that
\* leads to itself is an error for each file.
Compare ==
    /\ pc = "compare"
    /\ \/ /\ \E answer \in IF old = Elsewhere /\ payload # Nothing THEN {"error"}
                           ELSE ShouldWritePayload(payload, OldFiles) :
                 Goto(CASE answer = "error"                 -> "error"
                        [] answer = "keep" /\ remove = {}   -> "ok"
                        [] OTHER                            -> "makeDir")
          /\ UNCHANGED faults
       \/ payload # Nothing /\ Fails("readFile") /\ Goto("error")
    /\ UNCHANGED <<disk, outside, locals>>

\* A name that no directory has: the date and a random number, which only have to
\* be new.
FreshDir == CHOOSE d \in Dirs \ dirs : TRUE

\* (5) newTimestampDir; the directory stays if os.Chmod fails.  The file system is
\* full when it has all Dirs.
MakeDir ==
    /\ pc = "makeDir"
    /\ \/ /\ dirs # Dirs
          /\ dirs' = dirs \cup {FreshDir}
          /\ new' = FreshDir
          /\ Goto("writeFiles")
          /\ UNCHANGED faults
       \/ /\ dirs # Dirs
          /\ Fails("mkdir")
          /\ dirs' \in {dirs, dirs \cup {FreshDir}}
          /\ Goto("error")
          /\ UNCHANGED new
       \/ dirs = Dirs /\ Goto("error") /\ UNCHANGED <<dirs, new, faults>>
    /\ UNCHANGED <<data, dataTmp, links, content, outside, payload, old, remove, failed>>

\* (6) writePayloadToDir; what it has written stays if a call fails.
WriteFiles ==
    /\ pc = "writeFiles"
    /\ \/ /\ Consistent(payload)
          /\ content' = [content EXCEPT ![new] = payload]
          /\ Goto("linkNames")
          /\ UNCHANGED faults
       \/ /\ \/ ~Consistent(payload) /\ UNCHANGED faults
             \/ Fails("write")
          /\ \E written \in SUBSET (DOMAIN payload \ {<<>>}) :
                 /\ written # DOMAIN payload
                 /\ content' = [content EXCEPT ![new] = [f \in written |-> payload[f]]]
          /\ Goto("error")
    /\ UNCHANGED <<data, dataTmp, links, dirs, outside, locals>>

\* The entries of the directory that are links.
Exists(n) ==
    \/ n \in links
    \/ n = "..data" /\ data # NoDir
    \/ n = "..data_tmp" /\ dataTmp # NoDir

\* The link n is a link to ..data/n, which leads nowhere if n is one of Write's own names.
AddLink(n) ==
    /\ links' = links \cup ({n} \ OwnNames)
    /\ data' = IF n = "..data" THEN Elsewhere ELSE data
    /\ dataTmp' = IF n = "..data_tmp" THEN Elsewhere ELSE dataTmp

RemoveLink(n) ==
    /\ links' = links \ {n}
    /\ data' = IF n = "..data" THEN NoDir ELSE data
    /\ dataTmp' = IF n = "..data_tmp" THEN NoDir ELSE dataTmp

\* (7) createUserVisibleFiles, one missing link after the other.  An error of
\* os.Readlink other than that there is no link is dropped, and no link made; which
\* of the names it hits makes no difference, so it is the last one.
LinkNames ==
    /\ pc = "linkNames"
    /\ LET missing == {n \in Names(payload) : ~Exists(n)} IN
           \/ (\E n \in missing : AddLink(n)) /\ UNCHANGED <<pc, faults>>
           \/ missing = {} /\ Goto("linkTmp") /\ UNCHANGED <<data, dataTmp, links, faults>>
           \/ /\ \E n \in missing : missing = {n}
              /\ Fails("lookup")
              /\ Goto("linkTmp")
              /\ UNCHANGED <<data, dataTmp, links>>
           \/ /\ missing # {}
              /\ Fails("symlink")
              /\ Goto("error")
              /\ UNCHANGED <<data, dataTmp, links>>
    /\ UNCHANGED <<dirs, content, outside, locals>>

\* (8) os.Symlink fails if ..data_tmp exists.
LinkTmp ==
    /\ pc = "linkTmp"
    /\ \/ dataTmp = NoDir /\ dataTmp' = new /\ Goto("switch") /\ UNCHANGED faults
       \/ /\ \/ dataTmp # NoDir /\ UNCHANGED faults
             \/ Fails("symlink")
          /\ Goto("removeNew")
          /\ UNCHANGED dataTmp
    /\ UNCHANGED <<data, links, dirs, content, outside, locals>>

\* (9) os.Rename of ..data_tmp to ..data.
Switch ==
    /\ pc = "switch" /\ goos # "windows"
    /\ \/ /\ data' = dataTmp
          /\ dataTmp' = NoDir
          /\ Goto("removeNames")
          /\ UNCHANGED faults
       \/ Fails("rename") /\ Goto("abandon") /\ UNCHANGED <<data, dataTmp>>
    /\ UNCHANGED <<links, dirs, content, outside, locals>>

\* (9) on Windows: os.Remove of ..data, its error not looked at,
RemoveData ==
    /\ pc = "switch" /\ goos = "windows"
    /\ \/ data' = NoDir /\ UNCHANGED faults
       \/ Fails("remove") /\ UNCHANGED data
    /\ Goto("linkData")
    /\ UNCHANGED <<dataTmp, links, dirs, content, outside, locals>>

\* os.Symlink of ..data,
LinkData ==
    /\ pc = "linkData"
    /\ \/ data = NoDir /\ data' = new /\ UNCHANGED <<failed, faults>>
       \/ /\ \/ data # NoDir /\ UNCHANGED faults
             \/ Fails("symlink")
          /\ failed' = TRUE
          /\ UNCHANGED data
    /\ Goto("removeTmp")
    /\ UNCHANGED <<dataTmp, links, dirs, content, outside, payload, old, new, remove>>

\* os.Remove of ..data_tmp, whose error nobody looks at.
DropTmp ==
    \/ dataTmp' = NoDir /\ UNCHANGED <<orphan, faults>>
    \/ dataTmp # NoDir /\ Fails("remove") /\ orphan' = TRUE /\ UNCHANGED dataTmp

\* and os.Remove of ..data_tmp.
RemoveTmp ==
    /\ pc = "removeTmp"
    /\ DropTmp
    /\ Goto(IF failed THEN "abandon" ELSE "removeNames")
    /\ UNCHANGED <<data, links, dirs, content, want, goos, locals>>

\* Mutant: ..data_tmp is left behind.
KeepTmp ==
    /\ pc = "abandon"
    /\ Goto("removeNew")
    /\ UNCHANGED <<disk, outside, locals, faults>>

\* The switch failed: remove ..data_tmp
Abandon ==
    /\ pc = "abandon"
    /\ DropTmp
    /\ Goto("removeNew")
    /\ UNCHANGED <<data, links, dirs, content, want, goos, locals>>

\* os.RemoveAll, which may fail with some of the files gone.
RemoveDir(d) ==
    \/ /\ dirs' = dirs \ {d}
       /\ content' = [content EXCEPT ![d] = Nothing]
       /\ UNCHANGED faults
    \/ /\ Fails("removeAll")
       /\ \E left \in SUBSET DOMAIN content[d] :
              content' = [content EXCEPT ![d] = [f \in left |-> @[f]]]
       /\ UNCHANGED dirs

\* and the new directory, whose error nobody looks at.
RemoveNew ==
    /\ pc = "removeNew"
    /\ RemoveDir(new)
    /\ Goto("error")
    /\ UNCHANGED <<data, dataTmp, links, outside, locals>>

\* (10) removeUserVisiblePaths goes on after an error and returns the last one.
RemoveNames ==
    /\ pc = "removeNames"
    /\ \/ \E p \in remove :
              /\ remove' = remove \ {p}
              /\ \/ Len(p) > 1 /\ UNCHANGED <<data, dataTmp, links, failed, faults>>
                 \/ /\ Len(p) = 1 /\ Exists(Head(p))
                    /\ RemoveLink(Head(p))
                    /\ UNCHANGED <<failed, faults>>
                 \/ /\ Len(p) = 1
                    /\ (~Exists(Head(p)) /\ UNCHANGED faults) \/ Fails("remove")
                    /\ failed' = TRUE
                    /\ UNCHANGED <<data, dataTmp, links>>
              /\ UNCHANGED pc
       \/ /\ remove = {}
          /\ Goto(IF failed THEN "error" ELSE "removeOld")
          /\ UNCHANGED <<data, dataTmp, links, remove, failed, faults>>
    /\ UNCHANGED <<dirs, content, outside, payload, old, new>>

\* (11)
RemoveOld ==
    /\ pc = "removeOld"
    /\ IF old = NoDir THEN UNCHANGED <<dirs, content, faults>> ELSE RemoveDir(old)
    /\ Goto(IF old \in dirs' THEN "error" ELSE "ok")
    /\ UNCHANGED <<data, dataTmp, links, outside, locals>>

Forget ==
    /\ pc' = "idle"
    /\ payload' = Nothing
    /\ old' = NoDir
    /\ new' = NoDir
    /\ remove' = {}
    /\ failed' = FALSE
    /\ UNCHANGED <<disk, want, goos>>

Return ==
    /\ pc \in {"ok", "error"}
    /\ Forget
    /\ UNCHANGED <<orphan, faults>>

\* The process is killed, and a new one will call Write.
Crash ==
    /\ pc # "idle"
    /\ Fails("crash")
    /\ orphan' = (orphan \/ dataTmp # NoDir)
    /\ Forget

Step ==
    \/ ReadData \/ FindPaths \/ Compare \/ MakeDir \/ WriteFiles \/ LinkNames \/ LinkTmp
    \/ Switch \/ RemoveData \/ LinkData \/ RemoveTmp \/ Abandon \/ RemoveNew
    \/ RemoveNames \/ RemoveOld \/ Return

Next ==
    \/ \E p \in Payloads : Change(p)
    \/ Call
    \/ Step
    \/ Crash

Spec == Init /\ [][Next]_vars

\* The caller calls again, and a Write that runs goes on running.
FairSpec == Spec /\ WF_vars(Call \/ Step)

-----------------------------------------------------------------------------

\* The files that a reader finds by their visible names.
View ==
    IF data \notin dirs THEN Nothing
    ELSE [f \in {g \in DOMAIN content[data] : Head(g) \in links} |-> content[data][f]]

\* Type invariant.
TypeOK ==
    /\ {data, dataTmp, old} \subseteq Dirs \cup {NoDir, Elsewhere}
    /\ new \in Dirs \cup {NoDir}
    /\ links \subseteq
           UNION {{Head(f) : f \in DOMAIN p} : p \in {q \in CleanPayloads : Consistent(q)}}
    /\ links \cap OwnNames = {}
    /\ dirs \subseteq Dirs
    /\ DOMAIN content = Dirs
    /\ \A d \in Dirs : \E p \in CleanPayloads \cup {Nothing} :
           DOMAIN content[d] \subseteq DOMAIN p
    /\ want \in Payloads
    /\ goos \in Systems
    /\ orphan \in BOOLEAN
    /\ pc \in Steps
    /\ payload \in CleanPayloads \cup {Nothing}
    /\ remove \subseteq UNION {AllPaths(p) : p \in CleanPayloads}
    /\ failed \in BOOLEAN
    /\ faults \in 0..MaxFaults

\* Payloads that keep off the names that Write reserves for itself.  ValidPath does not
\* see to it: it refuses "..data" and lets "./..data" pass.
KeepOff == \A p \in CleanPayloads : \A f \in DOMAIN p : f # <<>> => Head(f) \notin OwnNames

\* No call fails whose error Write drops on the way to answering nil.
NothingDropped == Failing \cap {"walk", "lookup"} = {}

\* A Write that returns no error has made the payload visible, all of it and nothing
\* else, also when it found that there was nothing to do.  (Where KeepOff and
\* NothingDropped hold: without the first DataIsLinked fails, without the second this.)
OKIsShown == pc = "ok" => View = payload

\* After a Write without an error ..data leads to a directory ("The data directory
\* itself is a link to a timestamped directory with the real data",
\* src/third_party/util/atomic_writer.go:110-111).
DataIsLinked == pc = "ok" /\ payload # Nothing => data \in dirs

Files == INSTANCE AtomicFiles WITH
    Payloads <- CleanPayloads,
    replaces <- goos # "windows",
    view <- View,
    writing <- IF pc \in {"idle", "error"} THEN {} ELSE {payload}

\* A reader sees the old payload or the new one, never a mix or a part, and on Linux
\* never nothing, whichever call fails and whenever the process dies ("This scheme
\* allows the files to be atomically updated",
\* src/third_party/util/atomic_writer.go:49-51).  Where KeepOff holds and no lookup of a
\* visible name fails.
AtomicFilesSpec == Files!Spec

\* A file of one payload is a directory of the other.
Clash(p, files) ==
    \/ DOMAIN p \cap (AllPaths(files) \ DOMAIN files) # {}
    \/ DOMAIN files \cap (AllPaths(p) \ DOMAIN p) # {}

\* The caller that goes on calling, and at last wants no other files, gets those it
\* wants to be there in the end, after any failures.  What stops it for good is an
\* invalid payload, one with a clash in itself or with the files that are there, a
\* ..data_tmp that a killed process or a failing os.Remove left behind, or a file
\* system full of directories that failing Writes left.
WritesSucceed ==
    \/ []<><<want' # want>>_vars
    \/ []<>(\/ ~Valid(want)
            \/ View \in Cleaned(want)
            \/ \E q \in Cleaned(want) : ~Consistent(q) \/ Clash(q, View)
            \/ orphan
            \/ pc = "makeDir" /\ dirs = Dirs)
=============================================================================
