--------------------------- MODULE MemoryStorage ----------------------------
(***************************************************************************)
(* storage.MemoryFS (src/storage/memory.go) beside storage.Filesystem.     *)
(* Every method of MemoryFS is one critical section of its lock, so that a *)
(* call is a function of what the storage holds.  Both storages get the    *)
(* same calls, MemoryFS all at once when Filesystem begins: the calls about *)
(* a volume do not overlap.  What WriteFiles writes is left out: MemoryFS  *)
(* adds it to the map, and nothing but ReadFiles looks at it.  Of the      *)
(* metadata only the volume context is compared: when it changes, MemoryFS *)
(* takes the other fields, the target path among them, from the call, and  *)
(* Filesystem keeps those that it had.                                     *)
(***************************************************************************)
EXTENDS FilesystemStorage

VARIABLES
    memory,         \* m.files: the context of each volume that it holds
    expected,       \* what MemoryFS answers to the call of each caller
    apart           \* history: the volumes for which the two may differ

pvars == <<vars, memory, expected, apart>>

NewMemoryFS == [v \in {} |-> EmptyContext]

Put(m, v, x) == [w \in DOMAIN m \cup {v} |-> IF w = v THEN x ELSE m[w]]

Without(m, vs) == Restrict(m, DOMAIN m \ vs)

-----------------------------------------------------------------------------
\* What each method makes of m.files, and what it answers.

RegisterMetadata(m, k) ==
    IF k.vol \in DOMAIN m /\ m[k.vol] = k.context
    THEN [files |-> m, answer |-> "false"]
    ELSE [files |-> Put(m, k.vol, k.context), answer |-> "true"]

WriteMetadata(m, k) ==
    IF k.vol \in DOMAIN m
    THEN [files |-> Put(m, k.vol, k.context), answer |-> "ok"]
    ELSE [files |-> m, answer |-> "error"]

WriteFilesToMap(m, k) ==
    [files |-> m, answer |-> IF k.vol \in DOMAIN m THEN "ok" ELSE "error"]

RemoveVolume(m, k) == [files |-> Without(m, {k.vol}), answer |-> "ok"]

Apply(m, k) ==
    CASE k.op = "RegisterMetadata" -> RegisterMetadata(m, k)
      [] k.op = "WriteMetadata"    -> WriteMetadata(m, k)
      [] k.op = "WriteFiles"       -> WriteFilesToMap(m, k)
      [] k.op = "RemoveVolume"     -> RemoveVolume(m, k)

-----------------------------------------------------------------------------
\* Both storages together.

PInit ==
    /\ Init
    /\ memory = NewMemoryFS
    /\ expected = [c \in Callers |-> "none"]
    /\ apart = {}

WorksOn(c, v) == pc[c] \notin {"idle", "return"} /\ call[c].op \in OnVolume /\ Vol(c) = v

\* What is expected of a call whose answer the two need not share: Filesystem writes
\* files for any volume, and only Filesystem looks at the group.
Expected(k) ==
    IF \/ k.vol \in apart
       \/ k.op = "WriteFiles" /\ (k.vol \notin DOMAIN memory \/ GroupOf(k.context) = BadGroup)
    THEN "any"
    ELSE Apply(memory, k).answer

\* The two part where a call to the file system fails or the process dies on the way,
\* and where metadata is written for a volume that is not registered but has, from
\* WriteFiles, a directory.  Removing it brings them together, and so does registering
\* it, unless its metadata.json is cut short or a ..data_tmp is left in it.  What becomes
\* of the volume in memory meanwhile is not followed.
Part(k) ==
    IF k.op = "WriteMetadata" /\ k.vol \in dirs \ DOMAIN memory
    THEN apart \cup {k.vol}
    ELSE IF k.op = "RemoveVolume" \/ (k.op = "RegisterMetadata" /\ k.vol \notin torn \cup stale)
    THEN apart \ {k.vol}
    ELSE apart

PBegin(c, k) ==
    /\ Begin(c, k)
    /\ IF k.op \in OnVolume
       THEN /\ apart' = Part(k)
            /\ expected' = [expected EXCEPT ![c] = Expected(k)]
            /\ memory' = Without(Apply(memory, k).files, apart')
       ELSE UNCHANGED <<memory, expected, apart>>

\* The steps of Filesystem; a failure parts the two.
PStep ==
    /\ \/ \E c \in Callers : Step(c) \/ End(c)
       \/ Crash
    /\ apart' = IF faults' = faults THEN apart
                ELSE apart \cup {v \in Volumes :
                         \E c \in Callers : WorksOn(c, v) /\ pc'[c] # pc[c]}
    /\ memory' = Without(memory, apart')
    /\ expected' = [c \in Callers |->
                       IF pc'[c] = "idle" THEN "none"
                       ELSE IF call'[c].op \in OnVolume /\ Vol(c) \in apart' THEN "any"
                       ELSE expected[c]]

PNext ==
    /\ PStep \/ \E c \in Callers, k \in CallsOfAll : PBegin(c, k)
    /\ Observe

PSpec == PInit /\ [][PNext]_pvars

-----------------------------------------------------------------------------
\* Properties.

\* Filesystem answers as MemoryFS does, and both hold the same volumes with the same
\* volume context, whatever calls came before, except for a volume that had a failing
\* call, or metadata but no registration, and was since neither removed nor registered
\* without a trace of the failure left in it.
AgreesWithMemory ==
    \A c \in Callers : pc[c] = "return" /\ call[c].op \in OnVolume /\ Vol(c) \notin apart =>
        /\ expected[c] \in {answer[c], "any"}
        /\ Vol(c) \in DOMAIN metadata <=> Vol(c) \in DOMAIN memory
        /\ Vol(c) \in DOMAIN memory => metadata[Vol(c)] = memory[Vol(c)]
=============================================================================
