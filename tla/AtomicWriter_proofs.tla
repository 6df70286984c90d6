------------------------ MODULE AtomicWriter_proofs -------------------------
(***************************************************************************)
(* Proofs about AtomicWriter, for any payloads, directories and calls that *)
(* fail, on every system.  What readers see is proved where KeepOff and    *)
(* NothingDropped hold, which the theorems about it name as hypotheses.    *)
(***************************************************************************)
EXTENDS AtomicWriter, SequenceTheorems, TLAPS

\* Files as a payload or a directory holds them.
IsFiles(p) == DOMAIN p \subseteq Seq(STRING) /\ p = [f \in DOMAIN p |-> p[f]]

-----------------------------------------------------------------------------
\* Paths.

LEMMA FirstName ==
    ASSUME NEW f \in Seq(STRING), f # <<>>
    PROVE  <<Head(f)>> \in Prefixes(f)
<1>1. Len(f) \in Nat /\ Len(f) # 0
  OBVIOUS
<1>2. SubSeq(f, 1, 1) = <<Head(f)>>
  <2>1. SubSeq(f, 1, 1) \in Seq(STRING) /\ Len(SubSeq(f, 1, 1)) = 1 /\ SubSeq(f, 1, 1)[1] = Head(f)
    BY <1>1
  <2>2. <<Head(f)>> \in Seq(STRING) /\ Len(<<Head(f)>>) = 1 /\ <<Head(f)>>[1] = Head(f)
    BY <1>1
  <2>3. \A i \in 1..1 : SubSeq(f, 1, 1)[i] = <<Head(f)>>[i]
    BY <2>1, <2>2
  <2> QED
    BY <2>1, <2>2, <2>3, SeqEqual, Zenon
<1> QED
  BY <1>1, <1>2 DEF Prefixes

LEMMA PrefixesArePrefixes ==
    ASSUME NEW f \in Seq(STRING), NEW g \in Prefixes(f)
    PROVE  g \in Seq(STRING) /\ IsPrefix(g, f)
<1>1. PICK l \in 0..Len(f) : g = SubSeq(f, 1, l)
  BY DEF Prefixes
<1>2. g \in Seq(STRING) /\ Len(g) = l
  BY <1>1
<1>3. SubSeq(g, 1, Len(g)) = SubSeq(f, 1, Len(g))
  BY <1>1, <1>2
<1> QED
  BY <1>2, <1>3 DEF IsPrefix

LEMMA OwnPath ==
    ASSUME NEW f \in Seq(STRING) PROVE f \in Prefixes(f)
<1>1. SubSeq(f, 1, Len(f)) = f /\ Len(f) \in 0..Len(f)
  OBVIOUS
<1> QED
  BY <1>1, Zenon DEF Prefixes

\* A name that is removed is the name of no file of the payload.
LEMMA RemovedNames ==
    ASSUME NEW p, NEW files, IsFiles(p), IsFiles(files), Consistent(p),
           NEW q \in PathsToRemove(p, files), Len(q) = 1
    PROVE  Head(q) \notin Names(p)
<1>1. q \in Seq(STRING)
  BY PrefixesArePrefixes DEF PathsToRemove, AllPaths, IsFiles
<1>2. q = <<Head(q)>>
  BY <1>1
<1>3. ASSUME NEW f \in DOMAIN p, Head(f) = Head(q) PROVE FALSE
  <2>1. <<Head(f)>> \in Prefixes(f)
    BY FirstName DEF IsFiles, Consistent
  <2>2. q \in Prefixes(f) /\ q # <<>>
    BY <1>2, <1>3, <2>1
  <2>3. q \in AllPaths(p)
    BY <2>2 DEF AllPaths
  <2> QED
    BY <2>3 DEF PathsToRemove
<1> QED
  BY <1>3 DEF Names

\* A name that is removed is the first name of a file that was there.
LEMMA RemovedWereNames ==
    ASSUME NEW p, NEW files, IsFiles(files), <<>> \notin DOMAIN files,
           NEW q \in PathsToRemove(p, files), Len(q) = 1
    PROVE  Head(q) \in Names(files)
<1>1. PICK f \in DOMAIN files : q \in Prefixes(f)
  BY DEF PathsToRemove, AllPaths
<1>2. f \in Seq(STRING) /\ f # <<>>
  BY DEF IsFiles
<1>3. PICK l \in 0..Len(f) : q = SubSeq(f, 1, l)
  BY <1>1 DEF Prefixes
<1>4. l = 1 /\ Len(f) \in Nat /\ Len(f) # 0
  BY <1>2, <1>3
<1>5. Head(q) = Head(f)
  BY <1>2, <1>3, <1>4
<1> QED
  BY <1>5 DEF Names

\* If nothing is to be written and nothing to be removed, the files are the payload.
LEMMA NothingToDo ==
    ASSUME NEW p, NEW files, IsFiles(p), IsFiles(files), Consistent(files),
           \A f \in DOMAIN p : f \in DOMAIN files /\ files[f] = p[f],
           PathsToRemove(p, files) = {}
    PROVE  files = p
<1>1. ASSUME NEW g \in DOMAIN files PROVE g \in DOMAIN p
  <2>1. g \in Seq(STRING) /\ g # <<>>
    BY DEF IsFiles, Consistent
  <2>2. g \in AllPaths(files)
    BY <2>1, OwnPath DEF AllPaths
  <2>3. g \in AllPaths(p)
    BY <2>2 DEF PathsToRemove
  <2>4. PICK f \in DOMAIN p : g \in Prefixes(f)
    BY <2>3 DEF AllPaths
  <2>5. IsPrefix(g, f)
    BY <2>4, PrefixesArePrefixes DEF IsFiles
  <2> QED
    BY <2>4, <2>5 DEF Consistent, IsStrictPrefix
<1>2. DOMAIN files = DOMAIN p
  BY <1>1
<1> QED
  BY <1>2 DEF IsFiles
-----------------------------------------------------------------------------
\* The invariant.

\* Every payload that Write works with is a set of files.
LEMMA CleanFiles == ASSUME NEW p \in CleanPayloads PROVE IsFiles(p)
<1>1. PICK q \in Payloads : p \in Cleaned(q)
  BY DEF CleanPayloads
<1>2. p \in [{Clean(f) : f \in DOMAIN q} -> {q[f] : f \in DOMAIN q}]
  BY <1>1 DEF Cleaned
<1>3. {Clean(f) : f \in DOMAIN q} \subseteq Seq(STRING)
  BY CleanAssumption
<1> QED
  BY <1>2, <1>3 DEF IsFiles

\* Files of some payload, or some of them.
OfPayload(p) == \E q \in CleanPayloads \cup {Nothing} : DOMAIN p \subseteq DOMAIN q

Linkable == UNION {Names(p) : p \in {q \in CleanPayloads : Consistent(q)}}

DiskTyped ==
    /\ data \in dirs \cup {NoDir, Elsewhere}
    /\ KeepOff => data # Elsewhere
    /\ dataTmp \in Dirs \cup {NoDir, Elsewhere}
    /\ links \subseteq Linkable \ OwnNames
    /\ dirs \subseteq Dirs
    /\ content = [d \in Dirs |-> content[d]]
    /\ \A d \in Dirs : IsFiles(content[d]) /\ OfPayload(content[d])

LocalsTyped ==
    /\ want \in Payloads
    /\ pc \in Steps
    /\ payload \in CleanPayloads \cup {Nothing}
    /\ pc \notin {"idle", "error"} => payload \in CleanPayloads
    /\ old \in Dirs \cup {NoDir, Elsewhere}
    /\ new \in Dirs \cup {NoDir}
    /\ remove \subseteq UNION {AllPaths(p) : p \in CleanPayloads}
    /\ failed \in BOOLEAN

\* Where payloads and calls are as readers need them to be.
Good == KeepOff /\ NothingDropped

\* The files behind ..data have all their names.
Visible ==
    data \in dirs =>
        Consistent(content[data]) /\ (Good => Names(content[data]) \subseteq links)

WithNew == {"writeFiles", "linkNames", "linkTmp", "switch", "linkData", "abandon", "removeNew"}
WithFiles == {"linkNames", "linkTmp", "switch", "linkData"}
WithLinks == {"linkTmp", "switch", "linkData"}
Switched == {"removeTmp", "removeNames", "removeOld"}

\* The switch has failed, or step (9) is not over.
Unswitched == pc \in WithNew \/ (pc = "removeTmp" /\ failed)

\* The directories that Write works on.
Places ==
    /\ pc \in {"walk", "compare"} => old = data /\ data # NoDir
    /\ pc \in {"makeDir"} \cup WithNew \cup Switched => old \in dirs \cup {NoDir}
    /\ Unswitched => new \in dirs /\ new # data /\ new # old
    /\ pc \in WithFiles => content[new] = payload /\ Consistent(payload)
    /\ pc \in WithLinks /\ Good => Names(payload) \subseteq links
    /\ pc = "switch" => dataTmp = new
    /\ pc \in Switched /\ ~Unswitched => new # old /\ data \in {new, NoDir}
    /\ pc \in Switched \cup {"ok"} /\ ~Unswitched /\ Good =>
           data \in dirs /\ content[data] = payload
    /\ pc \notin {"removeTmp", "abandon", "removeNew", "removeNames", "error"} => ~failed

\* What Write is about to remove is not what it has written.
Removes ==
    /\ pc \in {"idle", "readData", "walk"} => remove = {}
    /\ Consistent(payload) => \A q \in remove : Len(q) = 1 => Head(q) \notin Names(payload)
    /\ KeepOff => \A q \in remove : Len(q) = 1 => Head(q) \notin OwnNames
    /\ pc = "compare" =>
           /\ remove \subseteq PathsToRemove(payload, OldFiles)
           /\ NothingDropped => remove = PathsToRemove(payload, OldFiles)

IInv == DiskTyped /\ LocalsTyped /\ Visible /\ Places /\ Removes

LEMMA InitIInv == Init => IInv
<1> SUFFICES ASSUME Init PROVE IInv
  OBVIOUS
<1> USE WriterAssumption DEF Init
<1>1. IsFiles(Nothing)
  BY DEF IsFiles, Nothing
<1>2. DiskTyped
  BY <1>1 DEF DiskTyped, OfPayload
<1>3. LocalsTyped
  BY DEF LocalsTyped, Steps
<1>4. Visible /\ Places /\ Removes
  BY DEF Visible, Places, Unswitched, Removes, WithNew, WithFiles, WithLinks, Switched
<1> QED
  BY <1>2, <1>3, <1>4 DEF IInv

\* A part of a payload is a set of files.
LEMMA PartOfPayload ==
    ASSUME NEW p, NEW q, IsFiles(p), OfPayload(p), NEW part \in SUBSET DOMAIN p,
           q = [f \in part |-> p[f]]
    PROVE  IsFiles(q) /\ OfPayload(q)
BY DEF IsFiles, OfPayload

LEMMA PayloadOfPayload == ASSUME NEW p \in CleanPayloads PROVE OfPayload(p)
BY DEF OfPayload
-----------------------------------------------------------------------------
\* Every step keeps the invariant.

LEMMA ForgettingKeepsIInv == ASSUME IInv, Forget PROVE IInv'
BY DEF Forget, disk, IInv, DiskTyped, LocalsTyped, Visible, Places, Unswitched, Removes, OfPayload,
       Steps, WithNew, WithFiles, WithLinks, Switched

\* The old directory, while Write looks at it.
LEMMA OldDirectory ==
    ASSUME IInv, pc \in {"walk", "compare"}
    PROVE  /\ payload \in CleanPayloads /\ IsFiles(payload)
           /\ IsFiles(OldFiles) /\ OfPayload(OldFiles) /\ Consistent(OldFiles)
           /\ OldFiles # Nothing => old \in dirs
           /\ KeepOff => old \in dirs /\ OldFiles = content[old]
<1>1. payload \in CleanPayloads /\ IsFiles(payload)
  BY CleanFiles DEF IInv, LocalsTyped
<1>2. CASE old = Elsewhere
  BY <1>1, <1>2 DEF IInv, DiskTyped, Places, OldFiles, IsFiles, OfPayload, Consistent, Nothing
<1>3. CASE old # Elsewhere
  <2>1. old = data /\ old \in dirs /\ old \in Dirs /\ OldFiles = content[old]
    BY <1>3 DEF IInv, DiskTyped, Places, OldFiles
  <2> QED
    BY <1>1, <2>1 DEF IInv, DiskTyped, Visible
<1> QED
  BY <1>2, <1>3

\* What step (3) finds.
LEMMA FoundPaths ==
    ASSUME IInv, pc = "walk", NEW R \in SUBSET PathsToRemove(payload, OldFiles)
    PROVE  /\ R \subseteq UNION {AllPaths(p) : p \in CleanPayloads}
           /\ Consistent(payload) => \A q \in R : Len(q) = 1 => Head(q) \notin Names(payload)
           /\ KeepOff => \A q \in R : Len(q) = 1 => Head(q) \notin OwnNames
<1>1. IsFiles(payload) /\ IsFiles(OldFiles) /\ OfPayload(OldFiles) /\ Consistent(OldFiles)
  BY OldDirectory
<1>2. PICK p \in CleanPayloads \cup {Nothing} : DOMAIN OldFiles \subseteq DOMAIN p
  BY <1>1 DEF OfPayload
<1>3. R \subseteq AllPaths(p) /\ (p = Nothing => R = {})
  BY <1>2 DEF PathsToRemove, AllPaths, Nothing
<1>4. ASSUME KeepOff, NEW q \in R, Len(q) = 1 PROVE Head(q) \notin OwnNames
  <2>1. <<>> \notin DOMAIN OldFiles
    BY <1>1 DEF Consistent
  <2>2. Head(q) \in Names(OldFiles)
    BY <1>1, <1>4, <2>1, RemovedWereNames
  <2>3. PICK f \in DOMAIN OldFiles : Head(q) = Head(f) /\ f # <<>>
    BY <2>1, <2>2 DEF Names
  <2>4. p \in CleanPayloads
    BY <1>2, <1>3, <1>4
  <2> QED
    BY <1>2, <1>4, <2>3, <2>4 DEF KeepOff
<1>5. Consistent(payload) => \A q \in R : Len(q) = 1 => Head(q) \notin Names(payload)
  BY <1>1, RemovedNames
<1>6. R \subseteq UNION {AllPaths(q) : q \in CleanPayloads}
  BY <1>2, <1>3
<1> QED
  BY <1>4, <1>5, <1>6

\* What it means that step (4) finds nothing to do.
LEMMA NothingFound ==
    ASSUME IInv, pc = "compare", KeepOff, NothingDropped, remove = {},
           "keep" \in ShouldWritePayload(payload, OldFiles)
    PROVE  data \in dirs /\ content[data] = payload
<1>1. old = data /\ old \in dirs /\ OldFiles = content[old]
  BY OldDirectory DEF IInv, Places
<1>2. PathsToRemove(payload, OldFiles) = {}
  BY DEF IInv, Removes
<1>3. {ShouldWriteFile(payload[f], f, OldFiles) : f \in DOMAIN payload} \subseteq {"keep"}
  BY Zenon DEF ShouldWritePayload
<1>4. \A f \in DOMAIN payload : ShouldWriteFile(payload[f], f, OldFiles) = "keep"
  BY <1>3, Zenon
<1>5. \A f \in DOMAIN payload : f \in DOMAIN OldFiles /\ OldFiles[f] = payload[f]
  BY <1>4 DEF ShouldWriteFile
<1> QED
  BY <1>1, <1>2, <1>5, OldDirectory, NothingToDo

LEMMA CallsKeepIInv ==
    ASSUME IInv, Call \/ ReadData \/ FindPaths \/ Compare \/ \E p \in Payloads : Change(p)
    PROVE  IInv'
<1> USE WriterAssumption DEF IInv, LocalsTyped, Steps, Goto, WithNew, WithFiles, WithLinks, Switched
<1>1. CASE \E p \in Payloads : Change(p)
  BY <1>1
     DEF Change, disk, locals, DiskTyped, Visible, Places, Unswitched, Removes, OfPayload
<1>2. CASE Call
  <2>1. payload' \in CleanPayloads \cup {Nothing} /\ (pc' # "error" => payload' \in CleanPayloads)
    BY <1>2 DEF Call, CleanPayloads
  <2> QED
    BY <1>2, <2>1
       DEF Call, disk, outside, DiskTyped, Visible, Places, Unswitched, Removes, OfPayload
<1>3. CASE ReadData
  BY <1>3
     DEF ReadData, disk, outside, DiskTyped, Visible, Places, Unswitched, Removes, OfPayload
<1>4. CASE FindPaths
  <2>1. remove' \in SUBSET PathsToRemove(payload, OldFiles)
    BY <1>4 DEF FindPaths
  <2>2. NothingDropped => remove' = PathsToRemove(payload, OldFiles)
    BY <1>4 DEF FindPaths, Fails, NothingDropped
  <2>3. pc = "walk" /\ pc' = "compare" /\ UNCHANGED <<disk, outside, payload, old, new, failed>>
    BY <1>4 DEF FindPaths
  <2>4. OldFiles' = OldFiles
    BY <2>3 DEF OldFiles, disk
  <2> QED
    BY <2>1, <2>2, <2>3, <2>4, FoundPaths
       DEF disk, outside, DiskTyped, Visible, Places, Unswitched, Removes, OfPayload
<1>5. CASE Compare
  <2>1. pc = "compare" /\ pc' \in {"error", "ok", "makeDir"} /\ UNCHANGED <<disk, outside, locals>>
    BY <1>5 DEF Compare
  <2>2. pc' # "error" => (payload = Nothing \/ old # Elsewhere)
    BY <1>5 DEF Compare
  <2>3. pc' # "error" => \E answer \in ShouldWritePayload(payload, OldFiles) :
            IF answer = "keep" /\ remove = {} THEN pc' = "ok" ELSE pc' = "makeDir"
    BY <1>5 DEF Compare
  <2>4. pc' = "ok" /\ Good => data \in dirs /\ content[data] = payload
    BY <2>1, <2>3, NothingFound DEF Good
  <2>5. pc' = "makeDir" => old \in dirs
    <3>1. CASE old # Elsewhere
      BY <2>1, <3>1 DEF Places, DiskTyped
    <3>2. ASSUME old = Elsewhere, pc' = "makeDir" PROVE FALSE
      <4>1. payload = Nothing /\ OldFiles = Nothing
        BY <2>2, <3>2 DEF OldFiles
      <4>2. remove = {}
        BY <2>1, <4>1 DEF Removes, PathsToRemove, AllPaths, Nothing
      <4>3. {ShouldWriteFile(payload[f], f, OldFiles) : f \in DOMAIN payload} = {}
        BY <4>1 DEF Nothing
      <4>4. ShouldWritePayload(payload, OldFiles) = {"keep"}
        BY <4>3, Zenon DEF ShouldWritePayload
      <4> QED
        BY <2>3, <3>2, <4>2, <4>4
    <3> QED
      BY <3>1, <3>2
  <2> QED
    BY <2>1, <2>4, <2>5
       DEF disk, outside, locals, DiskTyped, Visible, Places, Unswitched, Removes, OfPayload
<1> QED
  BY <1>1, <1>2, <1>3, <1>4, <1>5

LEMMA FreshIsNew == ASSUME dirs # Dirs, dirs \subseteq Dirs PROVE FreshDir \in Dirs \ dirs
BY DEF FreshDir

\* os.RemoveAll of a directory.
LEMMA RemovedDir ==
    ASSUME DiskTyped, NEW d \in Dirs, RemoveDir(d)
    PROVE  /\ dirs' \in {dirs, dirs \ {d}}
           /\ content' = [e \in Dirs |-> content'[e]]
           /\ \A e \in Dirs : IsFiles(content'[e]) /\ OfPayload(content'[e])
           /\ \A e \in Dirs : e # d => content'[e] = content[e]
<1>1. IsFiles(Nothing) /\ OfPayload(Nothing)
  BY DEF IsFiles, OfPayload, Nothing
<1>2. ASSUME NEW part \in SUBSET DOMAIN content[d]
      PROVE  IsFiles([f \in part |-> content[d][f]]) /\ OfPayload([f \in part |-> content[d][f]])
  BY PartOfPayload DEF DiskTyped
<1>3. PICK q : content' = [content EXCEPT ![d] = q] /\ IsFiles(q) /\ OfPayload(q)
  BY <1>1, <1>2 DEF RemoveDir
<1> QED
  BY <1>3 DEF RemoveDir, DiskTyped

\* A directory that is not behind ..data may go.
LEMMA RemovingKeepsDisk ==
    ASSUME IInv, NEW d \in Dirs, d # data, RemoveDir(d), UNCHANGED <<data, dataTmp, links>>
    PROVE  /\ DiskTyped' /\ Visible'
           /\ data \in dirs => data \in dirs' /\ content'[data] = content[data]
<1>1. /\ dirs' \in {dirs, dirs \ {d}}
      /\ content' = [e \in Dirs |-> content'[e]]
      /\ \A e \in Dirs : IsFiles(content'[e]) /\ OfPayload(content'[e])
      /\ \A e \in Dirs : e # d => content'[e] = content[e]
  BY RemovedDir DEF IInv
<1>2. DiskTyped'
  BY <1>1 DEF IInv, DiskTyped, OfPayload
<1>3. Visible' /\ (data \in dirs => data \in dirs' /\ content'[data] = content[data])
  BY <1>1 DEF IInv, DiskTyped, Visible
<1> QED
  BY <1>2, <1>3

LEMMA LinkingKeepsIInv == ASSUME IInv, LinkNames PROVE IInv'
<1> USE WriterAssumption
    DEF IInv, LocalsTyped, Steps, Goto, outside, locals, WithNew, WithFiles, WithLinks, Switched
<1> DEFINE missing == {n \in Names(payload) : ~Exists(n)}
<1>1. /\ pc = "linkNames" /\ pc' \in {"linkNames", "linkTmp", "error"}
      /\ UNCHANGED <<dirs, content, outside, locals>>
  BY DEF LinkNames
<1>2. payload \in CleanPayloads /\ Consistent(payload)
  BY <1>1 DEF Places
<1>3. Names(payload) \subseteq Linkable
  BY <1>2, Zenon DEF Linkable
<1>4. KeepOff => Names(payload) \cap OwnNames = {}
  BY <1>2 DEF KeepOff, Names, Consistent
<1>5. CASE UNCHANGED <<data, dataTmp, links>>
  <2>1. pc' = "linkTmp" /\ Good => Names(payload) \subseteq links
    <3>1. pc' = "linkTmp" /\ NothingDropped => missing = {}
      BY <1>1 DEF LinkNames, Fails, NothingDropped
    <3> QED
      BY <1>4, <3>1 DEF Good, Exists, OwnNames
  <2> QED
    BY <1>1, <1>5, <2>1 DEF DiskTyped, Visible, Places, Unswitched, Removes, OfPayload
<1>6. CASE \E n \in missing : AddLink(n) /\ UNCHANGED pc
  <2>1. PICK n \in Names(payload) : AddLink(n) /\ UNCHANGED pc
    BY <1>6
  <2>2. links \subseteq links' /\ links' \subseteq Linkable \ OwnNames
    BY <1>3, <2>1 DEF AddLink, DiskTyped
  <2>3. data' \in {data, Elsewhere} /\ (KeepOff => data' = data)
    BY <1>4, <2>1 DEF AddLink, OwnNames
  <2>4. dataTmp' \in {dataTmp, Elsewhere}
    BY <2>1 DEF AddLink
  <2> QED
    BY <1>1, <2>1, <2>2, <2>3, <2>4
       DEF DiskTyped, Visible, Places, Unswitched, Removes, OfPayload
<1> QED
  BY <1>5, <1>6 DEF LinkNames

LEMMA PreparationsKeepIInv == ASSUME IInv, MakeDir \/ WriteFiles \/ LinkTmp PROVE IInv'
<1> USE WriterAssumption
    DEF IInv, LocalsTyped, Steps, Goto, outside, locals, WithNew, WithFiles, WithLinks, Switched
<1>1. CASE MakeDir
  <2>1. dirs # Dirs => FreshDir \in Dirs \ dirs
    BY FreshIsNew DEF DiskTyped
  <2> QED
    BY <1>1, <2>1
       DEF MakeDir, DiskTyped, Visible, Places, Unswitched, Removes, OfPayload
<1>2. CASE WriteFiles
  <2>1. /\ pc = "writeFiles" /\ payload \in CleanPayloads
        /\ new \in Dirs /\ new \in dirs /\ new # data /\ new # old
        /\ UNCHANGED <<data, dataTmp, links, dirs, want, payload, old, new, remove, failed>>
    BY <1>2 DEF WriteFiles, Places, Unswitched, DiskTyped
  <2>2. \/ pc' = "linkNames" /\ Consistent(payload) /\ content' = [content EXCEPT ![new] = payload]
        \/ /\ pc' = "error"
           /\ \E part \in SUBSET DOMAIN payload :
                  content' = [content EXCEPT ![new] = [f \in part |-> payload[f]]]
    BY <1>2 DEF WriteFiles
  <2>3. PICK q : content' = [content EXCEPT ![new] = q] /\ IsFiles(q) /\ OfPayload(q)
    BY <2>1, <2>2, CleanFiles, PartOfPayload, PayloadOfPayload
  <2>4. DiskTyped'
    BY <2>1, <2>3 DEF DiskTyped, OfPayload
  <2>5. \A d \in Dirs : d # new => content'[d] = content[d]
    BY <2>3 DEF DiskTyped
  <2>6. Visible'
    BY <2>1, <2>5 DEF DiskTyped, Visible
  <2>7. pc' = "linkNames" => content'[new] = payload
    BY <2>1, <2>2 DEF DiskTyped
  <2> QED
    BY <2>1, <2>2, <2>4, <2>6, <2>7 DEF Places, Unswitched, Removes
<1>3. CASE LinkTmp
  BY <1>3 DEF LinkTmp, DiskTyped, Visible, Places, Unswitched, Removes, OfPayload
<1> QED
  BY <1>1, <1>2, <1>3

LEMMA SwitchesKeepIInv ==
    ASSUME IInv, Switch \/ RemoveData \/ LinkData \/ RemoveTmp \/ Abandon
    PROVE  IInv'
<1> USE WriterAssumption
    DEF IInv, LocalsTyped, Steps, Goto, outside, locals, WithNew, WithFiles, WithLinks, Switched
<1>1. CASE Switch
  BY <1>1 DEF Switch, DiskTyped, Visible, Places, Unswitched, Removes, OfPayload
<1>2. CASE RemoveData
  BY <1>2 DEF RemoveData, DiskTyped, Visible, Places, Unswitched, Removes, OfPayload
<1>3. CASE LinkData
  <2>1. /\ pc = "linkData" /\ pc' = "removeTmp" /\ ~failed
        /\ UNCHANGED <<dataTmp, links, dirs, content, outside, payload, old, new, remove>>
        /\ new \in dirs /\ new # data /\ new # old /\ old \in dirs \cup {NoDir}
        /\ content[new] = payload /\ Consistent(payload)
        /\ Good => Names(payload) \subseteq links
    BY <1>3 DEF LinkData, Places, Unswitched
  <2>2. (data' = new /\ UNCHANGED failed) \/ (data' = data /\ failed' = TRUE)
    BY <1>3 DEF LinkData
  <2>3. DiskTyped'
    BY <2>1, <2>2 DEF DiskTyped, OfPayload
  <2>4. Visible'
    BY <2>1, <2>2 DEF DiskTyped, Visible
  <2>5. Places'
    BY <2>1, <2>2 DEF DiskTyped, Places, Unswitched
  <2> QED
    BY <2>1, <2>2, <2>3, <2>4, <2>5 DEF Removes
<1>4. CASE RemoveTmp
  BY <1>4 DEF RemoveTmp, DropTmp, DiskTyped, Visible, Places, Unswitched, Removes, OfPayload
<1>5. CASE Abandon
  BY <1>5 DEF Abandon, DropTmp, DiskTyped, Visible, Places, Unswitched, Removes, OfPayload
<1> QED
  BY <1>1, <1>2, <1>3, <1>4, <1>5

LEMMA RemovalsKeepIInv == ASSUME IInv, RemoveNew \/ RemoveNames \/ RemoveOld PROVE IInv'
<1> USE WriterAssumption
    DEF IInv, LocalsTyped, Steps, Goto, outside, locals, WithNew, WithFiles, WithLinks, Switched
<1>1. CASE RemoveNew
  <2>1. /\ pc = "removeNew" /\ pc' = "error" /\ new \in Dirs /\ new # data
        /\ RemoveDir(new) /\ UNCHANGED <<data, dataTmp, links, outside, locals>>
    BY <1>1 DEF RemoveNew, Places, Unswitched, DiskTyped
  <2>2. DiskTyped' /\ Visible'
    BY <2>1, RemovingKeepsDisk
  <2> QED
    BY <2>1, <2>2 DEF Places, Unswitched, Removes
<1>2. CASE RemoveNames
  <2>1. pc = "removeNames" /\ pc' \in {"removeNames", "error", "removeOld"}
        /\ UNCHANGED <<dirs, content, outside, payload, old, new>>
    BY <1>2 DEF RemoveNames
  <2>2. /\ links' \subseteq links /\ remove' \subseteq remove /\ failed' \in BOOLEAN
        /\ dataTmp' \in {dataTmp, NoDir} /\ data' \in {data, NoDir}
        /\ pc' = "removeOld" => ~failed'
    <3>1. CASE remove = {}
      BY <1>2, <2>1, <3>1 DEF RemoveNames
    <3>2. CASE \E q \in remove :
                  /\ remove' = remove \ {q}
                  /\ UNCHANGED <<data, dataTmp, links>> \/ RemoveLink(Head(q))
                  /\ failed' \in {failed, TRUE}
                  /\ UNCHANGED pc
      BY <2>1, <3>2 DEF RemoveLink
    <3> QED
      BY <1>2, <3>1, <3>2 DEF RemoveNames
  <2>3. new # old /\ old \in dirs \cup {NoDir} /\ data \in {new, NoDir}
    BY <2>1 DEF Places, Unswitched
  <2>4. ASSUME Good
        PROVE  /\ data' = data /\ data \in dirs /\ content[data] = payload /\ Consistent(payload)
               /\ Names(payload) \subseteq links'
    <3>1. KeepOff
      BY <2>4 DEF Good
    <3>2. data \in dirs /\ content[data] = payload /\ Consistent(payload)
          /\ Names(payload) \subseteq links
      BY <2>1, <2>4 DEF Places, Unswitched, Visible
    <3>3. UNCHANGED <<data, links>> \/ \E q \in remove : Len(q) = 1 /\ RemoveLink(Head(q))
      BY <1>2 DEF RemoveNames
    <3>4. ASSUME NEW q \in remove, Len(q) = 1, RemoveLink(Head(q))
          PROVE  data' = data /\ Names(payload) \subseteq links'
      <4>1. Head(q) \notin OwnNames /\ Head(q) \notin Names(payload)
        BY <3>1, <3>2, <3>4 DEF Removes
      <4> QED
        BY <3>2, <3>4, <4>1 DEF RemoveLink, OwnNames
    <3> QED
      BY <3>2, <3>3, <3>4
  <2>5. DiskTyped'
    BY <2>1, <2>2 DEF DiskTyped, OfPayload
  <2>6. Visible'
    BY <2>1, <2>2, <2>4 DEF DiskTyped, Visible
  <2> QED
    BY <2>1, <2>2, <2>3, <2>4, <2>5, <2>6 DEF Places, Unswitched, Removes
<1>3. CASE RemoveOld
  <2>1. /\ pc = "removeOld" /\ ~failed /\ old \in dirs \cup {NoDir}
        /\ old # new /\ data \in {new, NoDir}
        /\ UNCHANGED <<data, dataTmp, links, outside, locals>>
    BY <1>3 DEF RemoveOld, Places, Unswitched
  <2>2. Good => data \in dirs /\ content[data] = payload
    BY <2>1 DEF Places, Unswitched
  <2>3. pc' \in {"error", "ok"}
    BY <1>3 DEF RemoveOld
  <2>4. CASE old = NoDir
    <3>1. UNCHANGED <<dirs, content>>
      BY <1>3, <2>4 DEF RemoveOld
    <3> QED
      BY <2>1, <2>2, <2>3, <3>1 DEF DiskTyped, Visible, Places, Unswitched, Removes, OfPayload
  <2>5. CASE old # NoDir
    <3>1. old \in Dirs /\ old # data /\ RemoveDir(old)
      BY <1>3, <2>1, <2>5 DEF RemoveOld, DiskTyped
    <3>2. /\ DiskTyped' /\ Visible'
          /\ data \in dirs => data \in dirs' /\ content'[data] = content[data]
      BY <2>1, <3>1, RemovingKeepsDisk
    <3> QED
      BY <2>1, <2>2, <2>3, <3>2 DEF Places, Unswitched, Removes
  <2> QED
    BY <2>4, <2>5
<1> QED
  BY <1>1, <1>2, <1>3

LEMMA NextKeepsIInv == ASSUME IInv, [Next]_vars PROVE IInv'
<1>1. CASE Return \/ Crash
  BY <1>1, ForgettingKeepsIInv DEF Return, Crash
<1>2. CASE UNCHANGED vars
  BY <1>2
     DEF vars, disk, outside, locals, IInv, DiskTyped, LocalsTyped, Visible, Places, Unswitched,
         Removes, OldFiles, OfPayload
<1> QED
  BY <1>1, <1>2, CallsKeepIInv, LinkingKeepsIInv, PreparationsKeepIInv, SwitchesKeepIInv,
     RemovalsKeepIInv
     DEF Next, Step

LEMMA AlwaysIInv == Spec => []IInv
  BY InitIInv, NextKeepsIInv, PTL DEF Spec
-----------------------------------------------------------------------------
\* What readers see.

\* Readers see all the files behind ..data, and no others.
LEMMA Shown ==
    ASSUME IInv, Good
    PROVE  /\ data \in dirs => View = content[data]
           /\ data \notin dirs => View = Nothing
<1>1. CASE data \in dirs
  <2>1. IsFiles(content[data]) /\ Names(content[data]) \subseteq links
    BY <1>1 DEF IInv, DiskTyped, Visible
  <2>2. {g \in DOMAIN content[data] : Head(g) \in links} = DOMAIN content[data]
    BY <2>1 DEF Names
  <2>3. View = [f \in DOMAIN content[data] |-> content[data][f]]
    BY <1>1, <2>2 DEF View
  <2> QED
    BY <1>1, <2>1, <2>3 DEF IsFiles
<1>2. CASE data \notin dirs
  BY <1>2 DEF View
<1> QED
  BY <1>1, <1>2

\* The same after a step.
LEMMA ShownThen ==
    ASSUME IInv', Good
    PROVE  /\ data' \in dirs' => View' = content'[data']
           /\ data' \notin dirs' => View' = Nothing
<1>1. CASE data' \in dirs'
  <2>1. IsFiles(content'[data']) /\ Names(content'[data']) \subseteq links'
    BY <1>1 DEF IInv, DiskTyped, Visible
  <2>2. {g \in DOMAIN content'[data'] : Head(g) \in links'} = DOMAIN content'[data']
    BY <2>1 DEF Names
  <2>3. View' = [f \in DOMAIN content'[data'] |-> content'[data'][f]]
    BY <1>1, <2>2 DEF View
  <2> QED
    BY <1>1, <2>1, <2>3 DEF IsFiles
<1>2. CASE data' \notin dirs'
  BY <1>2 DEF View, Nothing
<1> QED
  BY <1>1, <1>2

\* When Write returns no error its files are what readers see, and nothing else.
THEOREM OKMeansShown ==
    ASSUME KeepOff, NothingDropped
    PROVE  Spec => []OKIsShown
<1>1. IInv => OKIsShown
  BY Shown DEF Good, IInv, Places, Unswitched, Switched, WithNew, OKIsShown
<1> QED
  BY <1>1, AlwaysIInv, PTL

\* Only the step that replaces ..data changes what readers see.
LEMMA SameView ==
    ASSUME IInv, IInv', Good, data' = data,
           data \in dirs => data \in dirs' /\ content'[data] = content[data]
    PROVE  View' = View
<1>1. data \notin dirs => data \notin dirs'
  BY WriterAssumption DEF IInv, DiskTyped
<1> QED
  BY <1>1, Shown, ShownThen

\* No name that Write removes is its own.
LEMMA NoOwnNameRemoved == ASSUME IInv, Good, RemoveNames PROVE data' = data
<1>1. UNCHANGED data \/ \E q \in remove : Len(q) = 1 /\ RemoveLink(Head(q))
  BY DEF RemoveNames
<1>2. \A q \in remove : Len(q) = 1 => Head(q) # "..data"
  BY DEF IInv, Removes, Good, OwnNames
<1> QED
  BY <1>1, <1>2 DEF RemoveLink

\* A step that is not the switch.
LEMMA OtherStepsShowNothing ==
    ASSUME IInv, IInv', Good, [Next]_vars, ~Switch, ~RemoveData, ~LinkData
    PROVE  View' = View
<1> USE DEF IInv, DiskTyped, Places, Unswitched, WithNew, Switched, outside, locals
<1>1. CASE Call \/ ReadData \/ FindPaths \/ Compare \/ LinkTmp \/ RemoveTmp \/ Abandon
           \/ Return \/ Crash \/ UNCHANGED vars \/ \E p \in Payloads : Change(p)
  <2>1. UNCHANGED <<data, dirs, content>>
    BY <1>1
       DEF Call, ReadData, FindPaths, Compare, LinkTmp, RemoveTmp, Abandon, Return, Crash, Forget,
           Change, disk, vars
  <2> QED
    BY <2>1, SameView
<1>2. CASE MakeDir
  BY <1>2, SameView DEF MakeDir
<1>3. CASE WriteFiles
  BY <1>3, SameView DEF WriteFiles
<1>4. CASE LinkNames
  <2>1. UNCHANGED <<dirs, content>> /\ data' \in {data, Elsewhere}
    BY <1>4 DEF LinkNames, AddLink
  <2>2. data' = data
    BY <2>1 DEF Good
  <2> QED
    BY <2>1, <2>2, SameView
<1>5. CASE RemoveNames
  <2>1. UNCHANGED <<dirs, content, payload>> /\ pc = "removeNames" /\ data' \in {data, NoDir}
    BY <1>5 DEF RemoveNames, RemoveLink
  <2>2. data' = data
    BY <1>5, <2>1, NoOwnNameRemoved
  <2> QED
    BY <2>1, <2>2, SameView
<1>6. CASE RemoveNew
  <2>1. RemoveDir(new) /\ new \in Dirs /\ new # data /\ UNCHANGED <<data, dataTmp, links>>
    BY <1>6 DEF RemoveNew
  <2> QED
    BY <2>1, RemovingKeepsDisk, SameView
<1>7. CASE RemoveOld
  <2>1. CASE old = NoDir
    BY <1>7, <2>1, SameView DEF RemoveOld
  <2>2. CASE old # NoDir
    <3>1. RemoveDir(old) /\ old \in Dirs /\ old # data /\ UNCHANGED <<data, dataTmp, links>>
      BY <1>7, <2>2 DEF RemoveOld
    <3> QED
      BY <3>1, RemovingKeepsDisk, SameView
  <2> QED
    BY <2>1, <2>2
<1> QED
  BY <1>1, <1>2, <1>3, <1>4, <1>5, <1>6, <1>7 DEF Next, Step

\* The payload of the Write in progress, as AtomicFiles sees it.
Writing == IF pc \in {"idle", "error"} THEN {} ELSE {payload}

LEMMA SwitchShowsPayload ==
    ASSUME IInv, IInv', Good, Switch \/ RemoveData \/ LinkData
    PROVE  /\ View' \in {View, payload} \/ (goos = "windows" /\ View' = Nothing)
           /\ UNCHANGED goos
           /\ pc \notin {"idle", "error"} /\ pc' \notin {"idle", "error"} /\ payload' = payload
<1> USE DEF IInv, DiskTyped, Places, Unswitched, WithNew, WithFiles, outside, locals, Goto
<1>1. CASE Switch
  <2>1. CASE data' = dataTmp
    <3>1. data' = new /\ new \in dirs' /\ content'[new] = payload
      BY <1>1, <2>1 DEF Switch
    <3> QED
      BY <1>1, <3>1, ShownThen DEF Switch
  <2>2. CASE UNCHANGED data
    BY <1>1, <2>2, SameView DEF Switch
  <2> QED
    BY <1>1, <2>1, <2>2 DEF Switch
<1>2. CASE RemoveData
  <2>1. CASE data' = NoDir
    <3>1. data' \notin dirs'
      BY <2>1, WriterAssumption
    <3> QED
      BY <1>2, <3>1, ShownThen DEF RemoveData
  <2>2. CASE UNCHANGED data
    BY <1>2, <2>2, SameView DEF RemoveData
  <2> QED
    BY <1>2, <2>1, <2>2 DEF RemoveData
<1>3. CASE LinkData
  <2>1. CASE data' = new
    <3>1. new \in dirs' /\ content'[new] = payload
      BY <1>3 DEF LinkData
    <3> QED
      BY <1>3, <2>1, <3>1, ShownThen DEF LinkData
  <2>2. CASE UNCHANGED data
    BY <1>3, <2>2, SameView DEF LinkData
  <2> QED
    BY <1>3, <2>1, <2>2 DEF LinkData
<1> QED
  BY <1>1, <1>2, <1>3

\* What becomes of the Write in progress: it begins, goes on or ends.
LEMMA WritingChanges ==
    ASSUME IInv, IInv', [Next]_vars
    PROVE  /\ UNCHANGED goos
           /\ \/ Writing' = Writing
              \/ Writing' = {}
              \/ Writing = {} /\ \E p \in CleanPayloads : Writing' = {p}
<1> USE DEF Writing, Goto, outside, locals
<1>1. CASE Call
  BY <1>1 DEF Call, IInv, LocalsTyped
<1>2. CASE ReadData \/ FindPaths \/ Compare \/ MakeDir \/ WriteFiles \/ LinkNames \/ LinkTmp
  BY <1>2 DEF ReadData, FindPaths, Compare, MakeDir, WriteFiles, LinkNames, LinkTmp
<1>3. CASE Switch \/ RemoveData \/ LinkData \/ RemoveTmp \/ Abandon \/ RemoveNew \/ RemoveNames
           \/ RemoveOld
  BY <1>3 DEF Switch, RemoveData, LinkData, RemoveTmp, Abandon, RemoveNew, RemoveNames, RemoveOld
<1>4. CASE Return \/ Crash \/ UNCHANGED vars \/ \E p \in Payloads : Change(p)
  BY <1>4 DEF Return, Crash, Forget, vars, Change
<1> QED
  BY <1>1, <1>2, <1>3, <1>4 DEF Next, Step

\* Write implements AtomicFiles: a reader sees one payload or the next, and on a system
\* that replaces links never anything else.
THEOREM Refinement ==
    ASSUME KeepOff, NothingDropped
    PROVE  Spec => AtomicFilesSpec
<1> USE DEF Files!vars
<1>0. Good
  BY DEF Good
<1>1. Init => Files!Init
  BY DEF Init, View, Files!Init, Nothing
<1>2. IInv /\ IInv' /\ [Next]_vars => [Files!Next]_(Files!vars)
  <2> SUFFICES ASSUME IInv, IInv', [Next]_vars PROVE [Files!Next]_(Files!vars)
    OBVIOUS
  <2>1. CASE Switch \/ RemoveData \/ LinkData
    <3>1. Writing = {payload} /\ Writing' = {payload} /\ UNCHANGED goos
      BY <1>0, <2>1, SwitchShowsPayload DEF Writing
    <3>2. View' \in {View, payload} \/ (goos = "windows" /\ View' = Nothing)
      BY <1>0, <2>1, SwitchShowsPayload
    <3> QED
      BY <3>1, <3>2, Zenon DEF Writing, Files!Next, Files!Switch, Files!Vanish, Nothing
  <2>2. CASE ~Switch /\ ~RemoveData /\ ~LinkData
    <3>1. View' = View
      BY <1>0, <2>2, OtherStepsShowNothing
    <3> QED
      BY <3>1, WritingChanges, Zenon DEF Writing, Files!Next, Files!Begin, Files!End
  <2> QED
    BY <2>1, <2>2
<1> QED
  BY <1>1, <1>2, AlwaysIInv, PTL DEF Spec, AtomicFilesSpec, Files!Spec
-----------------------------------------------------------------------------
\* The variables have their types.

LEMMA InitTyped == Init => TypeOK
<1> SUFFICES ASSUME Init PROVE TypeOK
  OBVIOUS
<1>1. IInv
  BY InitIInv
<1>2. goos \in Systems /\ orphan \in BOOLEAN /\ failed \in BOOLEAN
  BY Zenon DEF Init
<1>3. faults \in 0..MaxFaults
  BY WriterAssumption DEF Init
<1> QED
  BY <1>1, <1>2, <1>3, WriterAssumption DEF TypeOK, IInv, DiskTyped, LocalsTyped, Linkable, OfPayload, Names

\* The variables that IInv does not speak of.
LEMMA RestTyped ==
    ASSUME TypeOK, [Next]_vars
    PROVE  /\ goos' \in Systems
           /\ orphan' \in BOOLEAN
           /\ failed' \in BOOLEAN
           /\ faults' \in 0..MaxFaults
<1>1. goos' = goos
  BY DEF Next, Step, Change, Call, ReadData, FindPaths, Compare, MakeDir, WriteFiles, LinkNames,
         LinkTmp, Switch, RemoveData, LinkData, RemoveTmp, DropTmp, Abandon, RemoveNew,
         RemoveDir, RemoveNames, RemoveOld, Return, Crash, Forget, outside, vars
<1>2. orphan' \in BOOLEAN
  BY DEF TypeOK, Next, Step, Change, Call, ReadData, FindPaths, Compare, MakeDir, WriteFiles,
         LinkNames, LinkTmp, Switch, RemoveData, LinkData, RemoveTmp, DropTmp, Abandon,
         RemoveNew, RemoveDir, RemoveNames, RemoveOld, Return, Crash, Forget, outside, vars
<1>3. failed' \in BOOLEAN
  BY DEF TypeOK, Next, Step, Change, Call, ReadData, FindPaths, Compare, MakeDir, WriteFiles,
         LinkNames, LinkTmp, Switch, RemoveData, LinkData, RemoveTmp, DropTmp, Abandon,
         RemoveNew, RemoveDir, RemoveNames, RemoveOld, Return, Crash, Forget, locals, vars
<1>4. faults' \in 0..MaxFaults
  <2>1. faults' = faults \/ (faults < MaxFaults /\ faults' = faults + 1)
    BY DEF Fails, Next, Step, Change, Call, ReadData, FindPaths, Compare, MakeDir, WriteFiles,
           LinkNames, LinkTmp, Switch, RemoveData, LinkData, RemoveTmp, DropTmp, Abandon,
           RemoveNew, RemoveDir, RemoveNames, RemoveOld, Return, Crash, Forget, vars
  <2> QED
    BY <2>1, WriterAssumption DEF TypeOK
<1> QED
  BY <1>1, <1>2, <1>3, <1>4 DEF TypeOK

THEOREM TypeCorrect == Spec => []TypeOK
<1>1. TypeOK /\ IInv' /\ [Next]_vars => TypeOK'
  BY RestTyped DEF TypeOK, IInv, DiskTyped, LocalsTyped, Linkable, OfPayload, Names
<1> QED
  BY <1>1, InitTyped, AlwaysIInv, PTL DEF Spec
=============================================================================
