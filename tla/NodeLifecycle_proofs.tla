------------------------ MODULE NodeLifecycle_proofs -------------------------
(***************************************************************************)
(* Proofs about NodeLifecycle, for any volumes, targets, goroutines and    *)
(* managers: what the CO's record and the host have to do with each other, *)
(* that the node implements VolumeLifecycle, and what leaves a device      *)
(* attached.  Each is proved for every CO for which it holds: the theorems *)
(* say what volumes are used as and which calls the CO has to wait for.    *)
(***************************************************************************)
EXTENDS NodeLifecycle, NodeServer_proofs

USE DEF handlers, kernel

\* The CO uses volumes as file systems.
FileSystems == AccessTypes = {"mount"}

\* The CO waits for the answers of the calls that take a path down: UnpublishRetry and
\* the README show what one does that it does not wait for.
WaitsForUnstage == "Unstage" \notin Impatient
WaitsForUnpublish == "Unpublish" \notin Impatient

-----------------------------------------------------------------------------
(***************************************************************************)
(* The invariants: RInv of any CO, LInv of one that waits for Unstage.     *)
(***************************************************************************)
Raises(c) == req[c].op \in {"Stage", "Publish"}

\* The record of the CO and the calls that it waits for agree: one per volume, each
\* for the way its path is going.  A call that it does not wait for is of those that
\* it gives up.  A target is used only while its volume is up.
RecordMatches ==
    /\ phase \in [Paths -> Phases]
    /\ waiting \subseteq {c \in Calls : pc[c] # "idle"}
    /\ \A c, d \in waiting : Vol(c) = Vol(d) => c = d
    /\ \A c \in waiting :
           phase[PathOf(req[c])] = IF Raises(c) THEN "goingUp" ELSE "goingDown"
    /\ \A c \in Calls : pc[c] # "idle" /\ c \notin waiting => req[c].op \in Impatient
    /\ \A t \in Targets : phase[t] # "down" => phase[VolumeOf[t]] = "up"

\* A target that is down is no directory, so that a late Publish has nothing to mount on.
DownIsNoDirectory == \A t \in Targets : phase[t] = "down" => path[t] # "dir"

\* What an OK of Unpublish said is still so when the CO hears it.
UnpublishedArrives ==
    \A c \in waiting :
        code[c] = "OK" /\ req[c].op = "Unpublish" => path[Target(c)] # "dir"

RInv ==
    /\ RecordMatches
    /\ DownIsNoDirectory
    /\ UnpublishedArrives

\* What a staging path shows once its volume is there.
StagedShows == IF MountsSources THEN SourceShows ELSE "dir"

\* All that was ever bound to a target is what the staging path shows still.
TargetsShowVolume ==
    \A t \in Targets : \A i \in 1 .. Len(mounts[t]) : mounts[t][i].fs = StagedShows

UpIsThere ==
    /\ \A v \in Volumes : phase[v] = "up" => HasVolume(v)
    /\ WaitsForUnpublish => \A t \in Targets : phase[t] = "up" => mounts[t] # <<>>

\* What the other OKs said is still so too.
OKHolds(c) ==
    code[c] = "OK" =>
        /\ req[c].op = "Stage" => HasVolume(Vol(c))
        /\ req[c].op = "Publish" /\ WaitsForUnpublish => mounts[Target(c)] # <<>>

OKArrives == \A c \in waiting : OKHolds(c)

LInv ==
    /\ RInv
    /\ TargetsShowVolume
    /\ UpIsThere
    /\ OKArrives

\* With volumes used as file systems there are no links.
NoLinks == \A p \in Paths : path[p] # "link"

-----------------------------------------------------------------------------
(***************************************************************************)
(* A step of NodeLifecycle is one of NodeServer, or changes no more of it  *)
(* than the number of failures, so that its invariants carry over.         *)
(***************************************************************************)
LEMMA AccessIsMount == ASSUME FileSystems PROVE Access = "mount" /\ Access \in AccessTypes
  BY DEF FileSystems, Access

\* What the CO asks for.
LEMMA RequestIsForPath ==
  ASSUME Access \in AccessTypes, NEW p \in Paths, phase[p] \in {"goingUp", "goingDown"}
  PROVE  /\ RequestFor(p) \in Requests
         /\ PathOf(RequestFor(p)) = p
         /\ RequestFor(p).vol = VolumeAt(p)
         /\ RequestFor(p).op \in {"Stage", "Publish"} <=> phase[p] = "goingUp"
<1> USE PathsAssumption DEF Requests, PathOf, VolumeAt
<1>1. CASE p \in Volumes /\ phase[p] = "goingUp"
  BY <1>1 DEF RequestFor, StageRequests
<1>2. CASE p \in Volumes /\ phase[p] = "goingDown"
  BY <1>2 DEF RequestFor, UnstageRequests
<1>3. CASE p \in Targets /\ phase[p] = "goingUp"
  BY <1>3 DEF RequestFor, PublishRequests
<1>4. CASE p \in Targets /\ phase[p] = "goingDown"
  BY <1>4 DEF RequestFor, UnpublishRequests
<1> QED
  BY <1>1, <1>2, <1>3, <1>4 DEF Paths

\* The path that a request is about, and its volume.
LEMMA PathOfRequest ==
  ASSUME NEW r \in Requests
  PROVE  /\ PathOf(r) \in Paths
         /\ VolumeAt(PathOf(r)) = r.vol
         /\ r.op \in {"Stage", "Unstage"} => PathOf(r) = r.vol /\ PathOf(r) \in Volumes
         /\ r.op \in {"Publish", "Unpublish"} => PathOf(r) = r.target /\ PathOf(r) \in Targets
  BY RequestFields, PathsAssumption DEF PathOf, VolumeAt, Paths

LEMMA StepOfServer ==
  ASSUME Access \in AccessTypes, [LNext]_lvars
  PROVE  [Next]_vars \/ \E c \in Calls : GiveUp(c)
<1>1. ASSUME NEW c \in Calls, NEW p \in Paths, Send(c, p)
      PROVE  Next
  BY <1>1, RequestIsForPath DEF Send, Next
<1>2. ASSUME NEW p \in Paths, BeginUp(p) \/ BeginDown(p) \/ EnsureDir(p)
      PROVE  [Next]_vars
  BY <1>2 DEF BeginUp, BeginDown, EnsureDir, Next
<1>3. ASSUME NEW c \in Calls, Run(c) \/ Answer(c)
      PROVE  Next
  BY <1>3 DEF Run, Answer, Next
<1>4. Restart => Next
  BY DEF Restart, Next
<1>5. UNCHANGED lvars => UNCHANGED vars
  BY DEF lvars
<1> QED
  BY <1>1, <1>2, <1>3, <1>4, <1>5 DEF LNext

LEMMA GiveUpKeepsServer ==
  ASSUME IInv, Answers, NEW c \in Calls, GiveUp(c)
  PROVE  IInv' /\ Answers'
<1>1. UNCHANGED <<locks, handlers, kernel, attached>> /\ faults' \in 0..MaxFaults
  BY SettingsAssumption DEF GiveUp, IInv, TypeOK
<1>2. IInv'
  BY <1>1 DEF IInv, TypeOK, LockDiscipline, StepsMatchRequest, MountsOnDirectories,
              ChecksHoldAtUse, CheckHolds, Vol, Target, LooksMounted, Shown, DeviceAt
<1>3. Answers'
  <2>1. MountedOnce' /\ FilesUncovered'
    BY <1>1 DEF Answers, MountedOnce, StagingShowsVolume, FilesUncovered
  <2>2. ASSUME NEW d \in Calls PROVE OwnDevice(d)' /\ AnswerIsTrue(d)'
    BY <1>1 DEF Answers, OwnDevice, AnswerIsTrue, Provisioned, Published, Vol, Target
  <2>3. ASSUME NEW d \in Calls PROVE Progress(d)'
    BY <1>1 DEF Answers, Progress, Vol, Target
  <2> QED
    BY <2>1, <2>2, <2>3 DEF Answers
<1> QED
  BY <1>2, <1>3

LEMMA StepKeepsServer ==
  ASSUME Access \in AccessTypes, IInv, Answers, [LNext]_lvars
  PROVE  IInv' /\ Answers'
  BY StepOfServer, GiveUpKeepsServer, NextKeepsIInv, NextKeepsAnswers

-----------------------------------------------------------------------------
(***************************************************************************)
(* The record of the CO.                                                   *)
(***************************************************************************)

\* A handler's step is about one goroutine, which stays busy with its request.
LEMMA RunFrame ==
  ASSUME IInv, NEW c \in Calls, HandlerStep(c)
  PROVE  /\ pc[c] # "idle" /\ pc'[c] # "idle"
         /\ req' = req
         /\ \A d \in Calls \ {c} : pc'[d] = pc[d] /\ code'[d] = code[d] /\ dev'[d] = dev[d]
<1>0. pc \in [Calls -> Steps] /\ code \in [Calls -> Codes]
  BY DEF IInv, TypeOK
<1>1. CASE WorkingStep(c)
  <2>1. /\ pc[c] \in Working /\ req' = req
        /\ \E s \in Working : pc' = [pc EXCEPT ![c] = s]
        /\ \A d \in Calls \ {c} : dev'[d] = dev[d]
    BY <1>1, Confined
  <2>2. UNCHANGED code \/ \E a \in Codes : code' = [code EXCEPT ![c] = a]
    BY <1>1
       DEF WorkingStep, PublishStep, CheckTarget, CheckStaging, Bind, Remount, ReadLink,
           LinkTarget, Symlink, StageStep, Attach, LinkStaging, AskMount, Mount, Populate,
           UnstageStep, FindDevice, RemoveLink, FindMount, Unmount, Unmounting, RemoveAll,
           Detach, UnpublishStep, UnmountTarget, RemoveTarget, Goto, Return, Codes
  <2> QED
    BY <1>0, <2>1, <2>2
       DEF Working, PublishSteps, StageSteps, UnstageSteps, UnpublishSteps
<1>2. CASE TryAcquire(c)
  <2>1. FirstStep(req[c]) # "idle"
    BY FirstStepWorks DEF Working, PublishSteps, StageSteps, UnstageSteps, UnpublishSteps
  <2> QED
    BY <1>0, <1>2, <2>1 DEF TryAcquire, Goto, Refuse
<1>3. CASE Validate(c) \/ Stat(c) \/ Release(c)
  BY <1>0, <1>3 DEF Validate, Stat, Release, Goto, Refuse
<1> QED
  BY <1>1, <1>2, <1>3 DEF HandlerStep, WorkingStep

\* What a busy call is about.
LEMMA BusyCall ==
  ASSUME IInv, NEW c \in Calls, pc[c] # "idle"
  PROVE  /\ req[c] \in Requests
         /\ PathOf(req[c]) \in Paths
         /\ VolumeAt(PathOf(req[c])) = Vol(c)
         /\ req[c].op \in {"Stage", "Unstage"} =>
                PathOf(req[c]) = Vol(c) /\ Vol(c) \in Volumes
         /\ req[c].op \in {"Publish", "Unpublish"} =>
                PathOf(req[c]) = Target(c) /\ Target(c) \in Targets
  BY PathOfRequest DEF IInv, TypeOK, Vol, Target

LEMMA BeginKeepsRecord ==
  ASSUME IInv, RecordMatches, NEW p \in Paths, BeginUp(p) \/ BeginDown(p)
  PROVE  RecordMatches'
<1> USE PathsAssumption DEF Paths
<1>0. /\ UNCHANGED <<vars, waiting>>
      /\ phase \in [Paths -> Phases]
      /\ phase' \in [Paths -> Phases]
      /\ \A q \in Paths \ {p} : phase'[q] = phase[q]
      /\ phase'[p] = IF BeginUp(p) THEN "goingUp" ELSE "goingDown"
  <2>1. phase \in [Paths -> Phases] /\ UNCHANGED <<vars, waiting>>
    BY DEF RecordMatches, BeginUp, BeginDown
  <2>2. \/ BeginUp(p) /\ phase' = [phase EXCEPT ![p] = "goingUp"]
        \/ ~BeginUp(p) /\ phase' = [phase EXCEPT ![p] = "goingDown"]
    BY DEF BeginUp, BeginDown, Enter
  <2> QED
    BY <2>1, <2>2 DEF Phases
<1>1. ASSUME NEW c \in waiting
      PROVE  PathOf(req[c]) # p
  <2>1. c \in Calls /\ pc[c] # "idle" /\ phase[PathOf(req[c])] \in {"goingUp", "goingDown"}
    BY DEF RecordMatches
  <2>2. BeginDown(p) => ~InFlight(VolumeAt(p))
    BY DEF BeginDown
  <2>3. VolumeAt(PathOf(req[c])) = Vol(c)
    BY <2>1, BusyCall
  <2>4. CASE phase[p] \in {"down", "up"}
    BY <2>1, <2>4
  <2>5. CASE BeginDown(p)
    BY <2>2, <2>3, <2>5 DEF InFlight
  <2> QED
    BY <2>4, <2>5 DEF BeginUp
<1>2. \A c \in waiting' :
          phase'[PathOf(req'[c])] = IF Raises(c)' THEN "goingUp" ELSE "goingDown"
  <2> SUFFICES ASSUME NEW c \in waiting
               PROVE  phase'[PathOf(req[c])] = IF Raises(c) THEN "goingUp" ELSE "goingDown"
    BY <1>0 DEF vars, Raises
  <2>1. PathOf(req[c]) \in Paths
    BY BusyCall DEF RecordMatches
  <2> QED
    BY <1>0, <1>1, <2>1 DEF RecordMatches
<1>3. ASSUME NEW t \in Targets, phase'[t] # "down"
      PROVE  phase'[VolumeOf[t]] = "up"
  <2>1. VolumeOf[t] \in Volumes /\ VolumeOf[t] # t
    OBVIOUS
  <2>2. phase[t] # "down" => phase[VolumeOf[t]] = "up"
    BY DEF RecordMatches
  <2>3. CASE p = t
    BY <1>0, <2>1, <2>2, <2>3 DEF BeginUp, BeginDown
  <2>4. CASE p = VolumeOf[t]
    BY <1>0, <1>3, <2>1, <2>2, <2>4 DEF BeginUp, BeginDown
  <2>5. CASE p # t /\ p # VolumeOf[t]
    BY <1>0, <1>3, <2>1, <2>2, <2>5
  <2> QED
    BY <2>3, <2>4, <2>5
<1> QED
  BY <1>0, <1>2, <1>3 DEF RecordMatches, vars, Vol, Raises

LEMMA SendKeepsRecord ==
  ASSUME Access \in AccessTypes, IInv, RecordMatches, NEW c \in Calls, NEW p \in Paths,
         Send(c, p)
  PROVE  RecordMatches'
<1>0. /\ pc[c] = "idle" /\ pc \in [Calls -> Steps]
      /\ pc' = [pc EXCEPT ![c] = "validate"]
      /\ req \in [Calls -> Requests \cup {NoRequest}]
      /\ req' = [req EXCEPT ![c] = RequestFor(p)]
      /\ waiting' = waiting \cup {c} /\ phase' = phase
      /\ phase[p] \in {"goingUp", "goingDown"} /\ ~InFlight(VolumeAt(p))
  BY DEF IInv, TypeOK, Send, Receive
<1>1. c \notin waiting /\ waiting \subseteq Calls
  BY <1>0 DEF RecordMatches
<1>2. /\ req'[c] = RequestFor(p)
      /\ PathOf(req'[c]) = p
      /\ req'[c].vol = VolumeAt(p)
      /\ req'[c].op \in {"Stage", "Publish"} <=> phase[p] = "goingUp"
  <2>1. req'[c] = RequestFor(p)
    BY <1>0
  <2>2. /\ PathOf(RequestFor(p)) = p
        /\ RequestFor(p).vol = VolumeAt(p)
        /\ RequestFor(p).op \in {"Stage", "Publish"} <=> phase[p] = "goingUp"
    BY <1>0, RequestIsForPath
  <2> QED
    BY <2>1, <2>2
<1>3. \A d \in Calls \ {c} : req'[d] = req[d] /\ pc'[d] = pc[d]
  BY <1>0
<1>4. ASSUME NEW d \in waiting', NEW e \in waiting', Vol(d)' = Vol(e)'
      PROVE  d = e
  BY <1>0, <1>1, <1>2, <1>3, <1>4 DEF RecordMatches, InFlight, Vol
<1>5. ASSUME NEW d \in waiting'
      PROVE  phase'[PathOf(req'[d])] = IF Raises(d)' THEN "goingUp" ELSE "goingDown"
  <2>1. CASE d = c
    BY <1>0, <1>2, <2>1 DEF Raises
  <2>2. CASE d # c
    BY <1>0, <1>1, <1>3, <2>2 DEF RecordMatches, Raises
  <2> QED
    BY <2>1, <2>2
<1>6. ASSUME NEW d \in Calls, pc'[d] # "idle", d \notin waiting'
      PROVE  req'[d].op \in Impatient
  BY <1>0, <1>3, <1>6 DEF RecordMatches
<1>7. waiting' \subseteq {d \in Calls : pc'[d] # "idle"}
  BY <1>0, <1>1, <1>3 DEF RecordMatches
<1> QED
  BY <1>0, <1>4, <1>5, <1>6, <1>7 DEF RecordMatches

LEMMA RunKeepsRecord ==
  ASSUME IInv, RecordMatches, NEW c \in Calls, Run(c)
  PROVE  RecordMatches'
<1>1. /\ pc[c] # "idle" /\ pc'[c] # "idle"
      /\ req' = req
      /\ \A d \in Calls \ {c} : pc'[d] = pc[d]
      /\ UNCHANGED <<phase, waiting>>
  BY RunFrame DEF Run
<1>2. \A d \in Calls : pc'[d] # "idle" <=> pc[d] # "idle"
  BY <1>1
<1> QED
  BY <1>1, <1>2 DEF RecordMatches, Raises, Vol

LEMMA AnswerKeepsRecord ==
  ASSUME IInv, RecordMatches, NEW c \in Calls, Answer(c)
  PROVE  RecordMatches'
<1> USE PathsAssumption DEF Paths
<1>0. /\ pc[c] = "reply"
      /\ \A d \in Calls \ {c} : pc'[d] = pc[d] /\ req'[d] = req[d]
      /\ pc'[c] = "idle"
      /\ waiting' = waiting \ {c} /\ waiting \subseteq Calls
      /\ phase \in [Paths -> Phases]
  BY DEF IInv, TypeOK, RecordMatches, Answer, Reply
<1>1. /\ PathOf(req[c]) \in Paths
      /\ VolumeAt(PathOf(req[c])) = Vol(c)
  BY <1>0, BusyCall
<1>2. \/ phase' = phase
      \/ /\ c \in waiting
         /\ \E ph \in {"up", "down"} : phase' = [phase EXCEPT ![PathOf(req[c])] = ph]
  BY DEF Answer, Enter
<1>3. phase' \in [Paths -> Phases]
  BY <1>0, <1>1, <1>2 DEF Phases
<1>4. ASSUME NEW d \in waiting'
      PROVE  phase'[PathOf(req'[d])] = IF Raises(d)' THEN "goingUp" ELSE "goingDown"
  <2>1. d \in waiting /\ d # c /\ d \in Calls /\ pc[d] # "idle" /\ req'[d] = req[d]
    BY <1>0 DEF RecordMatches
  <2>2. c \in waiting => Vol(d) # Vol(c)
    BY <2>1 DEF RecordMatches
  <2>3. PathOf(req[d]) \in Paths /\ VolumeAt(PathOf(req[d])) = Vol(d)
    BY <2>1, BusyCall
  <2>4. phase'[PathOf(req[d])] = phase[PathOf(req[d])]
    BY <1>0, <1>1, <1>2, <2>2, <2>3
  <2> QED
    BY <2>1, <2>4 DEF RecordMatches, Raises
<1>5. ASSUME NEW t \in Targets, phase'[t] # "down"
      PROVE  phase'[VolumeOf[t]] = "up"
  <2>1. VolumeOf[t] \in Paths /\ t \in Paths /\ VolumeOf[t] # t
    OBVIOUS
  <2>2. phase[t] # "down" => phase[VolumeOf[t]] = "up"
    BY DEF RecordMatches
  <2>3. CASE phase' = phase
    BY <1>5, <2>2, <2>3
  <2>4. CASE phase' # phase
    <3>1. /\ c \in waiting
          /\ phase[PathOf(req[c])] \in {"goingUp", "goingDown"}
          /\ \A q \in Paths : q # PathOf(req[c]) => phase'[q] = phase[q]
      BY <1>0, <1>2, <2>4 DEF RecordMatches
    <3>2. CASE PathOf(req[c]) = t
      BY <2>1, <2>2, <3>1, <3>2
    <3>3. CASE PathOf(req[c]) = VolumeOf[t]
      BY <1>5, <2>1, <2>2, <3>1, <3>3
    <3>4. CASE PathOf(req[c]) # t /\ PathOf(req[c]) # VolumeOf[t]
      BY <1>5, <2>1, <2>2, <3>1, <3>4
    <3> QED
      BY <3>2, <3>3, <3>4
  <2> QED
    BY <2>3, <2>4
<1>6. /\ \A d, e \in waiting' : Vol(d)' = Vol(e)' => d = e
      /\ waiting' \subseteq {d \in Calls : pc'[d] # "idle"}
      /\ \A d \in Calls : pc'[d] # "idle" /\ d \notin waiting' => req'[d].op \in Impatient
  BY <1>0 DEF RecordMatches, Vol
<1> QED
  BY <1>3, <1>4, <1>5, <1>6 DEF RecordMatches

LEMMA GiveUpKeepsRecord ==
  ASSUME IInv, RecordMatches, NEW c \in Calls, GiveUp(c)
  PROVE  RecordMatches'
<1>1. /\ UNCHANGED <<pc, req, phase>> /\ waiting' = waiting \ {c}
      /\ req[c].op \in Impatient
  BY DEF GiveUp
<1> QED
  BY <1>1 DEF RecordMatches, Raises, Vol

LEMMA StepKeepsRecord ==
  ASSUME Access \in AccessTypes, IInv, RecordMatches, [LNext]_lvars
  PROVE  RecordMatches'
<1>1. ASSUME NEW p \in Paths, EnsureDir(p)
      PROVE  RecordMatches'
  BY <1>1 DEF EnsureDir, MakeDir, RecordMatches, Raises, Vol
<1>2. CASE Restart
  BY <1>2 DEF Restart, Crash, RecordMatches
<1>3. CASE UNCHANGED lvars
  BY <1>3 DEF lvars, vars, RecordMatches, Raises, Vol
<1> QED
  BY <1>1, <1>2, <1>3, BeginKeepsRecord, SendKeepsRecord, RunKeepsRecord, AnswerKeepsRecord,
     GiveUpKeepsRecord
     DEF LNext

-----------------------------------------------------------------------------
(***************************************************************************)
(* What the steps do to the host.                                          *)
(***************************************************************************)
LEMMA TargetMounts ==
  ASSUME IInv, [Next]_vars, NEW t \in Targets
  PROVE  \/ mounts'[t] = mounts[t]
         \/ \E c \in Calls : Target(c) = t /\ (Bind(c) \/ Remount(c) \/ UnmountTarget(c))
<1>0. mounts \in [Paths -> Seq(Mounts)] /\ t \in Paths
  BY DEF IInv, TypeOK, Paths
<1>1. ASSUME NEW c \in Calls, Mount(c) \/ Unmount(c)
      PROVE  mounts'[t] = mounts[t]
  <2>1. Vol(c) # t
    BY <1>1, WorkingOnPaths, PathsAssumption DEF IInv, Mount, Unmount
  <2> QED
    BY <1>0, <1>1, <2>1 DEF Mount, Push, Unmount, Unmounting, Pop
<1>2. ASSUME NEW c \in Calls, Bind(c) \/ Remount(c) \/ UnmountTarget(c), Target(c) # t
      PROVE  mounts'[t] = mounts[t]
  BY <1>0, <1>2 DEF Bind, Push, Remount, RemountTop, UnmountTarget, Unmounting, Pop
<1>3. ASSUME NEW c \in Calls,
             \/ CheckTarget(c) \/ CheckStaging(c) \/ ReadLink(c) \/ LinkTarget(c)
             \/ Attach(c) \/ LinkStaging(c) \/ AskMount(c) \/ Populate(c)
             \/ FindDevice(c) \/ RemoveLink(c) \/ FindMount(c) \/ RemoveAll(c) \/ Detach(c)
             \/ RemoveTarget(c)
             \/ \E r \in Requests : Receive(c, r)
             \/ Validate(c) \/ Stat(c) \/ TryAcquire(c) \/ Release(c) \/ Reply(c)
      PROVE  UNCHANGED mounts
  BY <1>3 DEF CheckTarget, CheckStaging, ReadLink, LinkTarget, Attach, LinkStaging, AskMount,
              Populate, FindDevice, RemoveLink, FindMount, RemoveAll, Detach, RemoveTarget,
              Receive, Validate, Stat, TryAcquire, Release, Reply
<1>4. ASSUME (\E p \in Paths : MakeDir(p)) \/ Crash \/ UNCHANGED vars
      PROVE  UNCHANGED mounts
  BY <1>4 DEF MakeDir, Crash, vars
<1> QED
  BY <1>1, <1>2, <1>3, <1>4
     DEF Next, HandlerStep, PublishStep, StageStep, UnstageStep, UnpublishStep

\* A handler only ever takes paths away: links are for block volumes.
LEMMA HandlersRemovePaths ==
  ASSUME FileSystems, IInv, Answers, NEW c \in Calls, HandlerStep(c), NEW p \in Paths
  PROVE  \/ path'[p] = path[p]
         \/ path'[p] = "absent" /\ p = Vol(c) /\ (RemoveAll(c) \/ RemoveLink(c))
         \/ path'[p] = "absent" /\ p = Target(c) /\ RemoveTarget(c)
<1>0. path \in [Paths -> {"absent", "dir", "link"}]
  BY DEF IInv, TypeOK
<1>1. ~LinkTarget(c) /\ ~LinkStaging(c)
  <2> SUFFICES ASSUME pc[c] \in {"linkTarget", "linkStaging"} PROVE FALSE
    BY DEF LinkTarget, LinkStaging
  <2>1. req[c] \in Requests /\ req[c].access = "block"
    BY DEF IInv, TypeOK, Answers, Progress
  <2>2. req[c].op \in {"Stage", "Publish"}
    BY DEF IInv, StepsMatchRequest, PublishSteps, StageSteps
  <2> QED
    BY <2>1, <2>2
       DEF FileSystems, Requests, StageRequests, PublishRequests, UnstageRequests,
           UnpublishRequests
<1>2. CASE RemoveAll(c) \/ RemoveLink(c) \/ RemoveTarget(c)
  BY <1>0, <1>2 DEF RemoveAll, RemoveLink, RemoveTarget
<1>3. CASE \/ CheckTarget(c) \/ CheckStaging(c) \/ Bind(c) \/ Remount(c) \/ ReadLink(c)
           \/ Attach(c) \/ AskMount(c) \/ Mount(c) \/ Populate(c)
           \/ FindDevice(c) \/ FindMount(c) \/ Unmount(c) \/ Detach(c) \/ UnmountTarget(c)
           \/ Validate(c) \/ Stat(c) \/ TryAcquire(c) \/ Release(c)
  BY <1>3 DEF CheckTarget, CheckStaging, Bind, Remount, ReadLink, Attach, AskMount, Mount,
              Populate, FindDevice, FindMount, Unmount, Unmounting, Detach, UnmountTarget,
              Validate, Stat, TryAcquire, Release
<1> QED
  BY <1>1, <1>2, <1>3
     DEF HandlerStep, PublishStep, StageStep, UnstageStep, UnpublishStep

\* A call that takes something down, and that the CO has to wait for, is about what the
\* record says is going down.
LEMMA TakesDown ==
  ASSUME IInv, RecordMatches, NEW c \in Calls
  PROVE  /\ WaitsForUnstage /\ pc[c] \in UnstageSteps =>
                Vol(c) \in Volumes /\ phase[Vol(c)] = "goingDown"
         /\ WaitsForUnpublish /\ pc[c] \in UnpublishSteps =>
                Target(c) \in Targets /\ phase[Target(c)] = "goingDown"
<1>1. ASSUME pc[c] \in UnstageSteps, WaitsForUnstage
      PROVE  Vol(c) \in Volumes /\ phase[Vol(c)] = "goingDown"
  <2>1. pc[c] # "idle" /\ req[c].op = "Unstage"
    BY <1>1 DEF IInv, StepsMatchRequest, UnstageSteps
  <2> QED
    BY <1>1, <2>1, BusyCall DEF RecordMatches, Raises, WaitsForUnstage
<1>2. ASSUME pc[c] \in UnpublishSteps, WaitsForUnpublish
      PROVE  Target(c) \in Targets /\ phase[Target(c)] = "goingDown"
  <2>1. pc[c] # "idle" /\ req[c].op = "Unpublish"
    BY <1>2 DEF IInv, StepsMatchRequest, UnpublishSteps
  <2> QED
    BY <1>2, <2>1, BusyCall DEF RecordMatches, Raises, WaitsForUnpublish
<1> QED
  BY <1>1, <1>2

\* What is on a staging path stays there unless the CO takes the volume down.
LEMMA VolumeStays ==
  ASSUME FileSystems, WaitsForUnstage, IInv, RecordMatches, [LNext]_lvars,
         NEW v \in Volumes, HasVolume(v), phase[v] # "goingDown"
  PROVE  HasVolume(v)'
<1>0. \/ [Next]_vars
      \/ UNCHANGED <<mounts, files>>
  BY StepOfServer, AccessIsMount DEF GiveUp
<1>1. CASE UNCHANGED <<mounts, files>>
  BY <1>1 DEF HasVolume
<1>2. CASE [Next]_vars
  <2>1. mounts'[v] = <<>> => mounts[v] = <<>>
    <3>1. ASSUME NEW c \in Calls, Unmount(c)
          PROVE  mounts'[v] = mounts[v]
      <4>1. phase[Vol(c)] = "goingDown" /\ Vol(c) \in Volumes
        BY <3>1, TakesDown DEF Unmount, UnstageSteps
      <4> QED
        BY <3>1, <4>1 DEF Unmount, Unmounting, Pop, IInv, TypeOK, Paths
    <3>2. ASSUME NEW c \in Calls, Mount(c), mounts[v] # <<>>
          PROVE  mounts'[v] # <<>>
      <4>1. mounts \in [Paths -> Seq(Mounts)] /\ v \in Paths /\ Vol(c) \in Paths
        BY <3>2, WorkingOnPaths DEF IInv, TypeOK, Paths, Mount
      <4>2. UNCHANGED mounts \/ Push(Vol(c), SourceShows)
        BY <3>2 DEF Mount
      <4>3. CASE Push(Vol(c), SourceShows) /\ v = Vol(c)
        BY <4>1, <4>3, ShownAfterPush DEF SourceShows
      <4>4. CASE Push(Vol(c), SourceShows) /\ v # Vol(c)
        BY <3>2, <4>1, <4>4 DEF Push
      <4> QED
        BY <3>2, <4>2, <4>3, <4>4
    <3> QED
      BY <1>2, <3>1, <3>2, StagingMounts
  <2>2. v \in files => v \in files'
    <3>1. ASSUME NEW c \in Calls, RemoveAll(c)
          PROVE  v \in files => v \in files'
      <4>1. phase[Vol(c)] = "goingDown"
        BY <3>1, TakesDown DEF RemoveAll, UnstageSteps
      <4> QED
        BY <3>1, <4>1 DEF RemoveAll
    <3>2. ASSUME NEW c \in Calls, Populate(c)
          PROVE  v \in files => v \in files'
      BY <3>2 DEF Populate
    <3> QED
      BY <1>2, <3>1, <3>2, FilesChange
  <2> QED
    BY <2>1, <2>2 DEF HasVolume
<1> QED
  BY <1>0, <1>1, <1>2

\* What is on a target stays there unless the CO takes the target down.
LEMMA TargetStays ==
  ASSUME FileSystems, WaitsForUnpublish, IInv, RecordMatches, [LNext]_lvars,
         NEW t \in Targets, mounts[t] # <<>>, phase[t] # "goingDown"
  PROVE  mounts'[t] # <<>>
<1>0. \/ [Next]_vars
      \/ UNCHANGED mounts
  BY StepOfServer, AccessIsMount DEF GiveUp
<1>1. ASSUME NEW c \in Calls, UnmountTarget(c), Target(c) = t
      PROVE  FALSE
  BY <1>1, TakesDown DEF UnmountTarget, UnpublishSteps
<1>2. ASSUME NEW c \in Calls, Bind(c) \/ Remount(c), Target(c) = t
      PROVE  mounts'[t] # <<>>
  <2>0. /\ mounts \in [Paths -> Seq(Mounts)] /\ t \in Paths /\ Vol(c) \in Paths
        /\ req[c].readOnly \in BOOLEAN
    BY <1>2, WorkingOnPaths DEF IInv, TypeOK, Paths, Bind, Remount, PublishSteps
  <2>1. CASE UNCHANGED mounts
    BY <2>1
  <2>2. CASE Push(t, Shown(Vol(c)))
    BY <2>0, <2>2, ShownIsFileSystem, ShownAfterPush
  <2>3. CASE RemountTop(t, req[c].readOnly)
    <3>1. Front(mounts[t]) \in Seq(Mounts)
      BY <2>0, FrontIsStack
    <3>2. [Last(mounts[t]) EXCEPT !.readOnly = req[c].readOnly] \in Mounts
      BY <2>0, LastIsMount DEF Mounts
    <3>3. Append(Front(mounts[t]), [Last(mounts[t]) EXCEPT !.readOnly = req[c].readOnly]) # <<>>
      BY <3>1, <3>2, AppendedMount
    <3> QED
      BY <2>0, <2>3, <3>3, Zenon DEF RemountTop
  <2> QED
    BY <1>2, <2>1, <2>2, <2>3 DEF Bind, Remount
<1> QED
  BY <1>0, <1>1, <1>2, TargetMounts

\* The handlers make links, and no directories.
LEMMA HandlersMakeNoDirectory ==
  ASSUME IInv, NEW c \in Calls, HandlerStep(c), NEW p \in Paths, path[p] # "dir"
  PROVE  path'[p] # "dir"
<1>0. path \in [Paths -> {"absent", "dir", "link"}]
  BY DEF IInv, TypeOK
<1>1. CASE \/ RemoveAll(c) \/ RemoveLink(c) \/ RemoveTarget(c)
           \/ LinkTarget(c) \/ LinkStaging(c)
  BY <1>0, <1>1 DEF RemoveAll, RemoveLink, RemoveTarget, LinkTarget, LinkStaging, Symlink
<1>2. CASE \/ CheckTarget(c) \/ CheckStaging(c) \/ Bind(c) \/ Remount(c) \/ ReadLink(c)
           \/ Attach(c) \/ AskMount(c) \/ Mount(c) \/ Populate(c)
           \/ FindDevice(c) \/ FindMount(c) \/ Unmount(c) \/ Detach(c) \/ UnmountTarget(c)
           \/ Validate(c) \/ Stat(c) \/ TryAcquire(c) \/ Release(c)
  BY <1>2 DEF CheckTarget, CheckStaging, Bind, Remount, ReadLink, Attach, AskMount, Mount,
              Populate, FindDevice, FindMount, Unmount, Unmounting, Detach, UnmountTarget,
              Validate, Stat, TryAcquire, Release
<1> QED
  BY <1>1, <1>2 DEF HandlerStep, PublishStep, StageStep, UnstageStep, UnpublishStep

\* Only the CO makes a target, and only to publish on it.
LEMMA NoDirectoryStays ==
  ASSUME IInv, [LNext]_lvars, NEW t \in Targets, path[t] # "dir", phase[t] # "goingUp"
  PROVE  path'[t] # "dir"
<1>0. t \in Paths /\ path \in [Paths -> {"absent", "dir", "link"}]
  BY DEF IInv, TypeOK, Paths
<1>1. ASSUME NEW c \in Calls, Run(c)
      PROVE  path'[t] # "dir"
  BY <1>0, <1>1, HandlersMakeNoDirectory DEF Run
<1>2. ASSUME NEW p \in Paths, EnsureDir(p)
      PROVE  path'[t] # "dir"
  BY <1>0, <1>2 DEF EnsureDir, MakeDir
<1>3. \/ \E p \in Paths : BeginUp(p) \/ BeginDown(p)
      \/ \E c \in Calls : (\E p \in Paths : Send(c, p)) \/ Answer(c) \/ GiveUp(c)
      => UNCHANGED path
  BY DEF BeginUp, BeginDown, vars, Send, Receive, Answer, Reply, GiveUp
<1>4. CASE Restart \/ UNCHANGED lvars
  BY <1>4 DEF Restart, Crash, lvars, vars
<1> QED
  BY <1>0, <1>1, <1>2, <1>3, <1>4 DEF LNext

-----------------------------------------------------------------------------
(***************************************************************************)
(* What the record says of the host stays true.                            *)
(***************************************************************************)

\* A staging path on which the volume is shows it.
LEMMA StagedPathShows ==
  ASSUME IInv, Answers, NEW v \in Volumes, HasVolume(v)
  PROVE  Shown(v) = StagedShows
<1>0. mounts[v] \in Seq(Mounts)
  BY DEF IInv, TypeOK, Paths
<1>1. CASE MountsSources
  <2>1. mounts[v] # <<>>
    BY <1>1 DEF HasVolume, Answers, FilesUncovered
  <2>2. Last(mounts[v]).fs = SourceShows
    BY <1>0, <2>1 DEF Answers, MountedOnce, StagingShowsVolume, Last
  <2> QED
    BY <1>1, <2>1, <2>2 DEF Shown, StagedShows
<1>2. CASE ~MountsSources
  BY <1>2 DEF Answers, FilesUncovered, Shown, StagedShows
<1> QED
  BY <1>1, <1>2

\* All but the last of a stack of mounts.
LEMMA FrontOfStack ==
  ASSUME NEW s \in Seq(Mounts), s # <<>>
  PROVE  /\ Front(s) \in Seq(Mounts)
         /\ Len(Front(s)) = Len(s) - 1
         /\ \A j \in 1 .. (Len(s) - 1) : Front(s)[j] = s[j]
<1>1. Len(s) \in Nat /\ Len(s) # 0 /\ Front(s) = SubSeq(s, 1, Len(s) - 1)
  BY DEF Front
<1>2. Front(s) \in Seq(Mounts)
  BY FrontIsStack
<1>3. Len(SubSeq(s, 1, Len(s) - 1)) = Len(s) - 1
  <2>1. \A n \in Nat : n <= Len(s) => Len(SubSeq(s, 1, n)) = n
    OBVIOUS
  <2> QED
    <3>1. (Len(s) - 1) \in Nat /\ (Len(s) - 1) <= Len(s)
      BY <1>1
    <3> QED
      BY <2>1, <3>1, Zenon
<1>4. \A j \in 1 .. (Len(s) - 1) : SubSeq(s, 1, Len(s) - 1)[j] = s[j]
  BY <1>1
<1> QED
  BY <1>1, <1>2, <1>3, <1>4

\* Only what is a directory is bound, which the CO has not made of a target that is
\* down: the volume of the target is up.
LEMMA BindsStaged ==
  ASSUME IInv, Answers, RecordMatches, DownIsNoDirectory, UpIsThere,
         NEW c \in Calls, Bind(c), CanMountOn(Target(c))
  PROVE  Shown(Vol(c)) = StagedShows
<1>1. Target(c) \in Targets /\ VolumeOf[Target(c)] = Vol(c) /\ Vol(c) \in Volumes
  BY WorkingOnPaths DEF IInv, Bind, PublishSteps
<1>2. phase[Target(c)] # "down"
  BY <1>1 DEF DownIsNoDirectory, CanMountOn
<1>3. HasVolume(Vol(c))
  BY <1>1, <1>2 DEF RecordMatches, UpIsThere
<1> QED
  BY <1>1, <1>3, StagedPathShows

LEMMA StepKeepsTargetsShow ==
  ASSUME FileSystems, IInv, Answers, LInv, [LNext]_lvars
  PROVE  TargetsShowVolume'
<1> SUFFICES ASSUME NEW t \in Targets, NEW i \in 1 .. Len(mounts'[t])
             PROVE  mounts'[t][i].fs = StagedShows
  BY DEF TargetsShowVolume, StagedShows
<1>0. mounts[t] \in Seq(Mounts) /\ t \in Paths /\ mounts \in [Paths -> Seq(Mounts)]
  BY DEF IInv, TypeOK, Paths
<1>1. \A j \in 1 .. Len(mounts[t]) : mounts[t][j].fs = StagedShows
  BY DEF LInv, TargetsShowVolume
<1>2. \/ [Next]_vars
      \/ UNCHANGED mounts
  BY StepOfServer, AccessIsMount DEF GiveUp
<1>3. CASE mounts'[t] = mounts[t]
  BY <1>1, <1>3
<1>4. ASSUME NEW c \in Calls, Bind(c), Target(c) = t
      PROVE  mounts'[t][i].fs = StagedShows
  <2>1. CASE CanMountOn(t) /\ Push(t, Shown(Vol(c)))
    <3>1. Shown(Vol(c)) = StagedShows
      BY <1>4, <2>1, BindsStaged DEF LInv, RInv
    <3>2. [fs |-> StagedShows, readOnly |-> FALSE] \in Mounts
      BY DEF Mounts, StagedShows, SourceShows
    <3>3. mounts'[t] = Append(mounts[t], [fs |-> StagedShows, readOnly |-> FALSE])
      BY <1>0, <2>1, <3>1 DEF Push
    <3>4. CASE i = Len(mounts[t]) + 1
      BY <1>0, <3>2, <3>3, <3>4
    <3>5. CASE i \in 1 .. Len(mounts[t])
      BY <1>0, <1>1, <3>2, <3>3, <3>5
    <3> QED
      BY <1>0, <3>2, <3>3, <3>4, <3>5
  <2> QED
    BY <1>3, <1>4, <2>1 DEF Bind
<1>5. ASSUME NEW c \in Calls, Remount(c), Target(c) = t
      PROVE  mounts'[t][i].fs = StagedShows
  <2>1. CASE RemountTop(t, req[c].readOnly)
    <3>1. mounts[t] # <<>> /\ req[c].readOnly \in BOOLEAN
      BY <1>5, WorkingOnPaths DEF Remount, IInv, ChecksHoldAtUse, CheckHolds, PublishSteps
    <3> DEFINE m == [Last(mounts[t]) EXCEPT !.readOnly = req[c].readOnly]
    <3>2. Len(mounts[t]) \in Nat \ {0}
      BY <1>0, <3>1
    <3>3. m \in Mounts /\ m.fs = StagedShows
      <4>1. Last(mounts[t]) \in Mounts
        BY <1>0, <3>1, LastIsMount
      <4>2. Last(mounts[t]).fs = StagedShows
        BY <1>1, <3>2 DEF Last
      <4> QED
        BY <3>1, <4>1, <4>2 DEF Mounts
    <3>4. mounts'[t] = Append(Front(mounts[t]), m)
      BY <1>0, <2>1, Zenon DEF RemountTop
    <3>5. /\ Front(mounts[t]) \in Seq(Mounts)
          /\ Len(Front(mounts[t])) = Len(mounts[t]) - 1
          /\ \A j \in 1 .. (Len(mounts[t]) - 1) : Front(mounts[t])[j] = mounts[t][j]
      BY <1>0, <3>1, FrontOfStack
    <3> HIDE DEF m
    <3>6. CASE i = Len(mounts[t])
      BY <3>2, <3>3, <3>4, <3>5, <3>6
    <3>7. CASE i \in 1 .. (Len(mounts[t]) - 1)
      <4>1. mounts'[t][i] = mounts[t][i]
        BY <3>2, <3>3, <3>4, <3>5, <3>7
      <4> QED
        BY <1>1, <3>2, <3>7, <4>1
    <3>8. Len(mounts'[t]) = Len(mounts[t])
      BY <3>2, <3>3, <3>4, <3>5
    <3> QED
      BY <3>2, <3>6, <3>7, <3>8
  <2> QED
    BY <1>3, <1>5, <2>1 DEF Remount
<1>6. ASSUME NEW c \in Calls, UnmountTarget(c), Target(c) = t
      PROVE  mounts'[t][i].fs = StagedShows
  <2>1. CASE mounts[t] # <<>> /\ Pop(t)
    <3>1. mounts'[t] = SubSeq(mounts[t], 1, Len(mounts[t]) - 1)
      BY <1>0, <2>1 DEF Pop, Front
    <3>2. i \in 1 .. Len(mounts[t]) /\ mounts'[t][i] = mounts[t][i]
      BY <1>0, <2>1, <3>1
    <3> QED
      BY <1>1, <3>2
  <2> QED
    BY <1>3, <1>6, <2>1 DEF UnmountTarget, Unmounting
<1> QED
  BY <1>2, <1>3, <1>4, <1>5, <1>6, TargetMounts

\* A handler that comes to answer OK is about to release its lock; Unpublish has just
\* removed the target.
LEMMA NewOK ==
  ASSUME IInv, NEW c \in Calls, HandlerStep(c), code[c] # "OK", code'[c] = "OK"
  PROVE  pc'[c] = "release" /\ (req[c].op = "Unpublish" => RemoveTarget(c))
<1> USE DEF Goto, Return, Refuse
<1>0. pc \in [Calls -> Steps] /\ code \in [Calls -> Codes]
  BY DEF IInv, TypeOK
<1>1. CASE Validate(c) \/ Stat(c) \/ TryAcquire(c) \/ Release(c)
  BY <1>0, <1>1 DEF Validate, Stat, TryAcquire, Release
<1>2. CASE PublishStep(c)
  <2>1. req[c].op = "Publish"
    BY <1>2 DEF IInv, StepsMatchRequest, PublishSteps, PublishStep, CheckTarget, CheckStaging,
                Bind, Remount, ReadLink, LinkTarget
  <2> QED
    BY <1>0, <1>2, <2>1
       DEF PublishStep, CheckTarget, CheckStaging, Bind, Remount, ReadLink, LinkTarget, Symlink
<1>3. CASE StageStep(c)
  <2>1. req[c].op = "Stage"
    BY <1>3 DEF IInv, StepsMatchRequest, StageSteps, StageStep, Attach, LinkStaging, AskMount,
                Mount, Populate
  <2> QED
    BY <1>0, <1>3, <2>1
       DEF StageStep, Attach, AfterAttach, LinkStaging, Symlink, AskMount, Mount, Populate
<1>4. CASE UnstageStep(c)
  <2>1. req[c].op = "Unstage"
    BY <1>4 DEF IInv, StepsMatchRequest, UnstageSteps, UnstageStep, FindDevice, RemoveLink,
                FindMount, Unmount, RemoveAll, Detach
  <2> QED
    BY <1>0, <1>4, <2>1
       DEF UnstageStep, FindDevice, RemoveLink, FindMount, Unmount, Unmounting, RemoveAll, Detach
<1>5. CASE UnpublishStep(c)
  BY <1>0, <1>5 DEF UnpublishStep, UnmountTarget, Unmounting, RemoveTarget
<1> QED
  BY <1>1, <1>2, <1>3, <1>4, <1>5 DEF HandlerStep

\* Requests are for file systems.
LEMMA ForMount ==
  ASSUME FileSystems, IInv, NEW c \in Calls, pc[c] # "idle", Raises(c)
  PROVE  req[c].access = "mount"
<1>1. req[c] \in Requests
  BY DEF IInv, TypeOK
<1> QED
  BY <1>1
     DEF FileSystems, Raises, Requests, StageRequests, PublishRequests, UnstageRequests,
         UnpublishRequests

\* The OK that the CO waits for has been there before, or the handler has just come to it.
LEMMA ArrivingOK ==
  ASSUME IInv, RecordMatches, RecordMatches', [LNext]_lvars, NEW c \in waiting',
         code'[c] = "OK"
  PROVE  \/ c \in waiting /\ code[c] = "OK" /\ req'[c] = req[c]
         \/ HandlerStep(c) /\ code[c] # "OK"
<1>0. waiting \subseteq Calls /\ c \in Calls /\ pc'[c] # "idle"
  BY DEF RecordMatches
<1>1. ASSUME NEW p \in Paths, BeginUp(p) \/ BeginDown(p) \/ EnsureDir(p)
      PROVE  c \in waiting /\ code[c] = "OK" /\ req'[c] = req[c]
  BY <1>1 DEF BeginUp, BeginDown, EnsureDir, MakeDir, vars
<1>2. ASSUME NEW d \in Calls, NEW p \in Paths, Send(d, p)
      PROVE  c \in waiting /\ code[c] = "OK" /\ req'[c] = req[c]
  <2>1. code \in [Calls -> Codes] /\ req \in [Calls -> Requests \cup {NoRequest}]
    BY DEF IInv, TypeOK
  <2>2. c # d
    BY <1>2, <2>1 DEF Send, Receive
  <2> QED
    BY <1>0, <1>2, <2>1, <2>2 DEF Send, Receive
<1>3. ASSUME NEW d \in Calls, Run(d)
      PROVE  \/ c \in waiting /\ code[c] = "OK" /\ req'[c] = req[c]
             \/ HandlerStep(c) /\ code[c] # "OK"
  BY <1>0, <1>3, RunFrame DEF Run
<1>4. ASSUME NEW d \in Calls, Answer(d)
      PROVE  c \in waiting /\ code[c] = "OK" /\ req'[c] = req[c]
  <2>1. c # d /\ c \in waiting
    BY <1>4 DEF Answer
  <2> QED
    BY <1>0, <1>4, <2>1 DEF Answer, Reply, IInv, TypeOK
<1>5. ASSUME NEW d \in Calls, GiveUp(d)
      PROVE  c \in waiting /\ code[c] = "OK" /\ req'[c] = req[c]
  BY <1>5 DEF GiveUp
<1>6. ~Restart
  BY DEF Restart
<1>7. CASE UNCHANGED lvars
  BY <1>7 DEF lvars, vars
<1> QED
  BY <1>1, <1>2, <1>3, <1>4, <1>5, <1>6, <1>7 DEF LNext

LEMMA StepKeepsUnpublished ==
  ASSUME Access \in AccessTypes, IInv, RInv, [LNext]_lvars
  PROVE  UnpublishedArrives'
<1> SUFFICES ASSUME NEW c \in waiting', code'[c] = "OK", req'[c].op = "Unpublish"
             PROVE  path'[Target(c)'] # "dir"
  BY DEF UnpublishedArrives
<1>0. RecordMatches /\ RecordMatches' /\ c \in Calls
  BY StepKeepsRecord DEF RInv, RecordMatches
<1>1. CASE c \in waiting /\ code[c] = "OK" /\ req'[c] = req[c]
  <2>1. pc[c] # "idle" /\ phase[PathOf(req[c])] = "goingDown"
    BY <1>0, <1>1 DEF RecordMatches, Raises
  <2>2. Target(c) \in Targets /\ phase[Target(c)] # "goingUp" /\ path[Target(c)] # "dir"
    BY <1>0, <1>1, <2>1, BusyCall DEF RInv, UnpublishedArrives
  <2>3. path'[Target(c)] # "dir"
    BY <2>2, NoDirectoryStays
  <2> QED
    BY <1>1, <2>3 DEF Target
<1>2. CASE HandlerStep(c) /\ code[c] # "OK"
  <2>1. req' = req /\ pc[c] # "idle" /\ pc'[c] = "release" /\ RemoveTarget(c)
    BY <1>0, <1>2, NewOK, RunFrame
  <2>2. Target(c) \in Paths /\ path \in [Paths -> {"absent", "dir", "link"}]
    BY <1>0, <2>1, BusyCall DEF IInv, TypeOK, Paths
  <2>3. path'[Target(c)] # "dir"
    BY <1>0, <2>1, <2>2 DEF RemoveTarget, Return, IInv, TypeOK
  <2> QED
    BY <2>1, <2>3 DEF Target
<1> QED
  BY <1>0, <1>1, <1>2, ArrivingOK

LEMMA StepKeepsOK ==
  ASSUME FileSystems, WaitsForUnstage, IInv, Answers, LInv, [LNext]_lvars
  PROVE  OKArrives'
<1> SUFFICES ASSUME NEW c \in waiting', code'[c] = "OK"
             PROVE  OKHolds(c)'
  BY DEF OKArrives, OKHolds
<1>0. /\ RecordMatches /\ RecordMatches'
      /\ IInv' /\ Answers'
  BY StepKeepsServer, AccessIsMount, StepKeepsRecord DEF LInv, RInv
<1>1. c \in Calls /\ pc'[c] # "idle"
  BY <1>0 DEF RecordMatches
<1>2. \/ c \in waiting /\ code[c] = "OK" /\ req'[c] = req[c]
      \/ HandlerStep(c) /\ code[c] # "OK"
  BY <1>0, ArrivingOK
<1>3. CASE c \in waiting /\ code[c] = "OK" /\ req'[c] = req[c]
  <2>1. /\ pc[c] # "idle"
        /\ phase[PathOf(req[c])] = IF Raises(c) THEN "goingUp" ELSE "goingDown"
    BY <1>0, <1>3 DEF RecordMatches
  <2>2. OKHolds(c)
    BY <1>3 DEF LInv, OKArrives
  <2>3. CASE req[c].op = "Stage"
    <3>1. Vol(c) \in Volumes /\ phase[Vol(c)] # "goingDown"
      BY <1>1, <2>1, <2>3, BusyCall DEF Raises
    <3>2. HasVolume(Vol(c))
      BY <1>3, <2>2, <2>3 DEF OKHolds
    <3>3. HasVolume(Vol(c))'
      <4> DEFINE v == Vol(c)
      <4>1. v \in Volumes /\ HasVolume(v) /\ phase[v] # "goingDown"
        BY <3>1, <3>2
      <4> HIDE DEF v
      <4>2. mounts'[v] # <<>> \/ v \in files'
        BY <1>0, <4>1, VolumeStays DEF HasVolume
      <4> QED
        BY <1>3, <4>2 DEF HasVolume, Vol, v
    <3> QED
      BY <1>3, <2>3, <3>3 DEF OKHolds
  <2>4. CASE req[c].op = "Publish" /\ WaitsForUnpublish
    <3>1. Target(c) \in Targets /\ phase[Target(c)] # "goingDown" /\ mounts[Target(c)] # <<>>
      BY <1>1, <1>3, <2>1, <2>2, <2>4, BusyCall DEF Raises, OKHolds
    <3>2. mounts'[Target(c)] # <<>>
      BY <1>0, <2>4, <3>1, TargetStays
    <3> QED
      BY <1>3, <2>4, <3>2 DEF OKHolds, Target
  <2> QED
    BY <1>3, <2>3, <2>4 DEF OKHolds
<1>4. CASE HandlerStep(c) /\ code[c] # "OK"
  <2>1. pc'[c] = "release" /\ req' = req /\ pc[c] # "idle"
    BY <1>1, <1>4, NewOK, RunFrame
  <2>2. AnswerIsTrue(c)'
    BY <1>0, <1>1 DEF Answers
  <2>3. Raises(c) => req[c].access = "mount"
    BY <1>1, <2>1, ForMount
  <2>4. CASE req[c].op = "Stage"
    BY <2>1, <2>2, <2>3, <2>4 DEF AnswerIsTrue, Provisioned, OKHolds, HasVolume, Vol, Raises
  <2>5. CASE req[c].op = "Publish"
    BY <2>1, <2>2, <2>3, <2>5 DEF AnswerIsTrue, Published, OKHolds, Target, Raises
  <2> QED
    BY <2>1, <2>4, <2>5 DEF OKHolds
<1> QED
  BY <1>2, <1>3, <1>4

\* How the record of a path comes to say down or up.
LEMMA RecordChange ==
  ASSUME RecordMatches, IInv, [LNext]_lvars, NEW p \in Paths,
         phase'[p] \in {"up", "down"}, phase'[p] # phase[p]
  PROVE  \E c \in Calls :
             /\ Answer(c) /\ c \in waiting /\ code[c] = "OK" /\ p = PathOf(req[c])
             /\ req[c].op \in {"Stage", "Publish"} <=> phase'[p] = "up"
<1>0. phase \in [Paths -> Phases]
  BY DEF RecordMatches
<1>1. ASSUME NEW q \in Paths, BeginUp(q) \/ BeginDown(q)
      PROVE  FALSE
  BY <1>0, <1>1 DEF BeginUp, BeginDown, Enter
<1>2. ASSUME NEW c \in Calls, NEW q \in Paths, Send(c, q)
      PROVE  FALSE
  BY <1>2 DEF Send
<1>3. ASSUME NEW q \in Paths, EnsureDir(q)
      PROVE  FALSE
  BY <1>3 DEF EnsureDir
<1>4. ASSUME NEW c \in Calls, Run(c) \/ GiveUp(c)
      PROVE  FALSE
  BY <1>4 DEF Run, GiveUp
<1>5. CASE Restart \/ UNCHANGED lvars
  BY <1>5 DEF Restart, lvars
<1>6. ASSUME NEW c \in Calls, Answer(c)
      PROVE  /\ c \in waiting /\ code[c] = "OK" /\ p = PathOf(req[c])
             /\ req[c].op \in {"Stage", "Publish"} <=> phase'[p] = "up"
  BY <1>0, <1>6 DEF Answer, Enter
<1> QED
  BY <1>1, <1>2, <1>3, <1>4, <1>5, <1>6 DEF LNext

LEMMA StepKeepsNoDirectory ==
  ASSUME IInv, RInv, [LNext]_lvars
  PROVE  DownIsNoDirectory'
<1> SUFFICES ASSUME NEW t \in Targets, phase'[t] = "down"
             PROVE  path'[t] # "dir"
  BY DEF DownIsNoDirectory
<1>0. RecordMatches /\ t \in Paths /\ t \notin Volumes
  BY PathsAssumption DEF RInv, Paths
<1>1. CASE phase[t] = "down"
  BY <1>0, <1>1, NoDirectoryStays DEF RInv, DownIsNoDirectory
<1>2. CASE phase[t] # "down"
  <2>1. PICK c \in Calls :
            /\ Answer(c) /\ c \in waiting /\ code[c] = "OK" /\ t = PathOf(req[c])
            /\ req[c].op \notin {"Stage", "Publish"}
    BY <1>0, <1>2, RecordChange
  <2>2. pc[c] # "idle" /\ path' = path
    BY <2>1 DEF Answer, Reply
  <2>3. req[c].op = "Unpublish" /\ t = Target(c)
    BY <1>0, <2>1, <2>2, BusyCall, RequestFields
  <2> QED
    BY <2>1, <2>2, <2>3 DEF RInv, UnpublishedArrives
<1> QED
  BY <1>1, <1>2

LEMMA StepKeepsRInv ==
  ASSUME Access \in AccessTypes, IInv, RInv, [LNext]_lvars
  PROVE  RInv'
  BY StepKeepsRecord, StepKeepsNoDirectory, StepKeepsUnpublished DEF RInv

LEMMA StepKeepsUp ==
  ASSUME FileSystems, WaitsForUnstage, IInv, Answers, LInv, [LNext]_lvars
  PROVE  UpIsThere'
<1>0. RecordMatches
  BY DEF LInv, RInv
<1>1. ASSUME NEW v \in Volumes, phase'[v] = "up"
      PROVE  HasVolume(v)'
  <2>0. v \in Paths /\ v \notin Targets
    BY PathsAssumption DEF Paths
  <2>1. CASE phase[v] = "up"
    BY <1>0, <2>1, VolumeStays DEF LInv, UpIsThere
  <2>2. CASE phase[v] # "up"
    <3>1. PICK c \in Calls :
              /\ Answer(c) /\ c \in waiting /\ code[c] = "OK" /\ v = PathOf(req[c])
              /\ req[c].op \in {"Stage", "Publish"}
      BY <1>0, <1>1, <2>0, <2>2, RecordChange
    <3>2. pc[c] # "idle" /\ UNCHANGED <<mounts, files>>
      BY <3>1 DEF Answer, Reply
    <3>3. req[c].op = "Stage" /\ v = Vol(c)
      BY <2>0, <3>1, <3>2, BusyCall
    <3> QED
      BY <3>1, <3>2, <3>3 DEF LInv, OKArrives, OKHolds, HasVolume
  <2> QED
    BY <2>1, <2>2
<1>2. ASSUME WaitsForUnpublish, NEW t \in Targets, phase'[t] = "up"
      PROVE  mounts'[t] # <<>>
  <2>0. t \in Paths /\ t \notin Volumes
    BY PathsAssumption DEF Paths
  <2>1. CASE phase[t] = "up"
    BY <1>0, <1>2, <2>1, TargetStays DEF LInv, UpIsThere
  <2>2. CASE phase[t] # "up"
    <3>1. PICK c \in Calls :
              /\ Answer(c) /\ c \in waiting /\ code[c] = "OK" /\ t = PathOf(req[c])
              /\ req[c].op \in {"Stage", "Publish"}
      BY <1>0, <1>2, <2>0, <2>2, RecordChange
    <3>2. pc[c] # "idle" /\ UNCHANGED mounts
      BY <3>1 DEF Answer, Reply
    <3>3. req[c].op = "Publish" /\ t = Target(c)
      BY <2>0, <3>1, <3>2, BusyCall
    <3> QED
      BY <1>2, <3>1, <3>2, <3>3 DEF LInv, OKArrives, OKHolds
  <2> QED
    BY <2>1, <2>2
<1> QED
  BY <1>1, <1>2 DEF UpIsThere

LEMMA StepKeepsNoLinks ==
  ASSUME FileSystems, IInv, Answers, NoLinks, [LNext]_lvars
  PROVE  NoLinks'
<1> SUFFICES ASSUME NEW p \in Paths PROVE path'[p] # "link"
  BY DEF NoLinks
<1>0. path[p] # "link" /\ path \in [Paths -> {"absent", "dir", "link"}]
  BY DEF NoLinks, IInv, TypeOK
<1>1. ASSUME NEW c \in Calls, Run(c)
      PROVE  path'[p] # "link"
  <2>1. path'[p] = path[p] \/ path'[p] = "absent"
    BY <1>1, HandlersRemovePaths DEF Run
  <2> QED
    BY <1>0, <2>1
<1>2. ASSUME NEW q \in Paths, EnsureDir(q)
      PROVE  path'[p] # "link"
  BY <1>0, <1>2 DEF EnsureDir, MakeDir
<1>3. \/ \E q \in Paths : BeginUp(q) \/ BeginDown(q)
      \/ \E c \in Calls : (\E q \in Paths : Send(c, q)) \/ Answer(c) \/ GiveUp(c)
      => UNCHANGED path
  BY DEF BeginUp, BeginDown, vars, Send, Receive, Answer, Reply, GiveUp
<1>4. CASE Restart \/ UNCHANGED lvars
  BY <1>0, <1>4 DEF Restart, Crash, lvars, vars
<1> QED
  BY <1>0, <1>1, <1>2, <1>3, <1>4 DEF LNext

LEMMA InitEstablishesLInv == LInit => IInv /\ Answers /\ LInv /\ NoLinks
<1> SUFFICES ASSUME LInit PROVE IInv /\ Answers /\ LInv /\ NoLinks
  OBVIOUS
<1>1. IInv /\ Answers
  BY InitEstablishesIInv, InitAnswers DEF LInit
<1>2. LInv /\ NoLinks
  BY PathsAssumption
     DEF LInit, Init, LInv, RInv, RecordMatches, DownIsNoDirectory, UnpublishedArrives,
         TargetsShowVolume, UpIsThere, OKArrives, NoLinks, Paths, Phases
<1> QED
  BY <1>1, <1>2

LEMMA StepKeepsLInv ==
  ASSUME FileSystems, WaitsForUnstage, IInv, Answers, LInv, [LNext]_lvars
  PROVE  LInv'
  BY AccessIsMount, StepKeepsRInv, StepKeepsTargetsShow, StepKeepsUp, StepKeepsOK DEF LInv

LEMMA RInvHolds == ASSUME AccessTypes # {} PROVE LSpec => [](IInv /\ Answers /\ RInv)
<1>1. IInv /\ Answers /\ RInv /\ [LNext]_lvars => (IInv /\ Answers /\ RInv)'
  <2>1. Access \in AccessTypes
    BY DEF Access
  <2> QED
    BY <2>1, StepKeepsServer, StepKeepsRInv
<1>2. LInit => IInv /\ Answers /\ RInv
  BY InitEstablishesLInv DEF LInv
<1> QED
  BY <1>1, <1>2, PTL DEF LSpec

LEMMA LInvHolds ==
  ASSUME FileSystems, WaitsForUnstage
  PROVE  LSpec => [](IInv /\ Answers /\ LInv)
<1>1. IInv /\ Answers /\ LInv /\ [LNext]_lvars => (IInv /\ Answers /\ LInv)'
  BY AccessIsMount, StepKeepsServer, StepKeepsLInv
<1> QED
  BY <1>1, InitEstablishesLInv, PTL DEF LSpec

\* The record of the CO stays well typed, however impatient it is.
LEMMA RecordStaysTyped ==
  ASSUME IInv, phase \in [Paths -> Phases], waiting \subseteq {c \in Calls : pc[c] # "idle"},
         loose \subseteq attached, [LNext]_lvars
  PROVE  /\ phase' \in [Paths -> Phases]
         /\ waiting' \subseteq {c \in Calls : pc'[c] # "idle"}
         /\ loose' \subseteq attached'
<1>1. phase' \in [Paths -> Phases]
  <2>1. UNCHANGED phase \/ \E p, ph : ph \in Phases /\ Enter(p, ph)
    BY DEF LNext, BeginUp, BeginDown, EnsureDir, Send, Run, Answer, GiveUp, Restart, lvars,
           Phases
  <2> QED
    BY <2>1 DEF Enter
<1>2. ASSUME NEW c \in Calls, Answer(c)
      PROVE  \A d \in waiting' : pc'[d] # "idle"
  BY <1>2 DEF Answer, Reply, IInv, TypeOK
<1>3. ASSUME NEW c \in Calls, NEW p \in Paths, Send(c, p)
      PROVE  \A d \in waiting' : d \in Calls /\ pc'[d] # "idle"
  BY <1>3 DEF Send, Receive, Goto, IInv, TypeOK
<1>4. ASSUME NEW c \in Calls, Run(c)
      PROVE  \A d \in waiting' : pc'[d] # "idle"
  BY <1>4, RunFrame DEF Run
<1>5. ASSUME NEW p \in Paths, BeginUp(p) \/ BeginDown(p) \/ EnsureDir(p)
      PROVE  UNCHANGED <<pc, waiting>>
  BY <1>5 DEF BeginUp, BeginDown, EnsureDir, MakeDir, vars
<1>6. ASSUME (\E c \in Calls : GiveUp(c)) \/ Restart \/ UNCHANGED lvars
      PROVE  \A d \in waiting' : pc'[d] # "idle"
  BY <1>6 DEF GiveUp, Restart, lvars, vars
<1>7. waiting' \subseteq waiting \cup Calls
  BY DEF LNext, BeginUp, BeginDown, EnsureDir, Send, Run, Answer, GiveUp, Restart, lvars
<1>8. loose' \subseteq attached'
  <2>1. ASSUME (\E c \in Calls : Run(c)) \/ Restart
        PROVE  loose' \subseteq attached'
    BY <2>1 DEF Run, Restart, Loosen
  <2>2. ASSUME ~Restart, \A c \in Calls : ~Run(c)
        PROVE  UNCHANGED <<loose, attached>>
    BY <2>2 DEF LNext, BeginUp, BeginDown, EnsureDir, MakeDir, Send, Receive, Answer, Reply,
                GiveUp, lvars, vars
  <2> QED
    BY <2>1, <2>2
<1> QED
  BY <1>1, <1>2, <1>3, <1>4, <1>5, <1>6, <1>7, <1>8 DEF LNext, Answer, Run

\* Every reachable state of the node and the CO is well typed, whichever calls the CO
\* stops waiting for and whatever it uses volumes as.
THEOREM LTypeCorrect == ASSUME AccessTypes # {} PROVE LSpec => []LTypeOK
<1> DEFINE Rec ==
      /\ phase \in [Paths -> Phases] /\ waiting \subseteq {c \in Calls : pc[c] # "idle"}
      /\ loose \subseteq attached
<1>1. LInit => IInv /\ Answers /\ Rec
  BY InitEstablishesLInv DEF LInit, Phases
<1>2. IInv /\ Answers /\ Rec /\ [LNext]_lvars => (IInv /\ Answers /\ Rec)'
  <2>1. Access \in AccessTypes
    BY DEF Access
  <2> QED
    BY <2>1, StepKeepsServer, RecordStaysTyped
<1>3. IInv /\ Rec => LTypeOK
  BY DEF IInv, LTypeOK
<1> QED
  BY <1>1, <1>2, <1>3, PTL DEF LSpec

\* What the CO takes for staged or published is there and shows the volume, wherever the
\* server crashed and whichever Stage or Publish the CO gave up still runs.
THEOREM UpStaysServed ==
  ASSUME FileSystems, WaitsForUnstage, WaitsForUnpublish
  PROVE  LSpec => []UpIsServed
<1>1. IInv /\ Answers /\ LInv => UpIsServed
  <2> SUFFICES ASSUME IInv, Answers, LInv, NEW t \in Targets, phase[t] = "up"
               PROVE  mounts[t] # <<>> /\ Shown(t) = Shown(VolumeOf[t])
    BY DEF UpIsServed, LInv, UpIsThere
  <2>1. mounts[t] \in Seq(Mounts) /\ mounts[t] # <<>>
    BY DEF LInv, UpIsThere, IInv, TypeOK, Paths
  <2>2. Shown(t) = StagedShows
    <3>1. Len(mounts[t]) \in 1 .. Len(mounts[t])
      BY <2>1
    <3> QED
      BY <2>1, <3>1 DEF LInv, TargetsShowVolume, Shown, Last
  <2>3. VolumeOf[t] \in Volumes /\ HasVolume(VolumeOf[t])
    BY PathsAssumption DEF LInv, RInv, RecordMatches, UpIsThere
  <2> QED
    BY <2>1, <2>2, <2>3, StagedPathShows
<1> QED
  BY <1>1, LInvHolds, PTL

\* Nothing is mounted on a target that the CO takes for unpublished, whichever calls it
\* gave up still run and whatever it uses volumes as: a Publish that comes late finds no
\* directory there.
THEOREM DownStaysGone == ASSUME AccessTypes # {} PROVE LSpec => []DownIsGone
<1>1. IInv /\ RInv => DownIsGone
  BY DEF IInv, MountsOnDirectories, RInv, DownIsNoDirectory, DownIsGone, Paths
<1> QED
  BY <1>1, RInvHolds, PTL

-----------------------------------------------------------------------------
(***************************************************************************)
(* The node implements VolumeLifecycle.  A handler's step on the mounts,   *)
(* the files or the devices is a step of it on the volume or the target of *)
(* its request; all others leave these alone.                              *)
(***************************************************************************)
ProvisionedVolumes == {v \in Volumes : HasVolume(v)}
BoundTargets == {t \in Targets : mounts[t] # <<>>}

\* No target is bound to a volume that a call takes down.
LEMMA TakenDownUnbound ==
  ASSUME WaitsForUnstage, IInv, LInv, NEW c \in Calls, pc[c] \in UnstageSteps
  PROVE  \A t \in Targets : VolumeOf[t] = Vol(c) => mounts[t] = <<>>
<1> SUFFICES ASSUME NEW t \in Targets, VolumeOf[t] = Vol(c) PROVE mounts[t] = <<>>
  OBVIOUS
<1>1. phase[VolumeOf[t]] = "goingDown"
  BY TakesDown DEF LInv, RInv
<1>2. phase[t] = "down"
  BY <1>1 DEF LInv, RInv, RecordMatches
<1> QED
  BY <1>2 DEF IInv, MountsOnDirectories, LInv, RInv, DownIsNoDirectory, Paths

\* A step on a staging path binds and unbinds nothing.
LEMMA SameBound ==
  ASSUME \A t \in Targets : mounts'[t] = mounts[t]
  PROVE  BoundTargets' = BoundTargets
  BY DEF BoundTargets

LEMMA SameProvisioned ==
  ASSUME files' = files, \A v \in Volumes : mounts'[v] = mounts[v]
  PROVE  ProvisionedVolumes' = ProvisionedVolumes
  BY DEF ProvisionedVolumes, HasVolume

\* What a step on one path does to the rest.
LEMMA OtherMountsStay ==
  ASSUME IInv, NEW c \in Calls, WorkingStep(c), NEW p \in Paths,
         p # Vol(c), pc[c] \in PublishSteps \cup UnpublishSteps => p # Target(c)
  PROVE  mounts'[p] = mounts[p]
  BY Confined DEF Touched

LEMMA MountProvisions ==
  ASSUME IInv, NEW c \in Calls, Mount(c)
  PROVE  /\ Vol(c) \in Volumes
         /\ ProvisionedVolumes' \in {ProvisionedVolumes, ProvisionedVolumes \cup {Vol(c)}}
         /\ BoundTargets' = BoundTargets /\ attached' = attached
<1> DEFINE u == Vol(c)
<1>0. /\ u \in Volumes /\ u \in Paths /\ pc[c] = "mount"
      /\ mounts \in [Paths -> Seq(Mounts)] /\ UNCHANGED <<files, attached>>
  BY WorkingOnPaths DEF Mount, IInv, TypeOK
<1>1. \A p \in Paths : p # u => mounts'[p] = mounts[p]
  BY <1>0, OtherMountsStay DEF WorkingStep, StageStep, PublishSteps, UnpublishSteps
<1>2. mounts'[u] = mounts[u] \/ mounts'[u] # <<>>
  BY <1>0, ShownAfterPush DEF Mount, SourceShows
<1> HIDE DEF u
<1>3. BoundTargets' = BoundTargets
  BY <1>0, <1>1, PathsAssumption, SameBound DEF Paths
<1>4. ProvisionedVolumes' \in {ProvisionedVolumes, ProvisionedVolumes \cup {u}}
  <2>1. \A v \in Volumes : v # u => mounts'[v] = mounts[v]
    BY <1>1 DEF Paths
  <2> QED
    BY <1>0, <1>2, <2>1 DEF ProvisionedVolumes, HasVolume
<1> QED
  BY <1>0, <1>3, <1>4 DEF u

LEMMA PopulateProvisions ==
  ASSUME IInv, NEW c \in Calls, Populate(c)
  PROVE  /\ Vol(c) \in Volumes
         /\ ProvisionedVolumes' \in {ProvisionedVolumes, ProvisionedVolumes \cup {Vol(c)}}
         /\ BoundTargets' = BoundTargets /\ attached' = attached
<1>0. Vol(c) \in Volumes /\ UNCHANGED <<mounts, attached>>
  BY WorkingOnPaths DEF Populate, IInv
<1>1. files' = files \/ files' = files \cup {Vol(c)}
  BY DEF Populate
<1>2. ProvisionedVolumes' \in {ProvisionedVolumes, ProvisionedVolumes \cup {Vol(c)}}
  <2> DEFINE u == Vol(c)
  <2>1. u \in Volumes /\ (files' = files \/ files' = files \cup {u}) /\ mounts' = mounts
    BY <1>0, <1>1
  <2> HIDE DEF u
  <2>2. ProvisionedVolumes' \in {ProvisionedVolumes, ProvisionedVolumes \cup {u}}
    BY <2>1 DEF ProvisionedVolumes, HasVolume
  <2> QED
    BY <2>2 DEF u
<1> QED
  BY <1>0, <1>2, SameBound

LEMMA UnstageWithdraws ==
  ASSUME WaitsForUnstage, IInv, LInv, NEW c \in Calls, Unmount(c) \/ RemoveAll(c)
  PROVE  /\ Vol(c) \in Volumes
         /\ \A t \in BoundTargets : VolumeOf[t] # Vol(c)
         /\ ProvisionedVolumes' \in {ProvisionedVolumes, ProvisionedVolumes \ {Vol(c)}}
         /\ BoundTargets' = BoundTargets /\ attached' = attached
<1> DEFINE u == Vol(c)
<1>0. /\ u \in Volumes /\ u \in Paths /\ pc[c] \in UnstageSteps
      /\ mounts \in [Paths -> Seq(Mounts)] /\ UNCHANGED attached
      /\ \/ files' = files
         \/ files' = files \ {u} /\ mounts[u] = <<>> /\ mounts' = mounts
  BY WorkingOnPaths DEF Unmount, Unmounting, RemoveAll, UnstageSteps, IInv, TypeOK
<1>1. \A p \in Paths : p # u => mounts'[p] = mounts[p]
  BY <1>0, OtherMountsStay
     DEF WorkingStep, UnstageStep, PublishSteps, UnpublishSteps, UnstageSteps
<1>2. mounts'[u] = mounts[u] \/ mounts[u] # <<>>
  BY <1>0 DEF Unmount, Unmounting, RemoveAll
<1>3. \A t \in BoundTargets : VolumeOf[t] # Vol(c)
  BY <1>0, TakenDownUnbound DEF BoundTargets
<1> HIDE DEF u
<1>4. BoundTargets' = BoundTargets
  BY <1>0, <1>1, PathsAssumption, SameBound DEF Paths
<1>5. ProvisionedVolumes' \in {ProvisionedVolumes, ProvisionedVolumes \ {u}}
  <2>1. \A v \in Volumes : v # u => mounts'[v] = mounts[v] /\ (v \in files' <=> v \in files)
    BY <1>0, <1>1 DEF Paths
  <2>2. CASE u \in ProvisionedVolumes'
    <3>1. ProvisionedVolumes' = ProvisionedVolumes
      BY <1>0, <1>2, <2>1, <2>2 DEF ProvisionedVolumes, HasVolume
    <3> QED
      BY <3>1
  <2>3. CASE u \notin ProvisionedVolumes'
    BY <2>1, <2>3 DEF ProvisionedVolumes, HasVolume
  <2> QED
    BY <2>2, <2>3
<1> QED
  BY <1>0, <1>3, <1>4, <1>5 DEF u

LEMMA DetachDetaches ==
  ASSUME WaitsForUnstage, IInv, Answers, LInv, NEW c \in Calls, Detach(c)
  PROVE  /\ Vol(c) \in Volumes
         /\ attached' # attached =>
                /\ attached' = attached \ {Vol(c)}
                /\ Vol(c) \notin ProvisionedVolumes
                /\ \A t \in BoundTargets : VolumeOf[t] # Vol(c)
         /\ ProvisionedVolumes' = ProvisionedVolumes /\ BoundTargets' = BoundTargets
<1>0. Vol(c) \in Volumes /\ pc[c] \in UnstageSteps /\ UNCHANGED <<mounts, files>>
  BY WorkingOnPaths DEF IInv, Detach, UnstageSteps
<1>1. ASSUME attached' # attached
      PROVE  /\ attached' = attached \ {Vol(c)}
             /\ Vol(c) \notin ProvisionedVolumes
             /\ \A t \in BoundTargets : VolumeOf[t] # Vol(c)
  <2>1. attached' = attached \ {dev[c]} /\ dev[c] \in Volumes
    BY <1>1 DEF Detach, IInv, TypeOK
  <2>2. dev[c] = Vol(c) /\ mounts[Vol(c)] = <<>> /\ Vol(c) \notin files
    BY <2>1, DetachesOwn
  <2>3. \A t \in BoundTargets : VolumeOf[t] # Vol(c)
    BY <1>0, TakenDownUnbound DEF BoundTargets
  <2> QED
    BY <2>1, <2>2, <2>3 DEF ProvisionedVolumes, HasVolume
<1> QED
  BY <1>0, <1>1, SameBound, SameProvisioned

LEMMA PublishBinds ==
  ASSUME IInv, Answers, LInv, NEW c \in Calls, Bind(c) \/ Remount(c)
  PROVE  /\ Target(c) \in Targets
         /\ BoundTargets' # BoundTargets =>
                /\ BoundTargets' = BoundTargets \cup {Target(c)}
                /\ VolumeOf[Target(c)] \in ProvisionedVolumes
         /\ ProvisionedVolumes' = ProvisionedVolumes /\ attached' = attached
<1> DEFINE u == Target(c)
<1>0. /\ u \in Targets /\ u \in Paths /\ VolumeOf[u] = Vol(c) /\ Vol(c) \in Volumes
      /\ pc[c] \in PublishSteps /\ Vol(c) \in Paths
      /\ mounts \in [Paths -> Seq(Mounts)] /\ UNCHANGED <<files, attached>>
  BY WorkingOnPaths DEF Bind, Remount, PublishSteps, IInv, TypeOK
<1>1. \A p \in Paths : p # u => mounts'[p] = mounts[p]
  BY <1>0 DEF Bind, Push, Remount, RemountTop
<1>2. Remount(c) => mounts[u] # <<>>
  BY DEF Remount, IInv, ChecksHoldAtUse, CheckHolds
<1>3. ASSUME Bind(c), mounts'[u] # mounts[u]
      PROVE  mounts'[u] # <<>> /\ Vol(c) \in ProvisionedVolumes
  <2>1. CanMountOn(u) /\ Push(u, Shown(Vol(c)))
    BY <1>3 DEF Bind
  <2>2. mounts'[u] # <<>>
    BY <1>0, <2>1, ShownIsFileSystem, ShownAfterPush
  <2>3. phase[u] # "down"
    BY <1>0, <2>1 DEF LInv, RInv, DownIsNoDirectory, CanMountOn
  <2>4. HasVolume(Vol(c))
    BY <1>0, <2>3 DEF LInv, RInv, RecordMatches, UpIsThere
  <2> QED
    BY <1>0, <2>2, <2>4 DEF ProvisionedVolumes
<1>4. Remount(c) => mounts'[u] # <<>>
  <2> SUFFICES ASSUME Remount(c), RemountTop(u, req[c].readOnly) PROVE mounts'[u] # <<>>
    BY <1>2 DEF Remount
  <2>1. mounts[u] \in Seq(Mounts) /\ mounts[u] # <<>> /\ req[c].readOnly \in BOOLEAN
    BY <1>0, <1>2, WorkingOnPaths DEF Remount, IInv, PublishSteps
  <2>2. /\ Front(mounts[u]) \in Seq(Mounts)
        /\ [Last(mounts[u]) EXCEPT !.readOnly = req[c].readOnly] \in Mounts
    BY <2>1, FrontIsStack, LastIsMount DEF Mounts
  <2>3. Append(Front(mounts[u]), [Last(mounts[u]) EXCEPT !.readOnly = req[c].readOnly]) # <<>>
    BY <2>2, AppendedMount
  <2> QED
    BY <1>0, <2>3, Zenon DEF RemountTop
<1> HIDE DEF u
<1>5. ProvisionedVolumes' = ProvisionedVolumes
  BY <1>0, <1>1, PathsAssumption, SameProvisioned DEF Paths
<1>6. \A t \in Targets : t # u => mounts'[t] = mounts[t]
  BY <1>1 DEF Paths
<1>7. BoundTargets' # BoundTargets =>
          /\ BoundTargets' = BoundTargets \cup {u}
          /\ Vol(c) \in ProvisionedVolumes
  <2>1. CASE mounts'[u] = mounts[u]
    BY <1>6, <2>1, SameBound
  <2>2. CASE mounts'[u] # mounts[u] /\ Bind(c)
    BY <1>0, <1>3, <1>6, <2>2 DEF BoundTargets
  <2>3. CASE Remount(c)
    BY <1>0, <1>2, <1>4, <1>6, <2>3 DEF BoundTargets
  <2> QED
    BY <2>1, <2>2, <2>3
<1> QED
  BY <1>0, <1>5, <1>7 DEF u

LEMMA UnpublishUnbinds ==
  ASSUME IInv, NEW c \in Calls, UnmountTarget(c)
  PROVE  /\ Target(c) \in Targets
         /\ BoundTargets' \in {BoundTargets, BoundTargets \ {Target(c)}}
         /\ ProvisionedVolumes' = ProvisionedVolumes /\ attached' = attached
<1> DEFINE u == Target(c)
<1>0. /\ u \in Targets /\ u \in Paths
      /\ mounts \in [Paths -> Seq(Mounts)] /\ UNCHANGED <<files, attached>>
  BY WorkingOnPaths DEF UnmountTarget, Unmounting, UnpublishSteps, IInv, TypeOK
<1>1. \A p \in Paths : p # u => mounts'[p] = mounts[p]
  BY <1>0 DEF UnmountTarget, Unmounting, Pop
<1>2. mounts'[u] = mounts[u] \/ mounts[u] # <<>>
  BY DEF UnmountTarget, Unmounting
<1> HIDE DEF u
<1>3. ProvisionedVolumes' = ProvisionedVolumes
  BY <1>0, <1>1, PathsAssumption, SameProvisioned DEF Paths
<1>4. \A t \in Targets : t # u => mounts'[t] = mounts[t]
  BY <1>1 DEF Paths
<1>5. BoundTargets' \in {BoundTargets, BoundTargets \ {u}}
  <2>1. CASE mounts'[u] = <<>>
    BY <1>0, <1>4, <2>1 DEF BoundTargets
  <2>2. CASE mounts'[u] # <<>>
    BY <1>0, <1>2, <1>4, <2>2 DEF BoundTargets
  <2> QED
    BY <2>1, <2>2
<1> QED
  BY <1>0, <1>3, <1>5 DEF u

\* All other steps leave devices, mounts and files as they are.
LEMMA OtherStepsStutter ==
  ASSUME FileSystems, [LNext]_lvars,
         \A c \in Calls :
             /\ ~Attach(c) /\ ~Mount(c) /\ ~Populate(c)
             /\ ~Unmount(c) /\ ~RemoveAll(c) /\ ~Detach(c)
             /\ ~Bind(c) /\ ~Remount(c) /\ ~UnmountTarget(c)
  PROVE  UNCHANGED <<attached, mounts, files>>
<1>1. ASSUME NEW c \in Calls, HandlerStep(c)
      PROVE  UNCHANGED <<attached, mounts, files>>
  BY <1>1
     DEF HandlerStep, Validate, Stat, TryAcquire, Release,
         PublishStep, CheckTarget, CheckStaging, ReadLink, LinkTarget,
         StageStep, LinkStaging, AskMount, UnstageStep, FindDevice, RemoveLink, FindMount,
         UnpublishStep, RemoveTarget
<1>2. ASSUME NEW c \in Calls, GiveUp(c) \/ Reply(c) \/ \E r \in Requests : Receive(c, r)
      PROVE  UNCHANGED <<attached, mounts, files>>
  BY <1>2 DEF GiveUp, Reply, Receive
<1>3. ASSUME (\E p \in Paths : MakeDir(p)) \/ Crash \/ UNCHANGED vars
      PROVE  UNCHANGED <<attached, mounts, files>>
  BY <1>3 DEF MakeDir, Crash, vars
<1> QED
  BY <1>1, <1>2, <1>3, StepOfServer, AccessIsMount DEF Next

LEMMA StepImplements ==
  ASSUME FileSystems, WaitsForUnstage, IInv, Answers, LInv, [LNext]_lvars
  PROVE  [Lifecycle!Next]_(Lifecycle!vars)
<1> DEFINE Stutters ==
        /\ attached' = attached
        /\ ProvisionedVolumes' = ProvisionedVolumes
        /\ BoundTargets' = BoundTargets
<1>0. Stutters => UNCHANGED Lifecycle!vars
  BY DEF Lifecycle!vars, ProvisionedVolumes, BoundTargets
<1>1. ASSUME NEW c \in Calls, Attach(c)
      PROVE  Stutters \/ \E v \in Volumes : Lifecycle!Attach(v)
  <2>1. Vol(c) \in Volumes /\ UNCHANGED <<mounts, files>>
    BY <1>1, WorkingOnPaths DEF Attach, IInv
  <2>2. ProvisionedVolumes' = ProvisionedVolumes /\ BoundTargets' = BoundTargets
    BY <2>1, SameBound, SameProvisioned
  <2>3. attached' = attached \/ attached' = attached \cup {Vol(c)}
    BY <1>1 DEF Attach
  <2> QED
    BY <2>1, <2>2, <2>3 DEF Lifecycle!Attach, ProvisionedVolumes, BoundTargets
<1>2. ASSUME NEW c \in Calls, Mount(c) \/ Populate(c)
      PROVE  Stutters \/ \E v \in Volumes : Lifecycle!Provision(v)
  <2>1. /\ Vol(c) \in Volumes
        /\ ProvisionedVolumes' \in {ProvisionedVolumes, ProvisionedVolumes \cup {Vol(c)}}
        /\ BoundTargets' = BoundTargets /\ attached' = attached
    BY <1>2, MountProvisions, PopulateProvisions
  <2> QED
    BY <2>1 DEF Lifecycle!Provision, ProvisionedVolumes, BoundTargets
<1>3. ASSUME NEW c \in Calls, Bind(c) \/ Remount(c)
      PROVE  Stutters \/ \E t \in Targets : Lifecycle!Bind(t)
  <2>1. /\ Target(c) \in Targets
        /\ BoundTargets' # BoundTargets =>
               /\ BoundTargets' = BoundTargets \cup {Target(c)}
               /\ VolumeOf[Target(c)] \in ProvisionedVolumes
        /\ ProvisionedVolumes' = ProvisionedVolumes /\ attached' = attached
    BY <1>3, PublishBinds
  <2> QED
    BY <2>1 DEF Lifecycle!Bind, ProvisionedVolumes, BoundTargets
<1>4. ASSUME NEW c \in Calls, UnmountTarget(c)
      PROVE  Stutters \/ \E t \in Targets : Lifecycle!Unbind(t)
  <2>1. /\ Target(c) \in Targets
        /\ BoundTargets' \in {BoundTargets, BoundTargets \ {Target(c)}}
        /\ ProvisionedVolumes' = ProvisionedVolumes /\ attached' = attached
    BY <1>4, UnpublishUnbinds
  <2> QED
    BY <2>1 DEF Lifecycle!Unbind, ProvisionedVolumes, BoundTargets
<1>5. ASSUME NEW c \in Calls, Unmount(c) \/ RemoveAll(c)
      PROVE  Stutters \/ \E v \in Volumes : Lifecycle!Withdraw(v)
  <2>1. /\ Vol(c) \in Volumes
        /\ \A t \in BoundTargets : VolumeOf[t] # Vol(c)
        /\ ProvisionedVolumes' \in {ProvisionedVolumes, ProvisionedVolumes \ {Vol(c)}}
        /\ BoundTargets' = BoundTargets /\ attached' = attached
    BY <1>5, UnstageWithdraws
  <2> QED
    BY <2>1
       DEF Lifecycle!Withdraw, Lifecycle!BoundTargets, ProvisionedVolumes, BoundTargets
<1>6. ASSUME NEW c \in Calls, Detach(c)
      PROVE  Stutters \/ \E v \in Volumes : Lifecycle!Detach(v)
  <2>1. /\ Vol(c) \in Volumes
        /\ attached' # attached =>
               /\ attached' = attached \ {Vol(c)}
               /\ Vol(c) \notin ProvisionedVolumes
               /\ \A t \in BoundTargets : VolumeOf[t] # Vol(c)
        /\ ProvisionedVolumes' = ProvisionedVolumes /\ BoundTargets' = BoundTargets
    BY <1>6, DetachDetaches
  <2> QED
    BY <2>1 DEF Lifecycle!Detach, Lifecycle!BoundTargets, ProvisionedVolumes, BoundTargets
<1>7. CASE UNCHANGED <<attached, mounts, files>>
  BY <1>0, <1>7, SameBound, SameProvisioned
<1> HIDE DEF Stutters
<1> QED
  BY <1>0, <1>1, <1>2, <1>3, <1>4, <1>5, <1>6, <1>7, OtherStepsStutter DEF Lifecycle!Next

\* The node under the CO implements VolumeLifecycle: a volume is bound only where it is
\* provisioned, and neither withdrawn nor detached while it is bound, by a call that the
\* CO gave up neither.
THEOREM NodeImplementsLifecycle ==
  ASSUME FileSystems, WaitsForUnstage
  PROVE  LSpec => LifecycleSpec
<1>1. LInit => Lifecycle!Init
  BY PathsAssumption DEF LInit, Init, Lifecycle!Init, HasVolume, Paths
<1>2. IInv /\ Answers /\ LInv /\ [LNext]_lvars => [Lifecycle!Next]_(Lifecycle!vars)
  BY StepImplements
<1> QED
  BY <1>1, <1>2, LInvHolds, PTL DEF LSpec, LifecycleSpec, Lifecycle!Spec

-----------------------------------------------------------------------------
(***************************************************************************)
(* Devices left attached.  DetachBlock is told only what the mount table   *)
(* said, so this is about managers that mount the devices they attach.     *)
(***************************************************************************)
MountsItsDevices ==
    "Block" \in Implements => "Mount" \in Implements /\ MountSource = "device"

\* Unstage unmounts what it found the device of, and where it found no mount although
\* the device is attached, the device was loose before.
UnstageKnowsDevice ==
    \A c \in Calls :
        /\ pc[c] = "unmount" => dev[c] = Vol(c)
        /\ pc[c] = "detach" /\ dev[c] # Vol(c) /\ Vol(c) \in attached /\ mounts[Vol(c)] = <<>>
               => Vol(c) \in loose

AInv ==
    /\ AttachedIsMounted
    /\ "Block" \notin Implements => attached = {}
    /\ "Block" \in Implements => UnstageKnowsDevice

\* Only the handlers attach and detach.
LEMMA AttachedChange ==
  ASSUME [LNext]_lvars
  PROVE  attached' = attached \/ \E c \in Calls : Attach(c) \/ Detach(c)
<1>1. ASSUME NEW c \in Calls, HandlerStep(c)
      PROVE  attached' = attached \/ Attach(c) \/ Detach(c)
  BY <1>1
     DEF HandlerStep, Validate, Stat, TryAcquire, Release,
         PublishStep, CheckTarget, CheckStaging, Bind, Remount, ReadLink, LinkTarget,
         StageStep, LinkStaging, AskMount, Mount, Populate,
         UnstageStep, FindDevice, RemoveLink, FindMount, Unmount, Unmounting, RemoveAll,
         UnpublishStep, UnmountTarget, RemoveTarget
<1>2. \/ \E p \in Paths : BeginUp(p) \/ BeginDown(p) \/ EnsureDir(p)
      \/ \E c \in Calls : (\E p \in Paths : Send(c, p)) \/ Answer(c) \/ GiveUp(c)
      \/ Restart \/ UNCHANGED lvars
      => attached' = attached
  BY DEF BeginUp, BeginDown, EnsureDir, MakeDir, Send, Receive, Answer, Reply, GiveUp,
         Restart, Crash, lvars, vars
<1> QED
  BY <1>1, <1>2 DEF LNext, Run

\* A handler between AttachBlock and the mount mounts or fails, and one at DetachBlock
\* detaches the device that it knows or fails.
LEMMA MoverMovesOn ==
  ASSUME IInv, "Mount" \in Implements, MountSource = "device",
         NEW c \in Calls, HandlerStep(c)
  PROVE  /\ pc[c] = "askMount" =>
                pc'[c] = "mount" \/ (pc'[c] = "release" /\ code'[c] # "OK")
         /\ pc[c] = "mount" =>
                mounts'[Vol(c)] # <<>> \/ (pc'[c] = "release" /\ code'[c] # "OK")
         /\ pc[c] = "detach" /\ "Block" \in Implements =>
                \/ attached' = attached \ {dev[c]}
                \/ pc'[c] = "release" /\ code'[c] # "OK"
<1>0. /\ pc \in [Calls -> Steps] /\ code \in [Calls -> Codes]
      /\ mounts \in [Paths -> Seq(Mounts)]
  BY DEF IInv, TypeOK
<1>1. ASSUME pc[c] = "askMount"
      PROVE  pc'[c] = "mount" \/ (pc'[c] = "release" /\ code'[c] # "OK")
  <2>1. AskMount(c)
    BY <1>1
       DEF HandlerStep, Validate, Stat, TryAcquire, Release,
           PublishStep, CheckTarget, CheckStaging, Bind, Remount, ReadLink, LinkTarget,
           StageStep, Attach, LinkStaging, Mount, Populate,
           UnstageStep, FindDevice, RemoveLink, FindMount, Unmount, RemoveAll, Detach,
           UnpublishStep, UnmountTarget, RemoveTarget
  <2> QED
    BY <1>0, <2>1 DEF AskMount, Goto, Return
<1>2. ASSUME pc[c] = "mount"
      PROVE  mounts'[Vol(c)] # <<>> \/ (pc'[c] = "release" /\ code'[c] # "OK")
  <2>1. Mount(c)
    BY <1>2
       DEF HandlerStep, Validate, Stat, TryAcquire, Release,
           PublishStep, CheckTarget, CheckStaging, Bind, Remount, ReadLink, LinkTarget,
           StageStep, Attach, LinkStaging, AskMount, Populate,
           UnstageStep, FindDevice, RemoveLink, FindMount, Unmount, RemoveAll, Detach,
           UnpublishStep, UnmountTarget, RemoveTarget
  <2>2. CASE Return(c, "Internal")
    BY <1>0, <2>2 DEF Return
  <2>3. CASE Push(Vol(c), SourceShows)
    <3>1. Vol(c) \in Paths
      BY <1>2, WorkingOnPaths DEF IInv
    <3> QED
      BY <1>0, <2>3, <3>1, ShownAfterPush DEF SourceShows
  <2> QED
    BY <2>1, <2>2, <2>3 DEF Mount
<1>3. ASSUME pc[c] = "detach", "Block" \in Implements
      PROVE  \/ attached' = attached \ {dev[c]}
             \/ pc'[c] = "release" /\ code'[c] # "OK"
  <2>1. Detach(c)
    BY <1>3
       DEF HandlerStep, Validate, Stat, TryAcquire, Release,
           PublishStep, CheckTarget, CheckStaging, Bind, Remount, ReadLink, LinkTarget,
           StageStep, Attach, LinkStaging, AskMount, Mount, Populate,
           UnstageStep, FindDevice, RemoveLink, FindMount, Unmount, RemoveAll,
           UnpublishStep, UnmountTarget, RemoveTarget
  <2> QED
    BY <1>0, <1>3, <2>1 DEF Detach, Return
<1> QED
  BY <1>1, <1>2, <1>3

\* How a handler comes to detach, to unmount or to attach, and who takes the last mount
\* off a staging path.
LEMMA MoverComes ==
  ASSUME IInv, FileSystems, MountSource = "device",
         NEW c \in Calls, HandlerStep(c)
  PROVE  /\ pc'[c] = "detach" =>
                /\ pc[c] \in {"unmount", "removeAll"} /\ dev'[c] = dev[c]
                /\ pc[c] = "removeAll" => mounts' = mounts /\ attached' = attached
         /\ pc'[c] = "unmount" => dev'[c] = Vol(c)
         /\ \A v \in attached' : v \notin attached =>
                v = Vol(c) /\ pc[c] = "attach" /\ pc'[c] = "askMount"
         /\ \A v \in Volumes : mounts[v] # <<>> /\ mounts'[v] = <<>> =>
                v = Vol(c) /\ pc[c] = "unmount" /\ pc'[c] = "detach"
<1>0. /\ pc \in [Calls -> Steps]
      /\ dev \in [Calls -> Volumes \cup {NoDevice, OtherDevice}]
      /\ mounts \in [Paths -> Seq(Mounts)]
  BY DEF IInv, TypeOK
<1>1. ASSUME pc'[c] = "detach"
      PROVE  /\ pc[c] \in {"unmount", "removeAll"} /\ dev'[c] = dev[c]
             /\ pc[c] = "removeAll" => mounts' = mounts /\ attached' = attached
  <2>1. CASE TryAcquire(c)
    <3>1. FirstStep(req[c]) # "detach"
      BY DEF FirstStep
    <3> QED
      BY <1>0, <1>1, <2>1, <3>1 DEF TryAcquire, Goto, Refuse
  <2>2. CASE Unmount(c) \/ RemoveAll(c)
    BY <1>0, <2>2 DEF Unmount, Unmounting, RemoveAll
  <2>3. CASE Validate(c) \/ Stat(c) \/ Release(c) \/ PublishStep(c) \/ UnpublishStep(c)
    BY <1>0, <1>1, <2>3
       DEF Validate, Stat, Release, PublishStep, CheckTarget, CheckStaging, Bind, Remount,
           ReadLink, LinkTarget, Symlink, UnpublishStep, UnmountTarget, Unmounting,
           RemoveTarget, Goto, Return, Refuse
  <2>4. CASE StageStep(c) \/ FindDevice(c) \/ RemoveLink(c) \/ FindMount(c) \/ Detach(c)
    BY <1>0, <1>1, <2>4
       DEF StageStep, Attach, AfterAttach, LinkStaging, Symlink, AskMount, Mount, Populate,
           FindDevice, RemoveLink, FindMount, Detach, Goto, Return
  <2> QED
    BY <2>1, <2>2, <2>3, <2>4 DEF HandlerStep, UnstageStep
<1>2. ASSUME pc'[c] = "unmount"
      PROVE  dev'[c] = Vol(c)
  <2>1. CASE TryAcquire(c)
    <3>1. FirstStep(req[c]) # "unmount"
      BY DEF FirstStep
    <3> QED
      BY <1>0, <1>2, <2>1, <3>1 DEF TryAcquire, Goto, Refuse
  <2>2. CASE FindMount(c)
    BY <1>0, <1>2, <2>2 DEF FindMount, DeviceOfFirst, Goto, Return
  <2>3. CASE Validate(c) \/ Stat(c) \/ Release(c) \/ PublishStep(c) \/ UnpublishStep(c)
    BY <1>0, <1>2, <2>3
       DEF Validate, Stat, Release, PublishStep, CheckTarget, CheckStaging, Bind, Remount,
           ReadLink, LinkTarget, Symlink, UnpublishStep, UnmountTarget, Unmounting,
           RemoveTarget, Goto, Return, Refuse
  <2>4. CASE \/ StageStep(c) \/ FindDevice(c) \/ RemoveLink(c)
             \/ Unmount(c) \/ RemoveAll(c) \/ Detach(c)
    BY <1>0, <1>2, <2>4
       DEF StageStep, Attach, AfterAttach, LinkStaging, Symlink, AskMount, Mount, Populate,
           FindDevice, RemoveLink, Unmount, Unmounting, RemoveAll, Detach, Goto, Return
  <2> QED
    BY <2>1, <2>2, <2>3, <2>4 DEF HandlerStep, UnstageStep
<1>3. ASSUME NEW v \in attached', v \notin attached
      PROVE  v = Vol(c) /\ pc[c] = "attach" /\ pc'[c] = "askMount"
  <2>1. Attach(c)
    BY <1>3
       DEF HandlerStep, Validate, Stat, TryAcquire, Release,
           PublishStep, CheckTarget, CheckStaging, Bind, Remount, ReadLink, LinkTarget,
           StageStep, LinkStaging, AskMount, Mount, Populate,
           UnstageStep, FindDevice, RemoveLink, FindMount, Unmount, Unmounting, RemoveAll,
           Detach, UnpublishStep, UnmountTarget, RemoveTarget
  <2>2. req[c] \in Requests /\ req[c].op = "Stage"
    BY <2>1 DEF Attach, IInv, TypeOK, StepsMatchRequest, StageSteps
  <2>3. req[c].access = "mount"
    BY <2>2 DEF Requests, StageRequests, UnstageRequests, PublishRequests,
                UnpublishRequests, FileSystems
  <2> QED
    BY <1>0, <1>3, <2>1, <2>3 DEF Attach, AfterAttach, Goto
<1>4. ASSUME NEW v \in Volumes, mounts[v] # <<>>, mounts'[v] = <<>>
      PROVE  v = Vol(c) /\ pc[c] = "unmount" /\ pc'[c] = "detach"
  <2>1. CASE Unmount(c)
    <3>1. pc[c] = "unmount" /\ ((Pop(Vol(c)) /\ Goto(c, "detach")) \/ mounts' = mounts)
      BY <2>1 DEF Unmount, Unmounting
    <3>2. Pop(Vol(c)) /\ Goto(c, "detach")
      BY <1>4, <3>1
    <3>3. mounts' = [mounts EXCEPT ![Vol(c)] = Front(mounts[Vol(c)])]
      BY <3>2 DEF Pop
    <3>4. v = Vol(c)
      BY <1>0, <1>4, <3>3 DEF Paths
    <3>5. pc'[c] = "detach"
      BY <1>0, <3>2 DEF Goto
    <3> QED
      BY <3>1, <3>4, <3>5
  <2>2. CASE Mount(c)
    <3>1. Vol(c) \in Paths
      BY <2>2, WorkingOnPaths DEF Mount, IInv
    <3>2. CASE v = Vol(c)
      BY <1>0, <1>4, <2>2, <3>1, <3>2, ShownAfterPush DEF Mount, SourceShows
    <3>3. CASE v # Vol(c)
      BY <1>0, <1>4, <2>2, <3>3 DEF Mount, Push, Paths
    <3> QED
      BY <3>2, <3>3
  <2>3. CASE Bind(c) \/ Remount(c) \/ UnmountTarget(c)
    <3>1. Target(c) \in Targets
      BY <2>3, WorkingOnPaths
         DEF IInv, Bind, Remount, UnmountTarget, PublishSteps, UnpublishSteps
    <3>2. v # Target(c) /\ v \in Paths
      BY <3>1, PathsAssumption DEF Paths
    <3> QED
      BY <1>0, <1>4, <2>3, <3>2
         DEF Bind, Remount, UnmountTarget, Unmounting, Push, Pop, RemountTop
  <2>4. CASE ~Unmount(c) /\ ~Mount(c) /\ ~Bind(c) /\ ~Remount(c) /\ ~UnmountTarget(c)
    <3>1. mounts' = mounts
      BY <2>4
         DEF HandlerStep, Validate, Stat, TryAcquire, Release,
             PublishStep, CheckTarget, CheckStaging, ReadLink, LinkTarget,
             StageStep, Attach, LinkStaging, AskMount, Populate,
             UnstageStep, FindDevice, RemoveLink, FindMount, RemoveAll, Detach,
             UnpublishStep, RemoveTarget
    <3> QED
      BY <1>4, <3>1
  <2> QED
    BY <2>1, <2>2, <2>3, <2>4
<1> QED
  BY <1>1, <1>2, <1>3, <1>4

\* A step of handler e, about one volume v: what is attached stays mounted, loose or
\* somebody's, and what Unstage knows stays so.
LEMMA RunKeepsAttached ==
  ASSUME FileSystems, IInv, AttachedIsMounted, UnstageKnowsDevice,
         "Block" \in Implements, "Mount" \in Implements, MountSource = "device",
         NEW e \in Calls, Run(e)
  PROVE  AttachedIsMounted' /\ UnstageKnowsDevice'
<1>0. /\ HandlerStep(e) /\ req' = req
      /\ loose' = {v \in attached' : mounts'[v] = <<>> /\ (v \in loose \/ CutShort(v))}
      /\ \A d \in Calls \ {e} : pc'[d] = pc[d] /\ dev'[d] = dev[d]
      /\ attached \subseteq Volumes
  BY RunFrame DEF Run, Loosen, IInv, TypeOK
<1>1. ASSUME NEW c \in Calls, NEW d \in Calls, Vol(c) = Vol(d),
             pc[c] \in Working, pc[d] \in Working
      PROVE  c = d
  BY <1>1 DEF IInv, LockDiscipline
<1>2. {"attach", "askMount", "mount", "unmount", "removeAll", "detach"} \subseteq Working
  BY DEF Working, PublishSteps, StageSteps, UnstageSteps, UnpublishSteps
<1>3. AttachedIsMounted'
  <2> SUFFICES ASSUME NEW v \in attached', mounts'[v] = <<>>, v \notin loose'
               PROVE  \E c \in Calls : MovesDevice(c, v)'
    BY DEF AttachedIsMounted
  <2>0. v \notin loose /\ ~CutShort(v)
    BY <1>0
  <2>1. CASE v \notin attached
    <3>1. v = Vol(e) /\ pc'[e] = "askMount"
      BY <1>0, <2>1, MoverComes
    <3> QED
      BY <1>0, <3>1 DEF MovesDevice, Vol
  <2>2. CASE v \in attached /\ mounts[v] # <<>>
    <3>1. v = Vol(e) /\ pc'[e] = "detach"
      BY <1>0, <2>2, MoverComes
    <3> QED
      BY <1>0, <3>1 DEF MovesDevice, Vol
  <2>3. CASE v \in attached /\ mounts[v] = <<>>
    <3>1. PICK c \in Calls : MovesDevice(c, v)
      BY <2>0, <2>3 DEF AttachedIsMounted
    <3>2. CASE c # e
      BY <1>0, <3>1, <3>2 DEF MovesDevice, Vol
    <3>3. CASE c = e
      <4>1. ~(pc'[e] = "release" /\ code'[e] # "OK")
        BY <2>0, <3>1, <3>3 DEF CutShort
      <4>2. pc[e] = "askMount" => pc'[e] = "mount"
        BY <1>0, <4>1, MoverMovesOn
      <4>3. pc[e] # "mount"
        BY <1>0, <3>1, <3>3, <4>1, MoverMovesOn DEF MovesDevice
      <4>4. pc[e] # "detach"
        <5>1. pc[e] = "detach" => attached' = attached \ {dev[e]}
          BY <1>0, <4>1, MoverMovesOn
        <5>2. pc[e] = "detach" => dev[e] = v
          BY <2>0, <2>3, <3>1, <3>3 DEF UnstageKnowsDevice, MovesDevice
        <5> QED
          BY <5>1, <5>2
      <4> QED
        BY <1>0, <3>1, <3>3, <4>2, <4>3, <4>4 DEF MovesDevice, Vol
    <3> QED
      BY <3>2, <3>3
  <2> QED
    BY <2>1, <2>2, <2>3
<1>4. ASSUME NEW c \in Calls, pc'[c] = "unmount"
      PROVE  dev'[c] = Vol(c)'
  <2>1. CASE c = e
    BY <1>0, <1>4, <2>1, MoverComes DEF Vol
  <2>2. CASE c # e
    BY <1>0, <1>4, <2>2 DEF UnstageKnowsDevice, Vol
  <2> QED
    BY <2>1, <2>2
<1>5. ASSUME NEW c \in Calls, pc'[c] = "detach", dev'[c] # Vol(c), Vol(c) \in attached',
             mounts'[Vol(c)] = <<>>
      PROVE  Vol(c) \in loose
  <2>1. CASE c = e
    <3>1. pc[c] = "removeAll" /\ mounts' = mounts /\ attached' = attached
      <4>1. pc[c] # "unmount"
        BY <1>0, <1>5, <2>1, MoverComes DEF UnstageKnowsDevice
      <4> QED
        BY <1>0, <1>5, <2>1, <4>1, MoverComes
    <3>2. \A d \in Calls : ~MovesDevice(d, Vol(c))
      <4> SUFFICES ASSUME NEW d \in Calls, MovesDevice(d, Vol(c))
                   PROVE  FALSE
        OBVIOUS
      <4>1. d = c
        BY <1>1, <1>2, <3>1 DEF MovesDevice
      <4> QED
        BY <3>1, <4>1 DEF MovesDevice
    <3> QED
      BY <1>5, <3>1, <3>2 DEF AttachedIsMounted
  <2>2. CASE c # e
    <3>1. pc[c] = "detach" /\ dev[c] = dev'[c]
      BY <1>0, <1>5, <2>2
    <3>2. Vol(c) \in attached
      <4>1. Vol(c) = Vol(e) => pc[e] # "attach"
        BY <1>1, <1>2, <2>2, <3>1
      <4> QED
        BY <1>0, <1>5, <4>1, MoverComes
    <3>3. mounts[Vol(c)] = <<>>
      <4>1. Vol(c) = Vol(e) => pc[e] # "unmount"
        BY <1>1, <1>2, <2>2, <3>1
      <4> QED
        BY <1>0, <1>5, <3>2, <4>1, MoverComes
    <3> QED
      BY <1>5, <3>1, <3>2, <3>3 DEF UnstageKnowsDevice
  <2> QED
    BY <2>1, <2>2
<1>6. UnstageKnowsDevice'
  <2>1. \A c \in Calls : Vol(c)' = Vol(c)
    BY <1>0 DEF Vol
  <2> QED
    BY <1>0, <1>4, <1>5, <2>1 DEF UnstageKnowsDevice
<1> QED
  BY <1>3, <1>6

\* A crash cuts every handler short, and what the CO does moves no device.
LEMMA OthersKeepAttached ==
  ASSUME Access \in AccessTypes, IInv, AttachedIsMounted, UnstageKnowsDevice, [LNext]_lvars,
         \A c \in Calls : ~Run(c)
  PROVE  AttachedIsMounted' /\ UnstageKnowsDevice'
<1>0. pc \in [Calls -> Steps] /\ req \in [Calls -> Requests \cup {NoRequest}]
      /\ dev \in [Calls -> Volumes \cup {NoDevice, OtherDevice}]
  BY DEF IInv, TypeOK
<1>1. CASE Restart
  <2>1. /\ \A c \in Calls : pc'[c] = "idle"
        /\ UNCHANGED <<attached, mounts>>
        /\ loose' = {v \in attached' : mounts'[v] = <<>> /\ (v \in loose \/ CutShort(v))}
    BY <1>1 DEF Restart, Crash, Loosen
  <2>2. AttachedIsMounted'
    BY <2>1 DEF AttachedIsMounted, CutShort
  <2>3. UnstageKnowsDevice'
    BY <2>1 DEF UnstageKnowsDevice
  <2> QED
    BY <2>2, <2>3
<1>2. CASE ~Restart
  <2>1. UNCHANGED <<attached, mounts, loose>>
    BY <1>2 DEF LNext, BeginUp, BeginDown, EnsureDir, MakeDir, Send, Receive, Answer, Reply,
                GiveUp, lvars, vars
  <2>2. ASSUME NEW c \in Calls,
               pc[c] \in {"askMount", "mount", "unmount", "detach"}
                   \/ pc'[c] \in {"askMount", "mount", "unmount", "detach"}
        PROVE  pc'[c] = pc[c] /\ req'[c] = req[c] /\ dev'[c] = dev[c]
    <3>1. ASSUME NEW d \in Calls, NEW p \in Paths, Send(d, p)
          PROVE  pc'[c] = pc[c] /\ req'[c] = req[c] /\ dev'[c] = dev[c]
      BY <1>0, <2>2, <3>1 DEF Send, Receive
    <3>2. ASSUME NEW d \in Calls, Answer(d)
          PROVE  pc'[c] = pc[c] /\ req'[c] = req[c] /\ dev'[c] = dev[c]
      BY <1>0, <2>2, <3>2 DEF Answer, Reply
    <3>3. \/ \E p \in Paths : BeginUp(p) \/ BeginDown(p) \/ EnsureDir(p)
          \/ \E d \in Calls : GiveUp(d)
          \/ UNCHANGED lvars
          => UNCHANGED <<pc, req, dev>>
      BY DEF BeginUp, BeginDown, EnsureDir, MakeDir, GiveUp, lvars, vars
    <3> QED
      BY <1>2, <3>1, <3>2, <3>3 DEF LNext
  <2>3. AttachedIsMounted'
    BY <2>1, <2>2 DEF AttachedIsMounted, MovesDevice, Vol
  <2>4. UnstageKnowsDevice'
    BY <2>1, <2>2 DEF UnstageKnowsDevice, Vol
  <2> QED
    BY <2>3, <2>4
<1> QED
  BY <1>1, <1>2

LEMMA StepKeepsAttached ==
  ASSUME FileSystems, MountsItsDevices, IInv, AInv, [LNext]_lvars
  PROVE  AInv'
<1>1. CASE "Block" \notin Implements
  <2>1. ASSUME NEW c \in Calls, Attach(c) \/ Detach(c)
        PROVE  attached' = attached
    BY <1>1, <2>1 DEF Attach, Detach
  <2>2. attached' = {}
    BY <1>1, <2>1, AttachedChange DEF AInv
  <2> QED
    BY <1>1, <2>2 DEF AInv, AttachedIsMounted
<1>2. CASE "Block" \in Implements
  BY <1>2, AccessIsMount, RunKeepsAttached, OthersKeepAttached DEF AInv, MountsItsDevices
<1> QED
  BY <1>1, <1>2

\* Whatever fails, crashes or is given up: a device that is attached is mounted where
\* Unstage looks for it, unless a call was cut short on it while it moved the device, of
\* a manager that mounts the devices it attaches.
THEOREM AttachedStaysMounted ==
  ASSUME FileSystems, MountsItsDevices
  PROVE  LSpec => []AttachedIsMounted
<1>1. LInit => IInv /\ Answers /\ AInv
  <2>1. LInit => AInv
    BY DEF LInit, Init, AInv, AttachedIsMounted, UnstageKnowsDevice
  <2> QED
    BY <2>1, InitEstablishesLInv
<1>2. IInv /\ Answers /\ AInv /\ [LNext]_lvars => (IInv /\ Answers /\ AInv)'
  BY AccessIsMount, StepKeepsServer, StepKeepsAttached
<1>3. AInv => AttachedIsMounted
  BY DEF AInv
<1> QED
  BY <1>1, <1>2, <1>3, PTL DEF LSpec

=============================================================================
