------------------------- MODULE NodeServer_proofs --------------------------
(***************************************************************************)
(* Proofs about NodeServer, for any volumes, targets, goroutines, manager  *)
(* and bounds: the type invariant, the discipline of the volume locks,     *)
(* that no step deletes a volume's data through a mount still standing,    *)
(* that an OK is true, and that a device is detached only when nothing is  *)
(* mounted on its staging path.                                            *)
(***************************************************************************)
EXTENDS NodeServer, TLAPS

USE DEF handlers, kernel

-----------------------------------------------------------------------------
(***************************************************************************)
(* Pushing and popping keep a stack of mounts a stack of mounts.           *)
(***************************************************************************)
LEMMA FrontIsStack ==
  ASSUME NEW s \in Seq(Mounts), s # <<>>
  PROVE  Front(s) \in Seq(Mounts)
  BY DEF Front

LEMMA PushKeepsStacks ==
  ASSUME mounts \in [Paths -> Seq(Mounts)], NEW p \in Paths,
         NEW fs \in {"own", "data", "dir"}, Push(p, fs)
  PROVE  mounts' \in [Paths -> Seq(Mounts)]
<1>1. [fs |-> fs, readOnly |-> FALSE] \in Mounts
  BY DEF Mounts
<1> QED
  BY <1>1 DEF Push

LEMMA PopKeepsStacks ==
  ASSUME mounts \in [Paths -> Seq(Mounts)], NEW p \in Paths,
         mounts[p] # <<>>, Pop(p)
  PROVE  mounts' \in [Paths -> Seq(Mounts)]
  BY FrontIsStack DEF Pop

LEMMA LastIsMount ==
  ASSUME NEW s \in Seq(Mounts), s # <<>>
  PROVE  Last(s) \in Mounts
  BY DEF Last

LEMMA ShownAfterPush ==
  ASSUME mounts \in [Paths -> Seq(Mounts)], NEW p \in Paths,
         NEW fs \in {"own", "data", "dir"}, Push(p, fs)
  PROVE  mounts'[p] # <<>> /\ Shown(p)' = fs
<1> DEFINE m == [fs |-> fs, readOnly |-> FALSE]
<1>1. mounts'[p] = Append(mounts[p], m)
  BY DEF Push
<1>2. mounts[p] \in Seq(Mounts) /\ m \in Mounts
  BY DEF Mounts
<1>3. Last(Append(mounts[p], m)) = m /\ Append(mounts[p], m) # <<>>
  BY <1>2 DEF Last
<1> QED
  BY <1>1, <1>3 DEF Shown

LEMMA ShownIsFileSystem ==
  ASSUME mounts \in [Paths -> Seq(Mounts)], NEW p \in Paths
  PROVE  Shown(p) \in {"own", "data", "dir"}
  BY LastIsMount DEF Shown, Mounts

LEMMA RemountKeepsStacks ==
  ASSUME mounts \in [Paths -> Seq(Mounts)], NEW p \in Paths,
         mounts[p] # <<>>, NEW ro \in BOOLEAN, RemountTop(p, ro)
  PROVE  mounts' \in [Paths -> Seq(Mounts)]
<1>1. Front(mounts[p]) \in Seq(Mounts)
  BY FrontIsStack
<1>2. [Last(mounts[p]) EXCEPT !.readOnly = ro] \in Mounts
  BY LastIsMount DEF Mounts
<1> QED
  BY <1>1, <1>2 DEF RemountTop

-----------------------------------------------------------------------------
(***************************************************************************)
(* The lock discipline.  It is inductive together with the types: a step   *)
(* either leaves the locks alone and its goroutine on the same side of     *)
(* TryAcquire, or it is TryAcquire, Release or Crash.                      *)
(***************************************************************************)
LEMMA SameSideKeepsDiscipline ==
  ASSUME LockDiscipline, NEW c \in Calls, NEW s,
         pc \in [Calls -> Steps],
         pc' = [pc EXCEPT ![c] = s],
         s \in Working <=> pc[c] \in Working,
         \A d \in Calls : pc[d] \in Working => req'[d] = req[d],
         locks' = locks
  PROVE  LockDiscipline'
  BY DEF LockDiscipline, Vol

LEMMA WorkingKeepsDiscipline ==
  ASSUME TypeOK, LockDiscipline, NEW c \in Calls,
         PublishStep(c) \/ StageStep(c) \/ UnstageStep(c) \/ UnpublishStep(c)
  PROVE  LockDiscipline'
<1>1. /\ UNCHANGED <<locks, req>>
      /\ pc[c] \in Working
      /\ \E s \in Working : pc' = [pc EXCEPT ![c] = s]
  BY DEF PublishStep, Bind, Remount, CheckTarget, CheckStaging, ReadLink, LinkTarget,
         StageStep, Attach, LinkStaging, AskMount, Mount, Populate,
         UnstageStep, FindDevice, RemoveLink, FindMount, Unmount, RemoveAll, Detach,
         UnpublishStep, UnmountTarget, RemoveTarget, Unmounting, Symlink, AfterAttach,
         Goto, Return, Working, PublishSteps, StageSteps, UnstageSteps, UnpublishSteps
<1> QED
  BY <1>1, SameSideKeepsDiscipline DEF TypeOK

LEMMA InitDisciplined == Init => LockDiscipline
  BY DEF Init, LockDiscipline, Working, PublishSteps, StageSteps, UnstageSteps,
         UnpublishSteps

LEMMA NextKeepsDiscipline == TypeOK /\ LockDiscipline /\ [Next]_vars => LockDiscipline'
<1> SUFFICES ASSUME TypeOK, LockDiscipline, [Next]_vars PROVE LockDiscipline'
  OBVIOUS
<1> USE DEF Working, PublishSteps, StageSteps, UnstageSteps, UnpublishSteps
<1>0. pc \in [Calls -> Steps] /\ req \in [Calls -> Requests \cup {NoRequest}]
  BY DEF TypeOK
<1>1. ASSUME NEW c \in Calls, NEW r \in Requests, Receive(c, r)
      PROVE  LockDiscipline'
  BY <1>0, <1>1, SameSideKeepsDiscipline DEF Receive
<1>2. ASSUME NEW c \in Calls, Validate(c) \/ Stat(c)
      PROVE  LockDiscipline'
  BY <1>0, <1>2, SameSideKeepsDiscipline DEF Validate, Stat, Goto, Refuse
<1>3. ASSUME NEW c \in Calls, TryAcquire(c)
      PROVE  LockDiscipline'
  <2>1. CASE Vol(c) \in locks
    BY <1>0, <1>3, <2>1, SameSideKeepsDiscipline DEF TryAcquire, Refuse
  <2>2. CASE Vol(c) \notin locks
    <3>1. pc' = [pc EXCEPT ![c] = FirstStep(req[c])] /\ FirstStep(req[c]) \in Working
      BY <1>3, <2>2 DEF TryAcquire, Goto, FirstStep
    <3> QED
      BY <1>0, <1>3, <2>2, <3>1 DEF TryAcquire, LockDiscipline, Vol
  <2> QED
    BY <2>1, <2>2
<1>4. ASSUME NEW c \in Calls, Release(c)
      PROVE  LockDiscipline'
  BY <1>0, <1>4 DEF Release, Goto, LockDiscipline, Vol
<1>5. ASSUME NEW c \in Calls, Reply(c)
      PROVE  LockDiscipline'
  BY <1>0, <1>5, SameSideKeepsDiscipline DEF Reply
<1>6. ASSUME NEW c \in Calls,
             PublishStep(c) \/ StageStep(c) \/ UnstageStep(c) \/ UnpublishStep(c)
      PROVE  LockDiscipline'
  BY <1>6, WorkingKeepsDiscipline
<1>7. ASSUME NEW p \in Paths, MakeDir(p)
      PROVE  LockDiscipline'
  BY <1>7 DEF MakeDir, LockDiscipline, Vol
<1>8. CASE Crash
  BY <1>8 DEF Crash, LockDiscipline
<1>9. CASE UNCHANGED vars
  BY <1>9 DEF vars, LockDiscipline, Vol
<1> QED
  BY <1>1, <1>2, <1>3, <1>4, <1>5, <1>6, <1>7, <1>8, <1>9 DEF Next, HandlerStep

-----------------------------------------------------------------------------
(***************************************************************************)
(* The inductive invariant.  A handler's step belongs to the operation     *)
(* that was asked for, and mounts are on directories.                      *)
(***************************************************************************)
StepsMatchRequest ==
    \A c \in Calls :
        /\ pc[c] \in PublishSteps => req[c].op = "Publish"
        /\ pc[c] \in StageSteps => req[c].op = "Stage"
        /\ pc[c] \in UnstageSteps => req[c].op = "Unstage"
        /\ pc[c] \in UnpublishSteps => req[c].op = "Unpublish"
        /\ pc[c] = "stat" => req[c].op \in {"Stage", "Publish"}

MountsOnDirectories == \A p \in Paths : mounts[p] # <<>> => path[p] = "dir"

IInv ==
    /\ TypeOK
    /\ LockDiscipline
    /\ StepsMatchRequest
    /\ MountsOnDirectories
    /\ ChecksHoldAtUse

LEMMA RequestFields ==
  ASSUME NEW r \in Requests
  PROVE  /\ r.op \in {"Stage", "Unstage", "Publish", "Unpublish"}
         /\ r.vol \in Volumes
         /\ r.valid \in BOOLEAN
         /\ r.op = "Publish" => r.readOnly \in BOOLEAN
         /\ r.op \in {"Publish", "Unpublish"} =>
                r.target \in Targets /\ r.vol = VolumeOf[r.target]
  BY DEF Requests, StageRequests, UnstageRequests, PublishRequests, UnpublishRequests

LEMMA InitEstablishesIInv == Init => IInv
<1> SUFFICES ASSUME Init PROVE IInv
  OBVIOUS
<1>1. TypeOK
  BY SettingsAssumption
     DEF Init, TypeOK, Steps, Codes, Paths
<1>2. LockDiscipline
  BY InitDisciplined
<1>3. StepsMatchRequest /\ MountsOnDirectories /\ ChecksHoldAtUse
  BY DEF Init, StepsMatchRequest, MountsOnDirectories, ChecksHoldAtUse, CheckHolds,
         PublishSteps, StageSteps, UnstageSteps, UnpublishSteps
<1> QED
  BY <1>1, <1>2, <1>3 DEF IInv

LEMMA WorkingOnPaths ==
  ASSUME TypeOK, StepsMatchRequest, NEW c \in Calls, pc[c] # "idle"
  PROVE  /\ req[c] \in Requests
         /\ Vol(c) \in Volumes
         /\ Vol(c) \in Paths
         /\ pc[c] \in PublishSteps \cup UnpublishSteps =>
                /\ Target(c) \in Targets
                /\ Target(c) \in Paths
                /\ VolumeOf[Target(c)] = Vol(c)
         /\ pc[c] \in PublishSteps => req[c].readOnly \in BOOLEAN
  BY RequestFields DEF TypeOK, StepsMatchRequest, Vol, Target, Paths

-----------------------------------------------------------------------------
(***************************************************************************)
(* Types.  Only a step that pushes or pops a mount needs more than the     *)
(* types themselves: that there is a mount to pop, or to remount.          *)
(***************************************************************************)
LEMMA FailsWithinBound ==
  ASSUME faults \in 0..MaxFaults, NEW call, Fails(call)
  PROVE  faults' \in 0..MaxFaults
  BY SettingsAssumption DEF Fails

LEMMA FirstStepWorks == \A r : FirstStep(r) \in Working
  BY DEF FirstStep, Working, PublishSteps, StageSteps, UnstageSteps, UnpublishSteps

\* A goroutine that is at work goes to another step and keeps its request.
LEMMA MoveKeepsHandlerTypes ==
  ASSUME TypeOK, NEW c \in Calls, pc[c] # "idle",
         NEW s \in Steps, pc' = [pc EXCEPT ![c] = s], UNCHANGED req,
         UNCHANGED code \/ \E a \in Codes : code' = [code EXCEPT ![c] = a]
  PROVE  /\ pc' \in [Calls -> Steps]
         /\ req' \in [Calls -> Requests \cup {NoRequest}]
         /\ \A d \in Calls : pc'[d] # "idle" => req'[d] \in Requests
         /\ code' \in [Calls -> Codes]
<1>1. pc \in [Calls -> Steps] /\ code \in [Calls -> Codes]
  BY DEF TypeOK
<1>2. /\ req \in [Calls -> Requests \cup {NoRequest}]
      /\ \A d \in Calls : pc[d] # "idle" => req[d] \in Requests
  BY DEF TypeOK
<1>3. pc' \in [Calls -> Steps] /\ code' \in [Calls -> Codes]
  BY <1>1
<1>4. \A d \in Calls : pc'[d] # "idle" => pc[d] # "idle"
  BY <1>1
<1> QED
  BY <1>2, <1>3, <1>4

LEMMA NextKeepsTypes == IInv /\ [Next]_vars => TypeOK'
<1> SUFFICES ASSUME IInv, [Next]_vars PROVE TypeOK'
  OBVIOUS
<1> USE DEF Steps, Working, PublishSteps, StageSteps, UnstageSteps, UnpublishSteps,
            Codes, Goto, Return, Refuse
<1>0. TypeOK /\ StepsMatchRequest
  BY DEF IInv
<1>1. ASSUME NEW c \in Calls, NEW r \in Requests, Receive(c, r)
      PROVE  TypeOK'
  BY <1>0, <1>1 DEF Receive, TypeOK
<1>2. ASSUME NEW c \in Calls, Validate(c) \/ Stat(c)
      PROVE  TypeOK'
  BY <1>0, <1>2 DEF Validate, Stat, TypeOK
<1>3. ASSUME NEW c \in Calls, TryAcquire(c)
      PROVE  TypeOK'
  <2>1. pc[c] # "idle" /\ UNCHANGED req
    BY <1>3 DEF TryAcquire
  <2>2. Vol(c) \in Volumes
    BY <1>0, <2>1, WorkingOnPaths
  <2>3. CASE Vol(c) \in locks
    <3>1. /\ pc' = [pc EXCEPT ![c] = "reply"] /\ code' = [code EXCEPT ![c] = "Aborted"]
          /\ UNCHANGED <<locks, dev, kernel, attached, faults>>
      BY <1>3, <2>3 DEF TryAcquire
    <3> QED
      BY <1>0, <2>1, <3>1, MoveKeepsHandlerTypes DEF TypeOK
  <2>4. CASE Vol(c) \notin locks
    <3>1. /\ pc' = [pc EXCEPT ![c] = FirstStep(req[c])] /\ UNCHANGED code
          /\ locks' = locks \cup {Vol(c)}
          /\ UNCHANGED <<dev, kernel, attached, faults>>
      BY <1>3, <2>4 DEF TryAcquire
    <3>2. FirstStep(req[c]) \in Steps
      BY FirstStepWorks
    <3>3. /\ pc' \in [Calls -> Steps]
          /\ req' \in [Calls -> Requests \cup {NoRequest}]
          /\ \A d \in Calls : pc'[d] # "idle" => req'[d] \in Requests
          /\ code' \in [Calls -> Codes]
      BY <1>0, <2>1, <3>1, <3>2, MoveKeepsHandlerTypes
    <3> QED
      BY <1>0, <2>2, <3>1, <3>3 DEF TypeOK
  <2> QED
    BY <2>3, <2>4
<1>4. ASSUME NEW c \in Calls, Release(c) \/ Reply(c)
      PROVE  TypeOK'
  BY <1>0, <1>4 DEF Release, Reply, TypeOK
<1>5. ASSUME NEW c \in Calls, PublishStep(c)
      PROVE  TypeOK'
  <2>0. /\ Vol(c) \in Paths /\ Target(c) \in Paths
        /\ req[c].readOnly \in BOOLEAN
    BY <1>0, <1>5, WorkingOnPaths
       DEF PublishStep, CheckTarget, CheckStaging, Bind, Remount, ReadLink, LinkTarget
  <2>1. ASSUME CheckTarget(c) \/ CheckStaging(c)
        PROVE  TypeOK'
    BY <1>0, <2>1 DEF CheckTarget, CheckStaging, TypeOK
  <2>2. ASSUME Bind(c)
        PROVE  TypeOK'
    <3>1. mounts' \in [Paths -> Seq(Mounts)]
      BY <1>0, <2>0, <2>2, ShownIsFileSystem, PushKeepsStacks DEF Bind, TypeOK
    <3> QED
      BY <1>0, <2>2, <3>1, FailsWithinBound DEF Bind, TypeOK
  <2>3. ASSUME Remount(c)
        PROVE  TypeOK'
    <3>1. mounts[Target(c)] # <<>>
      BY <2>3 DEF Remount, IInv, ChecksHoldAtUse, CheckHolds
    <3>2. mounts' \in [Paths -> Seq(Mounts)]
      BY <1>0, <2>0, <2>3, <3>1, RemountKeepsStacks DEF Remount, TypeOK
    <3> QED
      BY <1>0, <2>3, <3>2, FailsWithinBound DEF Remount, TypeOK
  <2>4. ASSUME ReadLink(c)
        PROVE  TypeOK'
    BY <1>0, <2>0, <2>4, WorkingOnPaths DEF ReadLink, DeviceAt, TypeOK
  <2>5. ASSUME LinkTarget(c)
        PROVE  TypeOK'
    BY <1>0, <2>0, <2>5 DEF LinkTarget, Symlink, TypeOK
  <2> QED
    BY <1>5, <2>1, <2>2, <2>3, <2>4, <2>5 DEF PublishStep
<1>6. ASSUME NEW c \in Calls, StageStep(c)
      PROVE  TypeOK'
  <2>0. Vol(c) \in Volumes /\ Vol(c) \in Paths
    BY <1>0, <1>6, WorkingOnPaths
       DEF StageStep, Attach, LinkStaging, AskMount, Mount, Populate
  <2>1. ASSUME Attach(c)
        PROVE  TypeOK'
    <3>1. /\ pc[c] # "idle" /\ UNCHANGED req
          /\ \E s \in Steps : pc' = [pc EXCEPT ![c] = s]
          /\ UNCHANGED code \/ \E a \in Codes : code' = [code EXCEPT ![c] = a]
      BY <2>1 DEF Attach, AfterAttach
    <3>2. /\ pc' \in [Calls -> Steps]
          /\ req' \in [Calls -> Requests \cup {NoRequest}]
          /\ \A d \in Calls : pc'[d] # "idle" => req'[d] \in Requests
          /\ code' \in [Calls -> Codes]
      BY <1>0, <3>1, MoveKeepsHandlerTypes
    <3>3. attached' \subseteq Volumes
      BY <1>0, <2>0, <2>1 DEF Attach, TypeOK
    <3>4. dev' \in [Calls -> Volumes \cup {NoDevice, OtherDevice}]
      BY <1>0, <2>0, <2>1 DEF Attach, TypeOK
    <3>5. faults' \in 0..MaxFaults
      BY <1>0, <2>1, FailsWithinBound DEF Attach, TypeOK
    <3>6. UNCHANGED <<locks, kernel>>
      BY <2>1 DEF Attach
    <3> QED
      BY <1>0, <3>2, <3>3, <3>4, <3>5, <3>6 DEF TypeOK
  <2>2. ASSUME LinkStaging(c)
        PROVE  TypeOK'
    BY <1>0, <2>0, <2>2 DEF LinkStaging, Symlink, TypeOK
  <2>3. ASSUME AskMount(c)
        PROVE  TypeOK'
    BY <1>0, <2>3, FailsWithinBound DEF AskMount, TypeOK
  <2>4. ASSUME Mount(c)
        PROVE  TypeOK'
    <3>1. mounts' \in [Paths -> Seq(Mounts)]
      BY <1>0, <2>0, <2>4, PushKeepsStacks DEF Mount, SourceShows, TypeOK
    <3> QED
      BY <1>0, <2>4, <3>1, FailsWithinBound DEF Mount, TypeOK
  <2>5. ASSUME Populate(c)
        PROVE  TypeOK'
    <3>1. /\ pc[c] # "idle" /\ UNCHANGED req
          /\ \E s \in Steps : pc' = [pc EXCEPT ![c] = s]
          /\ \E a \in Codes : code' = [code EXCEPT ![c] = a]
      BY <2>5 DEF Populate
    <3>2. /\ pc' \in [Calls -> Steps]
          /\ req' \in [Calls -> Requests \cup {NoRequest}]
          /\ \A d \in Calls : pc'[d] # "idle" => req'[d] \in Requests
          /\ code' \in [Calls -> Codes]
      BY <1>0, <3>1, MoveKeepsHandlerTypes
    <3>3. files' \subseteq Volumes
      BY <1>0, <2>0, <2>5 DEF Populate, TypeOK
    <3>4. faults' \in 0..MaxFaults
      BY <1>0, <2>5, FailsWithinBound DEF Populate, TypeOK
    <3>5. UNCHANGED <<locks, dev, path, mounts, lost, attached>>
      BY <2>5 DEF Populate
    <3> QED
      BY <1>0, <3>2, <3>3, <3>4, <3>5 DEF TypeOK
  <2> QED
    BY <1>6, <2>1, <2>2, <2>3, <2>4, <2>5 DEF StageStep
<1>7. ASSUME NEW c \in Calls, UnstageStep(c)
      PROVE  TypeOK'
  <2>0. Vol(c) \in Volumes /\ Vol(c) \in Paths
    BY <1>0, <1>7, WorkingOnPaths
       DEF UnstageStep, FindDevice, RemoveLink, FindMount, Unmount, RemoveAll, Detach
  <2>1. ASSUME FindDevice(c) \/ RemoveLink(c)
        PROVE  TypeOK'
    BY <1>0, <2>0, <2>1, FailsWithinBound DEF FindDevice, RemoveLink, TypeOK
  <2>2. ASSUME FindMount(c)
        PROVE  TypeOK'
    <3>1. dev' \in [Calls -> Volumes \cup {NoDevice, OtherDevice}]
      BY <1>0, <2>0, <2>2 DEF FindMount, DeviceOfFirst, TypeOK
    <3>2. faults' \in 0..MaxFaults
      BY <1>0, <2>2, FailsWithinBound DEF FindMount, TypeOK
    <3> QED
      BY <1>0, <2>2, <3>1, <3>2 DEF FindMount, TypeOK
  <2>3. ASSUME Unmount(c)
        PROVE  TypeOK'
    <3>1. mounts' \in [Paths -> Seq(Mounts)]
      BY <1>0, <2>0, <2>3, PopKeepsStacks DEF Unmount, Unmounting, TypeOK
    <3> QED
      BY <1>0, <2>3, <3>1, FailsWithinBound DEF Unmount, Unmounting, TypeOK
  <2>4. ASSUME RemoveAll(c)
        PROVE  TypeOK'
    <3>1. /\ pc[c] # "idle" /\ UNCHANGED req
          /\ \E s \in Steps : pc' = [pc EXCEPT ![c] = s]
          /\ UNCHANGED code \/ \E a \in Codes : code' = [code EXCEPT ![c] = a]
      BY <2>4 DEF RemoveAll
    <3>2. /\ pc' \in [Calls -> Steps]
          /\ req' \in [Calls -> Requests \cup {NoRequest}]
          /\ \A d \in Calls : pc'[d] # "idle" => req'[d] \in Requests
          /\ code' \in [Calls -> Codes]
      BY <1>0, <3>1, MoveKeepsHandlerTypes
    <3>3. path' \in [Paths -> {"absent", "dir", "link"}]
      BY <1>0, <2>0, <2>4 DEF RemoveAll, TypeOK
    <3>4. files' \subseteq Volumes /\ lost' \subseteq Volumes
      BY <1>0, <2>0, <2>4 DEF RemoveAll, TypeOK
    <3>5. UNCHANGED <<locks, dev, mounts, attached>>
      BY <2>4 DEF RemoveAll
    <3>6. faults' \in 0..MaxFaults
      BY <1>0, <2>4, FailsWithinBound DEF RemoveAll, TypeOK
    <3> QED
      BY <1>0, <3>2, <3>3, <3>4, <3>5, <3>6 DEF TypeOK
  <2>5. ASSUME Detach(c)
        PROVE  TypeOK'
    BY <1>0, <2>0, <2>5, FailsWithinBound DEF Detach, TypeOK
  <2> QED
    BY <1>7, <2>1, <2>2, <2>3, <2>4, <2>5 DEF UnstageStep
<1>8. ASSUME NEW c \in Calls, UnpublishStep(c)
      PROVE  TypeOK'
  <2>0. Target(c) \in Paths
    BY <1>0, <1>8, WorkingOnPaths DEF UnpublishStep, UnmountTarget, RemoveTarget
  <2>1. ASSUME UnmountTarget(c)
        PROVE  TypeOK'
    <3>1. mounts' \in [Paths -> Seq(Mounts)]
      BY <1>0, <2>0, <2>1, PopKeepsStacks DEF UnmountTarget, Unmounting, TypeOK
    <3> QED
      BY <1>0, <2>1, <3>1, FailsWithinBound DEF UnmountTarget, Unmounting, TypeOK
  <2>2. ASSUME RemoveTarget(c)
        PROVE  TypeOK'
    BY <1>0, <2>0, <2>2, FailsWithinBound DEF RemoveTarget, TypeOK
  <2> QED
    BY <1>8, <2>1, <2>2 DEF UnpublishStep
<1>9. ASSUME NEW p \in Paths, MakeDir(p)
      PROVE  TypeOK'
  BY <1>0, <1>9 DEF MakeDir, TypeOK
<1>10. CASE Crash
  BY <1>0, <1>10, FailsWithinBound DEF Crash, TypeOK
<1>11. CASE UNCHANGED vars
  BY <1>0, <1>11 DEF vars, TypeOK
<1> QED
  BY <1>1, <1>2, <1>3, <1>4, <1>5, <1>6, <1>7, <1>8, <1>9, <1>10, <1>11
     DEF Next, HandlerStep

-----------------------------------------------------------------------------
(***************************************************************************)
(* A handler stays in the steps of the operation it was asked for.         *)
(***************************************************************************)
LEMMA OneMover ==
  ASSUME IInv, NEW c \in Calls, NEW s,
         pc' = [pc EXCEPT ![c] = s],
         UNCHANGED req,
         /\ s \in PublishSteps => req[c].op = "Publish"
         /\ s \in StageSteps => req[c].op = "Stage"
         /\ s \in UnstageSteps => req[c].op = "Unstage"
         /\ s \in UnpublishSteps => req[c].op = "Unpublish"
         /\ s = "stat" => req[c].op \in {"Stage", "Publish"}
  PROVE  StepsMatchRequest'
  BY DEF IInv, TypeOK, StepsMatchRequest

LEMMA FirstStepMatches ==
  ASSUME NEW r \in Requests
  PROVE  /\ FirstStep(r) \in PublishSteps => r.op = "Publish"
         /\ FirstStep(r) \in StageSteps => r.op = "Stage"
         /\ FirstStep(r) \in UnstageSteps => r.op = "Unstage"
         /\ FirstStep(r) \in UnpublishSteps => r.op = "Unpublish"
<1>1. r.op \in {"Stage", "Unstage", "Publish", "Unpublish"}
  BY RequestFields
<1>2. CASE r.op = "Stage"
  BY <1>2 DEF FirstStep, PublishSteps, StageSteps, UnstageSteps, UnpublishSteps
<1>3. CASE r.op = "Unstage"
  BY <1>3 DEF FirstStep, PublishSteps, StageSteps, UnstageSteps, UnpublishSteps
<1>4. CASE r.op = "Publish"
  BY <1>4 DEF FirstStep, PublishSteps, StageSteps, UnstageSteps, UnpublishSteps
<1>5. CASE r.op = "Unpublish"
  BY <1>5 DEF FirstStep, PublishSteps, StageSteps, UnstageSteps, UnpublishSteps
<1> QED
  BY <1>1, <1>2, <1>3, <1>4, <1>5

LEMMA NextKeepsMatch == IInv /\ [Next]_vars => StepsMatchRequest'
<1> SUFFICES ASSUME IInv, [Next]_vars PROVE StepsMatchRequest'
  OBVIOUS
<1> USE DEF Goto, Return, Refuse
<1>0. TypeOK /\ StepsMatchRequest
  BY DEF IInv
<1>1. ASSUME NEW c \in Calls, NEW r \in Requests, Receive(c, r)
      PROVE  StepsMatchRequest'
  BY <1>0, <1>1
     DEF Receive, TypeOK, StepsMatchRequest,
         PublishSteps, StageSteps, UnstageSteps, UnpublishSteps
<1>2. ASSUME NEW c \in Calls, TryAcquire(c)
      PROVE  StepsMatchRequest'
  <2>1. req[c] \in Requests
    BY <1>0, <1>2 DEF TryAcquire, TypeOK
  <2>2. FirstStep(req[c]) # "stat"
    BY FirstStepWorks DEF Working, PublishSteps, StageSteps, UnstageSteps, UnpublishSteps
  <2>3. CASE Vol(c) \in locks
    BY <1>2, <2>3, OneMover
       DEF TryAcquire, PublishSteps, StageSteps, UnstageSteps, UnpublishSteps
  <2>4. CASE Vol(c) \notin locks
    BY <1>2, <2>1, <2>2, <2>4, OneMover, FirstStepMatches DEF TryAcquire
  <2> QED
    BY <2>3, <2>4
<1>3. ASSUME NEW c \in Calls, Validate(c) \/ Stat(c) \/ Release(c)
      PROVE  StepsMatchRequest'
  BY <1>3, OneMover
     DEF Validate, Stat, Release, PublishSteps, StageSteps, UnstageSteps, UnpublishSteps
<1>4. ASSUME NEW c \in Calls, Reply(c)
      PROVE  StepsMatchRequest'
  BY <1>0, <1>4
     DEF Reply, TypeOK, StepsMatchRequest,
         PublishSteps, StageSteps, UnstageSteps, UnpublishSteps
<1>5. ASSUME NEW c \in Calls, PublishStep(c)
      PROVE  StepsMatchRequest'
  <2>1. /\ pc[c] \in PublishSteps
        /\ \E s \in PublishSteps \cup {"release"} :
               pc' = [pc EXCEPT ![c] = s] /\ UNCHANGED req
    BY <1>5 DEF PublishStep, CheckTarget, CheckStaging, Bind, Remount, ReadLink,
                LinkTarget, Symlink, PublishSteps
  <2> QED
    BY <1>0, <2>1, OneMover
       DEF StepsMatchRequest, PublishSteps, StageSteps, UnstageSteps, UnpublishSteps
<1>6. ASSUME NEW c \in Calls, StageStep(c)
      PROVE  StepsMatchRequest'
  <2>1. /\ pc[c] \in StageSteps
        /\ \E s \in StageSteps \cup {"release"} :
               pc' = [pc EXCEPT ![c] = s] /\ UNCHANGED req
    BY <1>6 DEF StageStep, Attach, LinkStaging, AskMount, Mount, Populate, AfterAttach,
                Symlink, StageSteps
  <2> QED
    BY <1>0, <2>1, OneMover
       DEF StepsMatchRequest, PublishSteps, StageSteps, UnstageSteps, UnpublishSteps
<1>7. ASSUME NEW c \in Calls, UnstageStep(c)
      PROVE  StepsMatchRequest'
  <2>1. /\ pc[c] \in UnstageSteps
        /\ \E s \in UnstageSteps \cup {"release"} :
               pc' = [pc EXCEPT ![c] = s] /\ UNCHANGED req
    BY <1>7 DEF UnstageStep, FindDevice, RemoveLink, FindMount, Unmount, Unmounting,
                RemoveAll, Detach, UnstageSteps
  <2> QED
    BY <1>0, <2>1, OneMover
       DEF StepsMatchRequest, PublishSteps, StageSteps, UnstageSteps, UnpublishSteps
<1>8. ASSUME NEW c \in Calls, UnpublishStep(c)
      PROVE  StepsMatchRequest'
  <2>1. /\ pc[c] \in UnpublishSteps
        /\ \E s \in UnpublishSteps \cup {"release"} :
               pc' = [pc EXCEPT ![c] = s] /\ UNCHANGED req
    BY <1>8 DEF UnpublishStep, UnmountTarget, Unmounting, RemoveTarget, UnpublishSteps
  <2> QED
    BY <1>0, <2>1, OneMover
       DEF StepsMatchRequest, PublishSteps, StageSteps, UnstageSteps, UnpublishSteps
<1>9. ASSUME NEW p \in Paths, MakeDir(p)
      PROVE  StepsMatchRequest'
  BY <1>0, <1>9 DEF MakeDir, StepsMatchRequest
<1>10. CASE Crash
  BY <1>10
     DEF Crash, StepsMatchRequest, PublishSteps, StageSteps, UnstageSteps, UnpublishSteps
<1>11. CASE UNCHANGED vars
  BY <1>0, <1>11 DEF vars, StepsMatchRequest
<1> QED
  BY <1>1, <1>2, <1>3, <1>4, <1>5, <1>6, <1>7, <1>8, <1>9, <1>10, <1>11
     DEF Next, HandlerStep

-----------------------------------------------------------------------------
(***************************************************************************)
(* The paths a working handler may change are its volume's staging path    *)
(* and, in Publish and Unpublish, its target.  No other working handler    *)
(* looks at them: it works on another volume, and a target belongs to one  *)
(* volume.  This is what the locks are for.                                *)
(***************************************************************************)
Touched(c) ==
    {Vol(c)} \cup (IF pc[c] \in PublishSteps \cup UnpublishSteps THEN {Target(c)} ELSE {})

WorkingStep(c) ==
    PublishStep(c) \/ StageStep(c) \/ UnstageStep(c) \/ UnpublishStep(c)

LEMMA Confined ==
  ASSUME IInv, NEW c \in Calls, WorkingStep(c)
  PROVE  /\ pc[c] \in Working
         /\ \E s \in Working : pc' = [pc EXCEPT ![c] = s]
         /\ UNCHANGED req
         /\ \A d \in Calls \ {c} : dev'[d] = dev[d]
         /\ \A p \in Paths \ Touched(c) : path'[p] = path[p] /\ mounts'[p] = mounts[p]
<1> USE DEF Working, PublishSteps, StageSteps, UnstageSteps, UnpublishSteps,
            Goto, Return, Touched
<1>0. /\ dev \in [Calls -> Volumes \cup {NoDevice, OtherDevice}]
      /\ path \in [Paths -> {"absent", "dir", "link"}]
      /\ mounts \in [Paths -> Seq(Mounts)]
  BY DEF IInv, TypeOK
<1>1. CASE PublishStep(c)
  BY <1>0, <1>1 DEF PublishStep, CheckTarget, CheckStaging, Bind, Push, Remount,
                    RemountTop, ReadLink, LinkTarget, Symlink
<1>2. CASE StageStep(c)
  BY <1>0, <1>2 DEF StageStep, Attach, AfterAttach, LinkStaging, Symlink, AskMount,
                    Mount, Push, Populate
<1>3. CASE UnstageStep(c)
  BY <1>0, <1>3 DEF UnstageStep, FindDevice, RemoveLink, FindMount, Unmount, Unmounting,
                    Pop, RemoveAll, Detach
<1>4. CASE UnpublishStep(c)
  BY <1>0, <1>4 DEF UnpublishStep, UnmountTarget, Unmounting, Pop, RemoveTarget
<1> QED
  BY <1>1, <1>2, <1>3, <1>4 DEF WorkingStep

LEMMA OthersKeepChecks ==
  ASSUME IInv, NEW c \in Calls, WorkingStep(c), NEW d \in Calls \ {c}
  PROVE  CheckHolds(d)'
<1>1. /\ pc[c] \in Working
      /\ pc'[d] = pc[d] /\ UNCHANGED req /\ dev'[d] = dev[d]
      /\ \A p \in Paths \ Touched(c) : path'[p] = path[p] /\ mounts'[p] = mounts[p]
  BY Confined DEF IInv, TypeOK
<1>2. CASE pc[d] \notin Working
  BY <1>1, <1>2
     DEF CheckHolds, Working, PublishSteps, StageSteps, UnstageSteps, UnpublishSteps
<1>3. CASE pc[d] \in Working
  <2>1. Vol(c) # Vol(d)
    BY <1>1, <1>3 DEF IInv, LockDiscipline
  <2>2. /\ Vol(c) \in Volumes /\ Vol(d) \in Volumes /\ Vol(d) \in Paths
        /\ pc[c] \in PublishSteps \cup UnpublishSteps =>
               Target(c) \in Targets /\ VolumeOf[Target(c)] = Vol(c)
        /\ pc[d] \in PublishSteps \cup UnpublishSteps =>
               /\ Target(d) \in Targets /\ Target(d) \in Paths
               /\ VolumeOf[Target(d)] = Vol(d)
    BY <1>1, <1>3, WorkingOnPaths
       DEF IInv, Working, PublishSteps, StageSteps, UnstageSteps, UnpublishSteps
  <2>3. Vol(d) \notin Touched(c)
    BY <2>1, <2>2, PathsAssumption DEF Touched
  <2>4. pc[d] \in PublishSteps \cup UnpublishSteps => Target(d) \notin Touched(c)
    BY <2>1, <2>2, PathsAssumption DEF Touched
  <2>5. /\ Vol(d)' = Vol(d) /\ Target(d)' = Target(d)
        /\ path'[Vol(d)] = path[Vol(d)] /\ mounts'[Vol(d)] = mounts[Vol(d)]
        /\ pc[d] \in PublishSteps \cup UnpublishSteps =>
               /\ path'[Target(d)] = path[Target(d)]
               /\ mounts'[Target(d)] = mounts[Target(d)]
    BY <1>1, <2>2, <2>3, <2>4 DEF Vol, Target
  <2> QED
    BY <1>1, <2>5
       DEF IInv, ChecksHoldAtUse, CheckHolds, LooksMounted, Shown, DeviceAt,
           PublishSteps, UnpublishSteps
<1> QED
  BY <1>2, <1>3

-----------------------------------------------------------------------------
(***************************************************************************)
(* A mount goes on a directory, and only what has no mount is removed.     *)
(***************************************************************************)
LEMMA NextKeepsMountsOnDirectories == IInv /\ [Next]_vars => MountsOnDirectories'
<1> SUFFICES ASSUME IInv, [Next]_vars PROVE MountsOnDirectories'
  OBVIOUS
<1> USE DEF MountsOnDirectories
<1>0. /\ path \in [Paths -> {"absent", "dir", "link"}]
      /\ mounts \in [Paths -> Seq(Mounts)]
      /\ MountsOnDirectories
  BY DEF IInv, TypeOK
<1>1. ASSUME NEW c \in Calls, PublishStep(c)
      PROVE  MountsOnDirectories'
  <2>1. pc[c] = "remount" => mounts[Target(c)] # <<>>
    BY DEF IInv, ChecksHoldAtUse, CheckHolds
  <2> QED
    BY <1>0, <1>1, <2>1
       DEF PublishStep, CheckTarget, CheckStaging, Bind, CanMountOn, Push, Remount,
           RemountTop, ReadLink, LinkTarget, Symlink
<1>2. ASSUME NEW c \in Calls, StageStep(c)
      PROVE  MountsOnDirectories'
  BY <1>0, <1>2
     DEF StageStep, Attach, LinkStaging, Symlink, AskMount, Mount, CanMountOn, Push,
         Populate
<1>3. ASSUME NEW c \in Calls, UnstageStep(c)
      PROVE  MountsOnDirectories'
  <2>1. pc[c] = "removeLink" => path[Vol(c)] = "link"
    BY DEF IInv, ChecksHoldAtUse, CheckHolds
  <2> QED
    BY <1>0, <1>3, <2>1
       DEF UnstageStep, FindDevice, RemoveLink, FindMount, Unmount, Unmounting, Pop,
           RemoveAll, Detach
<1>4. ASSUME NEW c \in Calls, UnpublishStep(c)
      PROVE  MountsOnDirectories'
  BY <1>0, <1>4 DEF UnpublishStep, UnmountTarget, Unmounting, Pop, RemoveTarget
<1>5. ASSUME NEW c \in Calls,
             \/ \E r \in Requests : Receive(c, r)
             \/ Validate(c) \/ Stat(c) \/ TryAcquire(c) \/ Release(c) \/ Reply(c)
      PROVE  MountsOnDirectories'
  BY <1>0, <1>5 DEF Receive, Validate, Stat, TryAcquire, Release, Reply
<1>6. ASSUME NEW p \in Paths, MakeDir(p)
      PROVE  MountsOnDirectories'
  BY <1>0, <1>6 DEF MakeDir
<1>7. CASE Crash \/ UNCHANGED vars
  BY <1>0, <1>7 DEF Crash, vars
<1> QED
  BY <1>1, <1>2, <1>3, <1>4, <1>5, <1>6, <1>7 DEF Next, HandlerStep

-----------------------------------------------------------------------------
(***************************************************************************)
(* What a handler checked holds when it acts: its own steps establish it,  *)
(* the other handlers cannot change it, and MakeDir only fills in paths    *)
(* that nothing is mounted on.                                             *)
(***************************************************************************)
LEMMA OwnStepKeepsChecks ==
  ASSUME IInv, NEW c \in Calls, WorkingStep(c)
  PROVE  CheckHolds(c)'
<1> USE DEF Goto, Return, CheckHolds
<1>0. /\ pc \in [Calls -> Steps]
      /\ dev \in [Calls -> Volumes \cup {NoDevice, OtherDevice}]
      /\ path \in [Paths -> {"absent", "dir", "link"}]
      /\ mounts \in [Paths -> Seq(Mounts)]
      /\ Vol(c)' = Vol(c) /\ Target(c)' = Target(c)
  BY Confined DEF IInv, TypeOK, Vol, Target
<1>1. CASE PublishStep(c)
  <2>0. /\ Vol(c) \in Volumes /\ Vol(c) \in Paths
        /\ Target(c) \in Targets /\ Target(c) \in Paths /\ Target(c) # Vol(c)
    BY <1>1, WorkingOnPaths, PathsAssumption
       DEF IInv, PublishStep, CheckTarget, CheckStaging, Bind, Remount, ReadLink,
           LinkTarget, PublishSteps
  <2>1. CASE CheckTarget(c) \/ LinkTarget(c) \/ Remount(c)
    BY <1>0, <2>1
       DEF CheckTarget, IsVolumePathMounted, LooksMounted, Shown, LinkTarget, Symlink, Remount
  <2>2. CASE CheckStaging(c)
    <3>1. ~LooksMounted(Target(c))
      BY <2>2 DEF CheckStaging, IInv, ChecksHoldAtUse
    <3> QED
      BY <1>0, <2>2, <3>1 DEF CheckStaging, LooksMounted, Shown
  <2>3. CASE Bind(c)
    <3>1. CASE Push(Target(c), Shown(Vol(c)))
      <4>1. Shown(Target(c))' = Shown(Vol(c)) /\ mounts'[Target(c)] # <<>>
        BY <1>0, <2>0, <3>1, ShownIsFileSystem, ShownAfterPush
      <4>2. Shown(Vol(c))' = Shown(Vol(c))
        BY <1>0, <2>0, <3>1 DEF Push, Shown
      <4>3. pc'[c] \in {"remount", "release"}
        BY <1>0, <2>3 DEF Bind
      <4> QED
        BY <1>0, <4>1, <4>2, <4>3
    <3>2. CASE pc'[c] = "release"
      BY <3>2
    <3> QED
      BY <1>0, <2>3, <3>1, <3>2 DEF Bind
  <2>4. CASE ReadLink(c)
    BY <1>0, <2>4 DEF ReadLink, DeviceAt
  <2> QED
    BY <1>1, <2>1, <2>2, <2>3, <2>4 DEF PublishStep
<1>2. CASE StageStep(c)
  BY <1>0, <1>2 DEF StageStep, Attach, AfterAttach, LinkStaging, Symlink, AskMount, Mount,
                    Populate
<1>3. CASE UnstageStep(c)
  <2>1. CASE FindDevice(c) \/ RemoveLink(c) \/ Unmount(c) \/ RemoveAll(c) \/ Detach(c)
    BY <1>0, <2>1
       DEF FindDevice, DeviceAt, RemoveLink, Unmount, Unmounting, RemoveAll, Detach
  <2>2. CASE FindMount(c)
    <3>1. /\ path[Vol(c)] # "absent"
          /\ DeviceOfFirst(Vol(c)) # NoDevice <=> LooksMounted(Vol(c))
      <4>1. Vol(c) \in Volumes
        BY <2>2, WorkingOnPaths DEF IInv, FindMount
      <4> QED
        BY <2>2, <4>1, PathsAssumption DEF FindMount, DeviceOfFirst, IInv, ChecksHoldAtUse
    <3>2. LooksMounted(Vol(c))' <=> LooksMounted(Vol(c))
      BY <1>0, <2>2 DEF FindMount, LooksMounted, Shown
    <3> QED
      BY <1>0, <2>2, <3>1, <3>2 DEF FindMount
  <2> QED
    BY <1>3, <2>1, <2>2 DEF UnstageStep
<1>4. CASE UnpublishStep(c)
  <2>1. Target(c) \in Paths
    BY <1>4, WorkingOnPaths
       DEF IInv, UnpublishStep, UnmountTarget, RemoveTarget, UnpublishSteps
  <2> QED
    BY <1>0, <1>4, <2>1
       DEF UnpublishStep, UnmountTarget, Unmounting, RemoveTarget, IInv, MountsOnDirectories
<1> QED
  BY <1>1, <1>2, <1>3, <1>4 DEF WorkingStep

LEMMA NextKeepsChecks == IInv /\ [Next]_vars => ChecksHoldAtUse'
<1> SUFFICES ASSUME IInv, [Next]_vars, NEW d \in Calls PROVE CheckHolds(d)'
  BY DEF ChecksHoldAtUse
<1>0. /\ pc \in [Calls -> Steps]
      /\ path \in [Paths -> {"absent", "dir", "link"}]
      /\ MountsOnDirectories
      /\ CheckHolds(d)
  BY DEF IInv, TypeOK, ChecksHoldAtUse
<1>1. ASSUME NEW c \in Calls, WorkingStep(c)
      PROVE  CheckHolds(d)'
  BY <1>1, OwnStepKeepsChecks, OthersKeepChecks
<1>2. ASSUME NEW c \in Calls,
             \/ \E r \in Requests : Receive(c, r)
             \/ Validate(c) \/ Stat(c) \/ TryAcquire(c) \/ Release(c) \/ Reply(c)
      PROVE  CheckHolds(d)'
  <2>1. CASE c = d
    <3>1. pc'[d] \in {"idle", "validate", "stat", "tryAcquire", "reply", "attach",
                      "findDevice", "unmountTarget", "readLink", "checkTarget"}
      BY <1>0, <1>2, <2>1
         DEF Receive, Validate, Stat, TryAcquire, Release, Reply, Goto, Refuse, FirstStep
    <3> QED
      BY <3>1 DEF CheckHolds
  <2>2. CASE c # d
    <3>1. /\ pc'[d] = pc[d] /\ UNCHANGED <<path, mounts>>
          /\ req'[d] = req[d] /\ dev'[d] = dev[d]
      BY <1>0, <1>2, <2>2
         DEF IInv, TypeOK, Receive, Validate, Stat, TryAcquire, Release, Reply, Goto, Refuse
    <3> QED
      BY <1>0, <3>1 DEF CheckHolds, Vol, Target, LooksMounted, Shown, DeviceAt
  <2> QED
    BY <2>1, <2>2
<1>3. ASSUME NEW p \in Paths, MakeDir(p)
      PROVE  CheckHolds(d)'
  <2>1. /\ UNCHANGED <<pc, req, dev, mounts>>
        /\ path[p] = "absent" /\ mounts[p] = <<>>
        /\ path' = [path EXCEPT ![p] = "dir"]
    BY <1>0, <1>3 DEF MakeDir, MountsOnDirectories
  <2>2. pc[d] \in Working =>
            Vol(d) \in Paths /\ (pc[d] \in PublishSteps \cup UnpublishSteps => Target(d) \in Paths)
    BY WorkingOnPaths DEF IInv, Working, PublishSteps, StageSteps, UnstageSteps,
                          UnpublishSteps
  <2> QED
    BY <1>0, <2>1, <2>2
       DEF CheckHolds, Vol, Target, LooksMounted, Shown, DeviceAt,
           Working, PublishSteps, StageSteps, UnstageSteps, UnpublishSteps
<1>4. CASE Crash
  BY <1>4 DEF Crash, CheckHolds
<1>5. CASE UNCHANGED vars
  BY <1>0, <1>5 DEF vars, CheckHolds, Vol, Target, LooksMounted, Shown, DeviceAt
<1> QED
  BY <1>1, <1>2, <1>3, <1>4, <1>5 DEF Next, HandlerStep, WorkingStep

-----------------------------------------------------------------------------

LEMMA NextKeepsIInv == IInv /\ [Next]_vars => IInv'
  BY NextKeepsTypes, NextKeepsDiscipline, NextKeepsMatch, NextKeepsMountsOnDirectories,
     NextKeepsChecks
     DEF IInv

THEOREM InvariantHolds == Spec => []IInv
  BY NextKeepsIInv, InitEstablishesIInv, PTL DEF Spec

\* Every reachable state is well typed.
THEOREM TypeCorrect == Spec => []TypeOK
  BY InvariantHolds, PTL DEF IInv

\* The locked volumes are always exactly those that a handler works on, one handler
\* each, on every return path and across crashes.
THEOREM LocksAreDisciplined == Spec => []LockDiscipline
  BY InvariantHolds, PTL DEF IInv

\* Whatever runs concurrently, what a handler found out about the host before it
\* mounts, unmounts or removes is still so at that step.
THEOREM ChecksStayTrue == Spec => []ChecksHoldAtUse
  BY InvariantHolds, PTL DEF IInv

-----------------------------------------------------------------------------
(***************************************************************************)
(* RemoveAll comes after checks that can err: LooksMounted misses a mount  *)
(* of the host's own file system.  All mounts on a staging path are of the *)
(* kind that the manager names.  Where that is not the host's own file     *)
(* system each of them shows, so that what RemoveAll empties has no mount  *)
(* at all.                                                                 *)
(***************************************************************************)
StagingShowsVolume ==
    \A v \in Volumes : \A i \in 1 .. Len(mounts[v]) : mounts[v][i].fs = SourceShows

LEMMA StagedLooksMounted ==
  ASSUME MountSource # "host", IInv, StagingShowsVolume, NEW v \in Volumes, mounts[v] # <<>>
  PROVE  LooksMounted(v)
<1>1. v \in Paths /\ mounts[v] \in Seq(Mounts) /\ path[v] = "dir"
  BY DEF IInv, TypeOK, MountsOnDirectories, Paths
<1>2. Last(mounts[v]).fs = "own"
  BY <1>1 DEF StagingShowsVolume, SourceShows, Last
<1> QED
  BY <1>1, <1>2 DEF LooksMounted, Shown

\* Only Mount and Unmount change what is mounted on a staging path.
LEMMA StagingMounts ==
  ASSUME IInv, [Next]_vars
  PROVE  \/ \A v \in Volumes : mounts'[v] = mounts[v]
         \/ \E c \in Calls : Mount(c) \/ Unmount(c)
<1>0. mounts \in [Paths -> Seq(Mounts)] /\ Volumes \subseteq Paths
  BY DEF IInv, TypeOK, Paths
<1>1. ASSUME NEW c \in Calls, PublishStep(c) \/ UnpublishStep(c)
      PROVE  \A v \in Volumes : mounts'[v] = mounts[v]
  <2>1. Target(c) \notin Volumes
    BY <1>1, WorkingOnPaths, PathsAssumption
       DEF IInv, PublishStep, CheckTarget, CheckStaging, Bind, Remount, ReadLink,
           LinkTarget, PublishSteps, UnpublishStep, UnmountTarget, RemoveTarget,
           UnpublishSteps
  <2> QED
    BY <1>0, <1>1, <2>1
       DEF PublishStep, CheckTarget, CheckStaging, Bind, Push, Remount, RemountTop,
           ReadLink, LinkTarget, UnpublishStep, UnmountTarget, Unmounting, Pop,
           RemoveTarget
<1>2. ASSUME NEW c \in Calls,
             \/ Attach(c) \/ LinkStaging(c) \/ AskMount(c) \/ Populate(c)
             \/ FindDevice(c) \/ RemoveLink(c) \/ FindMount(c) \/ RemoveAll(c) \/ Detach(c)
             \/ \E r \in Requests : Receive(c, r)
             \/ Validate(c) \/ Stat(c) \/ TryAcquire(c) \/ Release(c) \/ Reply(c)
      PROVE  UNCHANGED mounts
  BY <1>2 DEF Attach, LinkStaging, AskMount, Populate, FindDevice, RemoveLink, FindMount,
              RemoveAll, Detach, Receive, Validate, Stat, TryAcquire, Release, Reply
<1>3. ASSUME (\E p \in Paths : MakeDir(p)) \/ Crash \/ UNCHANGED vars
      PROVE  UNCHANGED mounts
  BY <1>3 DEF MakeDir, Crash, vars
<1> QED
  BY <1>1, <1>2, <1>3 DEF Next, HandlerStep, StageStep, UnstageStep

LEMMA NextKeepsStagingVisible ==
  ASSUME IInv, [Next]_vars, StagingShowsVolume
  PROVE  StagingShowsVolume'
<1>0. mounts \in [Paths -> Seq(Mounts)] /\ Volumes \subseteq Paths
  BY DEF IInv, TypeOK, Paths
<1>1. CASE \A v \in Volumes : mounts'[v] = mounts[v]
  BY <1>1 DEF StagingShowsVolume
<1>2. ASSUME NEW c \in Calls, Mount(c)
      PROVE  StagingShowsVolume'
  <2>1. CASE UNCHANGED mounts
    BY <2>1 DEF StagingShowsVolume
  <2>2. CASE Push(Vol(c), SourceShows)
    <3>1. mounts' = [mounts EXCEPT ![Vol(c)] =
                        Append(@, [fs |-> SourceShows, readOnly |-> FALSE])]
      BY <2>2 DEF Push
    <3>2. SUFFICES ASSUME NEW v \in Volumes, NEW i \in 1 .. Len(mounts'[v])
                   PROVE  mounts'[v][i].fs = SourceShows
      BY DEF StagingShowsVolume
    <3>3. CASE v = Vol(c)
      <4>1. mounts[v] \in Seq(Mounts) /\ [fs |-> SourceShows, readOnly |-> FALSE] \in Mounts
        BY <1>0 DEF Mounts, SourceShows
      <4>2. mounts'[v] = Append(mounts[v], [fs |-> SourceShows, readOnly |-> FALSE])
        BY <1>0, <3>1, <3>3
      <4>3. Len(mounts'[v]) = Len(mounts[v]) + 1 /\ Len(mounts[v]) \in Nat
        BY <4>1, <4>2
      <4>4. CASE i = Len(mounts[v]) + 1
        BY <4>1, <4>2, <4>4
      <4>5. CASE i \in 1 .. Len(mounts[v])
        BY <4>1, <4>2, <4>5 DEF StagingShowsVolume
      <4> QED
        BY <4>3, <4>4, <4>5
    <3>4. CASE v # Vol(c)
      <4>1. mounts'[v] = mounts[v]
        BY <1>0, <3>1, <3>4
      <4> QED
        BY <3>2, <4>1 DEF StagingShowsVolume
    <3> QED
      BY <3>3, <3>4
  <2> QED
    BY <1>2, <2>1, <2>2 DEF Mount
<1>3. ASSUME NEW c \in Calls, Unmount(c)
      PROVE  StagingShowsVolume'
  <2>1. CASE UNCHANGED mounts
    BY <2>1 DEF StagingShowsVolume
  <2>2. CASE mounts[Vol(c)] # <<>> /\ Pop(Vol(c))
    <3>1. SUFFICES ASSUME NEW v \in Volumes, NEW i \in 1 .. Len(mounts'[v])
                   PROVE  mounts'[v][i].fs = SourceShows
      BY DEF StagingShowsVolume
    <3>2. CASE v = Vol(c)
      <4>1. mounts[v] \in Seq(Mounts) /\ mounts[v] # <<>>
            /\ mounts'[v] = SubSeq(mounts[v], 1, Len(mounts[v]) - 1)
        BY <1>0, <2>2, <3>2 DEF Pop, Front
      <4>2. i \in 1 .. Len(mounts[v]) /\ mounts'[v][i] = mounts[v][i]
        BY <4>1
      <4> QED
        BY <4>2 DEF StagingShowsVolume
    <3>3. CASE v # Vol(c)
      <4>1. mounts'[v] = mounts[v]
        BY <1>0, <2>2, <3>3 DEF Pop
      <4> QED
        BY <3>1, <4>1 DEF StagingShowsVolume
    <3> QED
      BY <3>2, <3>3
  <2> QED
    BY <1>3, <2>1, <2>2 DEF Unmount, Unmounting
<1> QED
  BY <1>1, <1>2, <1>3, StagingMounts

LEMMA NextKeepsData ==
  ASSUME MountSource # "host", IInv, [Next]_vars, StagingShowsVolume, NeverDeletesData
  PROVE  NeverDeletesData'
<1>1. ASSUME NEW c \in Calls, RemoveAll(c)
      PROVE  UNCHANGED lost
  <2>1. Vol(c) \in Volumes /\ ~LooksMounted(Vol(c))
    BY <1>1, WorkingOnPaths DEF RemoveAll, IInv, ChecksHoldAtUse, CheckHolds
  <2>2. mounts[Vol(c)] = <<>>
    BY <2>1, StagedLooksMounted
  <2> QED
    BY <1>1, <2>2 DEF RemoveAll
<1>2. UNCHANGED lost
  BY <1>1 DEF Next, HandlerStep, Receive, Validate, Stat, TryAcquire, Release, Reply,
              PublishStep, CheckTarget, CheckStaging, Bind, Remount, ReadLink, LinkTarget,
              StageStep, Attach, LinkStaging, AskMount, Mount, Populate,
              UnstageStep, FindDevice, RemoveLink, FindMount, Unmount, Unmounting, Detach,
              UnpublishStep, UnmountTarget, RemoveTarget, MakeDir, Crash, vars
<1> QED
  BY <1>2 DEF NeverDeletesData

\* Unless the manager bind mounts directories of the host's own file system, Unstage
\* never deletes the files of a volume, whatever fails or runs concurrently.
THEOREM DataIsSafe ==
  ASSUME MountSource # "host"
  PROVE  Spec => []NeverDeletesData
<1>1. Init => StagingShowsVolume /\ NeverDeletesData
  BY DEF Init, StagingShowsVolume, NeverDeletesData, Paths
<1>2. IInv /\ StagingShowsVolume /\ NeverDeletesData /\ [Next]_vars
          => (StagingShowsVolume /\ NeverDeletesData)'
  BY NextKeepsStagingVisible, NextKeepsData
<1> QED
  BY <1>1, <1>2, InvariantHolds, PTL DEF Spec

-----------------------------------------------------------------------------
(***************************************************************************)
(* The answers: an OK is true, and a device is detached only after the     *)
(* last umount of its staging path.  Where every mount creates a file      *)
(* system anew, mounts stack on a staging path, and Unstage unmounts one   *)
(* of them, so that its OK says less.                                      *)
(***************************************************************************)

LEMMA SingleMount ==
  ASSUME NEW s \in Seq(Mounts), s # <<>>, Len(s) <= 1
  PROVE  Front(s) = <<>>
<1>1. Len(s) \in Nat /\ Len(s) # 0
  OBVIOUS
<1>2. Len(s) = 1
  BY <1>1
<1> QED
  BY <1>2 DEF Front

LEMMA AppendedMount ==
  ASSUME NEW s \in Seq(Mounts), NEW m \in Mounts
  PROVE  Append(s, m) # <<>>
<1>1. Len(Append(s, m)) = Len(s) + 1 /\ Len(s) \in Nat
  OBVIOUS
<1> QED
  BY <1>1

-----------------------------------------------------------------------------
\* The invariant.

MountsSources == "Mount" \in Implements /\ MountSource # "none"

\* A device is mounted once.
MountedOnce ==
    /\ StagingShowsVolume
    /\ MountSource = "device" => \A v \in Volumes : Len(mounts[v]) <= 1

\* Files are in a staging directory itself only if nothing is ever mounted there.
FilesUncovered ==
    /\ MountsSources => files = {}
    /\ ~MountsSources => \A v \in Volumes : mounts[v] = <<>>
    /\ \A v \in files : path[v] = "dir"

\* The device that handler c works with is that of its volume; Unstage knows one only
\* where the mount table names devices.
OwnDevice(c) ==
    \/ dev[c] \in {NoDevice, OtherDevice}
    \/ /\ pc[c] # "idle"
       /\ dev[c] = Vol(c)
       /\ req[c].op = "Unstage" => MountSource = "device"

\* What handler c is asked for and what it has done to its volume.
Progress(c) ==
    /\ pc[c] \in {"checkTarget", "checkStaging", "bind", "remount", "askMount", "mount", "populate"} =>
           req[c].access # "block"
    /\ pc[c] \in {"readLink", "linkTarget", "linkStaging"} => req[c].access = "block"
    /\ pc[c] = "mount" => MountsSources
    /\ pc[c] = "populate" /\ MountsSources => mounts[Vol(c)] # <<>>
    /\ pc[c] = "unmount" /\ MountSource = "device" => dev[c] = Vol(c)
    /\ pc[c] = "detach" /\ MountSource # "fresh" =>
           mounts[Vol(c)] = <<>> /\ Vol(c) \notin files

AnswerIsTrue(c) ==
    pc[c] = "release" /\ code[c] = "OK" =>
        CASE req[c].op = "Stage"     -> Provisioned(req[c])
          [] req[c].op = "Publish"   -> Published(req[c])
          [] req[c].op = "Unpublish" -> path[Target(c)] # "link" /\ mounts[Target(c)] = <<>>
          [] req[c].op = "Unstage"   ->
                 MountSource = "fresh" \/ (mounts[Vol(c)] = <<>> /\ Vol(c) \notin files)

Answers ==
    /\ MountedOnce
    /\ FilesUncovered
    /\ \A c \in Calls : OwnDevice(c) /\ Progress(c) /\ AnswerIsTrue(c)

-----------------------------------------------------------------------------
\* The staging paths.

LEMMA NextKeepsMountedOnce ==
  ASSUME IInv, MountedOnce, [Next]_vars
  PROVE  MountedOnce'
<1>0. mounts \in [Paths -> Seq(Mounts)] /\ Volumes \subseteq Paths
  BY DEF IInv, TypeOK, Paths
<1>1. StagingShowsVolume'
  BY NextKeepsStagingVisible DEF MountedOnce
<1>2. ASSUME MountSource = "device", NEW v \in Volumes
      PROVE  Len(mounts'[v]) <= 1
  <2>0. mounts[v] \in Seq(Mounts) /\ Len(mounts[v]) <= 1
    BY <1>0, <1>2 DEF MountedOnce
  <2>1. CASE mounts'[v] = mounts[v]
    BY <2>0, <2>1
  <2>2. ASSUME NEW c \in Calls, Mount(c)
        PROVE  Len(mounts'[v]) <= 1
    <3>1. CASE v = Vol(c) /\ ~MountedAlready(v) /\ Push(v, SourceShows)
      <4>1. mounts[v] = <<>>
        BY <1>2, <3>1, StagedLooksMounted DEF MountedAlready, LooksMounted, MountedOnce
      <4>2. mounts'[v] = Append(mounts[v], [fs |-> SourceShows, readOnly |-> FALSE])
        BY <1>0, <3>1 DEF Push
      <4>3. [fs |-> SourceShows, readOnly |-> FALSE] \in Mounts
        BY DEF Mounts, SourceShows
      <4> QED
        BY <2>0, <4>1, <4>2, <4>3
    <3>2. CASE mounts'[v] = mounts[v]
      BY <2>0, <3>2
    <3> QED
      BY <1>0, <2>2, <3>1, <3>2 DEF Mount, Push
  <2>3. ASSUME NEW c \in Calls, Unmount(c)
        PROVE  Len(mounts'[v]) <= 1
    <3>1. CASE v = Vol(c) /\ mounts[v] # <<>> /\ Pop(v)
      <4>1. mounts'[v] = SubSeq(mounts[v], 1, Len(mounts[v]) - 1)
        BY <1>0, <3>1 DEF Pop, Front
      <4> QED
        BY <2>0, <3>1, <4>1
    <3>2. CASE mounts'[v] = mounts[v]
      BY <2>0, <3>2
    <3> QED
      BY <1>0, <2>3, <3>1, <3>2 DEF Unmount, Unmounting, Pop
  <2> QED
    BY <2>1, <2>2, <2>3, StagingMounts
<1> QED
  BY <1>1, <1>2 DEF MountedOnce

\* Where nothing is ever mounted nothing is mounted.
LEMMA NextKeepsUnmounted ==
  ASSUME IInv, Answers, [Next]_vars, ~MountsSources, NEW v \in Volumes
  PROVE  mounts'[v] = <<>>
<1>1. mounts[v] = <<>> /\ \A u \in Volumes : mounts[u] = <<>>
  BY DEF Answers, FilesUncovered
<1>2. ASSUME NEW c \in Calls, Mount(c)
      PROVE  FALSE
  BY <1>2 DEF Mount, Answers, Progress
<1>3. ASSUME NEW c \in Calls, Unmount(c)
      PROVE  UNCHANGED mounts
  <2>1. Vol(c) \in Volumes
    BY <1>3, WorkingOnPaths DEF IInv, Unmount
  <2> QED
    BY <1>1, <1>3, <2>1 DEF Unmount, Unmounting
<1> QED
  BY <1>1, <1>2, <1>3, StagingMounts

\* Files come and go only with Populate and RemoveAll.
LEMMA FilesChange ==
  ASSUME [Next]_vars
  PROVE  files' = files \/ \E c \in Calls : Populate(c) \/ RemoveAll(c)
  BY DEF Next, HandlerStep, Receive, Validate, Stat, TryAcquire, Release, Reply,
         PublishStep, CheckTarget, CheckStaging, Bind, Remount, ReadLink, LinkTarget,
         StageStep, Attach, LinkStaging, AskMount, Mount,
         UnstageStep, FindDevice, RemoveLink, FindMount, Unmount, Unmounting, Detach,
         UnpublishStep, UnmountTarget, RemoveTarget, MakeDir, Crash, vars

\* A directory that holds files stays until RemoveAll.
LEMMA DirectoriesStay ==
  ASSUME IInv, [Next]_vars, NEW v \in Volumes, path[v] = "dir",
         \A c \in Calls : ~RemoveAll(c)
  PROVE  path'[v] = "dir"
<1>0. path \in [Paths -> {"absent", "dir", "link"}] /\ v \in Paths
  BY DEF IInv, TypeOK, Paths
<1>1. ASSUME NEW c \in Calls, RemoveTarget(c)
      PROVE  path'[v] = "dir"
  <2>1. Target(c) # v
    BY <1>1, WorkingOnPaths, PathsAssumption DEF IInv, RemoveTarget, UnpublishSteps
  <2> QED
    BY <1>0, <1>1, <2>1 DEF RemoveTarget
<1>2. ASSUME NEW c \in Calls, RemoveLink(c)
      PROVE  path'[v] = "dir"
  <2>1. Vol(c) # v
    BY <1>2 DEF RemoveLink, IInv, ChecksHoldAtUse, CheckHolds
  <2> QED
    BY <1>0, <1>2, <2>1 DEF RemoveLink
<1>3. ASSUME NEW c \in Calls, LinkTarget(c) \/ LinkStaging(c)
      PROVE  path'[v] = "dir"
  BY <1>0, <1>3 DEF LinkTarget, LinkStaging, Symlink
<1>4. ASSUME NEW p \in Paths, MakeDir(p)
      PROVE  path'[v] = "dir"
  BY <1>0, <1>4 DEF MakeDir
<1>5. ASSUME NEW c \in Calls,
             \/ CheckTarget(c) \/ CheckStaging(c) \/ Bind(c) \/ Remount(c) \/ ReadLink(c)
             \/ Attach(c) \/ AskMount(c) \/ Mount(c) \/ Populate(c)
             \/ FindDevice(c) \/ FindMount(c) \/ Unmount(c) \/ Detach(c) \/ UnmountTarget(c)
             \/ \E r \in Requests : Receive(c, r)
             \/ Validate(c) \/ Stat(c) \/ TryAcquire(c) \/ Release(c) \/ Reply(c)
      PROVE  path' = path
  BY <1>5 DEF CheckTarget, CheckStaging, Bind, Remount, ReadLink, Attach, AskMount, Mount, Populate,
              FindDevice, FindMount, Unmount, Unmounting, Detach, UnmountTarget,
              Receive, Validate, Stat, TryAcquire, Release, Reply
<1>6. CASE Crash \/ UNCHANGED vars
  BY <1>6 DEF Crash, vars
<1> QED
  BY <1>0, <1>1, <1>2, <1>3, <1>4, <1>5, <1>6
     DEF Next, HandlerStep, PublishStep, StageStep, UnstageStep, UnpublishStep

LEMMA NextKeepsUncovered ==
  ASSUME IInv, Answers, [Next]_vars
  PROVE  FilesUncovered'
<1>0. /\ files \subseteq Volumes /\ FilesUncovered
      /\ path \in [Paths -> {"absent", "dir", "link"}] /\ Volumes \subseteq Paths
  BY DEF IInv, TypeOK, Answers, Paths
<1>1. ~MountsSources => \A v \in Volumes : mounts'[v] = <<>>
  BY NextKeepsUnmounted
<1>2. ASSUME NEW c \in Calls, Populate(c)
      PROVE  (MountsSources => files' = {}) /\ \A v \in files' : path'[v] = "dir"
  <2>1. MountsSources => mounts[Vol(c)] # <<>>
    BY <1>2 DEF Populate, Answers, Progress
  <2> QED
    BY <1>0, <1>2, <2>1 DEF Populate, FilesUncovered
<1>3. ASSUME NEW c \in Calls, RemoveAll(c)
      PROVE  (MountsSources => files' = {}) /\ \A v \in files' : path'[v] = "dir"
  BY <1>0, <1>3 DEF RemoveAll, FilesUncovered
<1>4. ASSUME files' = files, \A c \in Calls : ~RemoveAll(c)
      PROVE  (MountsSources => files' = {}) /\ \A v \in files' : path'[v] = "dir"
  BY <1>0, <1>4, DirectoriesStay DEF FilesUncovered
<1> QED
  BY <1>1, <1>2, <1>3, <1>4, FilesChange DEF FilesUncovered, MountsSources
-----------------------------------------------------------------------------
\* The handlers.

CallHolds(c) == OwnDevice(c) /\ Progress(c) /\ AnswerIsTrue(c)

\* An answer stays true as long as the mounts, links and files it is about do.
LEMMA SameAnswer ==
  ASSUME IInv, NEW d \in Calls, AnswerIsTrue(d), pc[d] # "idle",
         pc'[d] = pc[d], req'[d] = req[d], code'[d] = code[d],
         path'[Vol(d)] = "link" <=> path[Vol(d)] = "link",
         mounts'[Vol(d)] = mounts[Vol(d)],
         Vol(d) \in files' <=> Vol(d) \in files,
         req[d].op \in {"Publish", "Unpublish"} =>
             /\ path'[Target(d)] = "link" <=> path[Target(d)] = "link"
             /\ mounts'[Target(d)] = mounts[Target(d)]
  PROVE  AnswerIsTrue(d)'
<1> USE DEF AnswerIsTrue, Vol, Target
<1>1. req[d].op \in {"Stage", "Unstage", "Publish", "Unpublish"}
  BY RequestFields DEF IInv, TypeOK
<1>2. CASE req[d].op = "Stage"
  BY <1>2 DEF Provisioned
<1>3. CASE req[d].op = "Unstage"
  BY <1>3
<1>4. CASE req[d].op = "Publish"
  BY <1>4 DEF Published
<1>5. CASE req[d].op = "Unpublish"
  BY <1>5
<1> QED
  BY <1>1, <1>2, <1>3, <1>4, <1>5

\* A step of one handler leaves alone what another one has done.
LEMMA OthersKeepAnswers ==
  ASSUME IInv, Answers, NEW c \in Calls, WorkingStep(c), NEW d \in Calls \ {c}
  PROVE  CallHolds(d)'
<1>1. /\ pc[c] \in Working
      /\ pc'[d] = pc[d] /\ UNCHANGED req /\ dev'[d] = dev[d]
      /\ \A p \in Paths \ Touched(c) : path'[p] = path[p] /\ mounts'[p] = mounts[p]
  BY Confined DEF IInv, TypeOK
<1>2. code'[d] = code[d] /\ files' \ {Vol(c)} = files \ {Vol(c)}
  <2>1. code \in [Calls -> Codes]
    BY DEF IInv, TypeOK
  <2>2. UNCHANGED code \/ \E a \in Codes : code' = [code EXCEPT ![c] = a]
    BY DEF WorkingStep, PublishStep, CheckTarget, CheckStaging, Bind, Remount, ReadLink,
           LinkTarget, Symlink, StageStep, Attach, LinkStaging, AskMount, Mount, Populate,
           UnstageStep, FindDevice, RemoveLink, FindMount, Unmount, Unmounting, RemoveAll,
           Detach, UnpublishStep, UnmountTarget, RemoveTarget, Goto, Return, Codes
  <2>3. files' \ {Vol(c)} = files \ {Vol(c)}
    BY DEF WorkingStep, PublishStep, CheckTarget, CheckStaging, Bind, Remount, ReadLink,
           LinkTarget, StageStep, Attach, LinkStaging, AskMount, Mount, Populate,
           UnstageStep, FindDevice, RemoveLink, FindMount, Unmount, Unmounting, RemoveAll,
           Detach, UnpublishStep, UnmountTarget, RemoveTarget
  <2> QED
    BY <2>1, <2>2, <2>3
<1>3. CallHolds(d)
  BY DEF Answers, CallHolds
<1>4. CASE pc[d] \notin Working
  BY <1>1, <1>2, <1>3, <1>4
     DEF CallHolds, OwnDevice, Progress, AnswerIsTrue, Vol,
         Working, PublishSteps, StageSteps, UnstageSteps, UnpublishSteps
<1>5. CASE pc[d] \in Working
  <2>1. Vol(c) # Vol(d)
    BY <1>1, <1>5 DEF IInv, LockDiscipline
  <2>2. /\ Vol(c) \in Volumes
        /\ pc[c] \in PublishSteps \cup UnpublishSteps =>
               Target(c) \in Targets /\ VolumeOf[Target(c)] = Vol(c)
    BY <1>1, WorkingOnPaths
       DEF IInv, Working, PublishSteps, StageSteps, UnstageSteps, UnpublishSteps
  <2>3. /\ Vol(d) \in Volumes /\ req[d].vol \in Volumes
        /\ req[d].op \in {"Publish", "Unpublish"} =>
               Target(d) \in Targets /\ VolumeOf[Target(d)] = Vol(d)
    <3>1. req[d] \in Requests
      BY <1>5 DEF IInv, TypeOK, Working, PublishSteps, StageSteps, UnstageSteps, UnpublishSteps
    <3> QED
      BY <3>1, RequestFields DEF Vol, Target
  <2>4. path'[Vol(d)] = path[Vol(d)] /\ mounts'[Vol(d)] = mounts[Vol(d)]
    BY <1>1, <2>1, <2>2, <2>3, PathsAssumption DEF Touched, Paths
  <2>5. req[d].op \in {"Publish", "Unpublish"} =>
            path'[Target(d)] = path[Target(d)] /\ mounts'[Target(d)] = mounts[Target(d)]
    BY <1>1, <2>1, <2>2, <2>3, PathsAssumption DEF Touched, Paths
  <2>6. Vol(d) \in files' <=> Vol(d) \in files
    BY <1>2, <2>1
  <2>7. OwnDevice(d)' /\ Progress(d)'
    BY <1>1, <1>3, <2>4, <2>6 DEF CallHolds, OwnDevice, Progress, Vol
  <2>8. AnswerIsTrue(d)'
    <3>1. pc[d] # "idle"
      BY <1>5 DEF Working, PublishSteps, StageSteps, UnstageSteps, UnpublishSteps
    <3> QED
      BY <1>1, <1>2, <1>3, <2>4, <2>5, <2>6, <3>1, SameAnswer DEF CallHolds
  <2> QED
    BY <2>7, <2>8 DEF CallHolds
<1> QED
  BY <1>4, <1>5

LEMMA PublishKeepsAnswer ==
  ASSUME IInv, Answers, NEW c \in Calls, PublishStep(c)
  PROVE  CallHolds(c)'
<1> USE DEF Goto, Return, CallHolds, OwnDevice, Progress, AnswerIsTrue, Vol, Target
<1>0. /\ pc \in [Calls -> Steps] /\ code \in [Calls -> Codes]
      /\ dev \in [Calls -> Volumes \cup {NoDevice, OtherDevice}]
      /\ path \in [Paths -> {"absent", "dir", "link"}]
      /\ mounts \in [Paths -> Seq(Mounts)]
      /\ req' = req /\ CallHolds(c)
  BY Confined DEF IInv, TypeOK, Answers, WorkingStep
<1>1. pc[c] \in PublishSteps /\ req[c].op = "Publish" /\ Target(c) \in Paths
  BY WorkingOnPaths
     DEF IInv, StepsMatchRequest, PublishStep, CheckTarget, CheckStaging, Bind, Remount,
         ReadLink, LinkTarget, PublishSteps
<1>2. CASE CheckTarget(c)
  <2>1. LooksMounted(Target(c)) => mounts[Target(c)] # <<>>
    BY DEF LooksMounted, Shown
  <2> QED
    BY <1>0, <1>1, <1>2, <2>1 DEF CheckTarget, IsVolumePathMounted, Published
<1>3. CASE CheckStaging(c)
  BY <1>0, <1>1, <1>3 DEF CheckStaging
<1>4. CASE Bind(c)
  BY <1>0, <1>1, <1>4 DEF Bind
<1>5. CASE Remount(c)
  <2>1. RemountTop(Target(c), req[c].readOnly) => mounts'[Target(c)] # <<>>
    <3>1. mounts[Target(c)] \in Seq(Mounts) /\ mounts[Target(c)] # <<>>
      BY <1>0, <1>1, <1>5 DEF Remount, IInv, ChecksHoldAtUse, CheckHolds
    <3>2. /\ Front(mounts[Target(c)]) \in Seq(Mounts)
          /\ [Last(mounts[Target(c)]) EXCEPT !.readOnly = req[c].readOnly] \in Mounts
      <4>1. req[c].readOnly \in BOOLEAN
        BY <1>1, WorkingOnPaths DEF IInv, PublishSteps
      <4> QED
        BY <3>1, <4>1, FrontIsStack, LastIsMount DEF Mounts
    <3>3. Append(Front(mounts[Target(c)]),
                 [Last(mounts[Target(c)]) EXCEPT !.readOnly = req[c].readOnly]) # <<>>
      BY <3>2, AppendedMount
    <3> QED
      BY <1>0, <1>1, <3>3, Zenon DEF RemountTop
  <2> QED
    BY <1>0, <1>1, <1>5, <2>1 DEF Remount, Published
<1>6. CASE ReadLink(c)
  BY <1>0, <1>1, <1>6 DEF ReadLink, DeviceAt
<1>7. CASE LinkTarget(c)
  BY <1>0, <1>1, <1>7 DEF LinkTarget, Symlink, Published
<1> QED
  BY <1>2, <1>3, <1>4, <1>5, <1>6, <1>7 DEF PublishStep

LEMMA StageKeepsAnswer ==
  ASSUME IInv, Answers, NEW c \in Calls, StageStep(c)
  PROVE  CallHolds(c)'
<1> USE DEF Goto, Return, CallHolds, OwnDevice, Progress, AnswerIsTrue, Vol, Target
<1>0. /\ pc \in [Calls -> Steps] /\ code \in [Calls -> Codes]
      /\ dev \in [Calls -> Volumes \cup {NoDevice, OtherDevice}]
      /\ path \in [Paths -> {"absent", "dir", "link"}]
      /\ mounts \in [Paths -> Seq(Mounts)]
      /\ req' = req /\ CallHolds(c)
  BY Confined DEF IInv, TypeOK, Answers, WorkingStep
<1>1. pc[c] \in StageSteps /\ req[c].op = "Stage" /\ Vol(c) \in Paths
  BY WorkingOnPaths
     DEF IInv, StepsMatchRequest, StageStep, Attach, LinkStaging, AskMount, Mount, Populate,
         StageSteps
<1>2. CASE Attach(c)
  BY <1>0, <1>1, <1>2 DEF Attach, AfterAttach
<1>3. CASE LinkStaging(c)
  BY <1>0, <1>1, <1>3 DEF LinkStaging, Symlink, Provisioned
<1>4. CASE AskMount(c)
  BY <1>0, <1>1, <1>4 DEF AskMount, MountsSources
<1>5. CASE Mount(c)
  <2>1. Push(Vol(c), SourceShows) => mounts'[Vol(c)] # <<>>
    BY <1>0, <1>1, ShownAfterPush DEF SourceShows
  <2> QED
    BY <1>0, <1>1, <1>5, <2>1 DEF Mount
<1>6. CASE Populate(c)
  BY <1>0, <1>1, <1>6 DEF Populate, Provisioned, MountsSources
<1> QED
  BY <1>2, <1>3, <1>4, <1>5, <1>6 DEF StageStep

\* The umount of Unstage takes the only mount away.
LEMMA UnmountTakesAll ==
  ASSUME MountSource # "fresh", IInv, Answers, NEW c \in Calls, Unmount(c), pc'[c] = "detach"
  PROVE  mounts'[Vol(c)] = <<>> /\ files' = {}
<1>1. /\ Vol(c) \in Volumes /\ Vol(c) \in Paths
      /\ mounts \in [Paths -> Seq(Mounts)] /\ pc \in [Calls -> Steps]
      /\ LooksMounted(Vol(c))
  BY WorkingOnPaths DEF IInv, TypeOK, Unmount, ChecksHoldAtUse, CheckHolds
<1>2. mounts[Vol(c)] # <<>> /\ Last(mounts[Vol(c)]).fs = "own"
  BY <1>1 DEF LooksMounted, Shown
<1>3. MountsSources /\ files' = {}
  BY <1>1, <1>2 DEF Answers, FilesUncovered, Unmount, Unmounting
<1>4. SourceShows = "own"
  BY <1>1, <1>2 DEF Answers, MountedOnce, StagingShowsVolume, Last
<1>5. MountSource = "device"
  BY <1>3, <1>4, SettingsAssumption DEF MountsSources, SourceShows
<1>6. Front(mounts[Vol(c)]) = <<>>
  <2>1. Len(mounts[Vol(c)]) <= 1
    BY <1>1, <1>5 DEF Answers, MountedOnce
  <2>2. mounts[Vol(c)] \in Seq(Mounts)
    BY <1>1
  <2> QED
    BY <1>2, <2>1, <2>2, SingleMount
<1>7. Pop(Vol(c))
  BY <1>1, <1>2 DEF Unmount, Unmounting, Return
<1> QED
  BY <1>1, <1>3, <1>6, <1>7 DEF Pop

LEMMA UnstageKeepsAnswer ==
  ASSUME IInv, Answers, NEW c \in Calls, UnstageStep(c)
  PROVE  CallHolds(c)'
<1> USE DEF Goto, Return, CallHolds, OwnDevice, Progress, AnswerIsTrue, Vol, Target
<1>0. /\ pc \in [Calls -> Steps] /\ code \in [Calls -> Codes]
      /\ dev \in [Calls -> Volumes \cup {NoDevice, OtherDevice}]
      /\ path \in [Paths -> {"absent", "dir", "link"}]
      /\ mounts \in [Paths -> Seq(Mounts)]
      /\ req' = req /\ CallHolds(c)
  BY Confined DEF IInv, TypeOK, Answers, WorkingStep
<1>1. pc[c] \in UnstageSteps /\ req[c].op = "Unstage" /\ Vol(c) \in Paths
  BY WorkingOnPaths
     DEF IInv, StepsMatchRequest, UnstageStep, FindDevice, RemoveLink, FindMount, Unmount,
         RemoveAll, Detach, UnstageSteps
<1>2. CASE FindDevice(c)
  BY <1>0, <1>1, <1>2 DEF FindDevice
<1>3. CASE RemoveLink(c)
  <2>1. path[Vol(c)] = "link"
    BY <1>3 DEF RemoveLink, IInv, ChecksHoldAtUse, CheckHolds
  <2>2. mounts[Vol(c)] = <<>> /\ Vol(c) \notin files
    BY <1>1, <2>1 DEF IInv, MountsOnDirectories, Answers, FilesUncovered
  <2> QED
    BY <1>0, <1>1, <1>3, <2>2 DEF RemoveLink
<1>4. CASE FindMount(c)
  BY <1>0, <1>1, <1>4 DEF FindMount, DeviceOfFirst
<1>5. CASE Unmount(c)
  <2>1. pc'[c] \in {"detach", "release"} /\ (pc'[c] = "release" => code'[c] = "Unknown")
    BY <1>0, <1>5 DEF Unmount, Unmounting
  <2>2. dev' = dev
    BY <1>5 DEF Unmount, Unmounting
  <2> QED
    BY <1>0, <1>1, <1>5, <2>1, <2>2, UnmountTakesAll DEF Unmount
<1>6. CASE RemoveAll(c)
  BY <1>0, <1>1, <1>6 DEF RemoveAll
<1>7. CASE Detach(c)
  BY <1>0, <1>1, <1>7 DEF Detach
<1> QED
  BY <1>2, <1>3, <1>4, <1>5, <1>6, <1>7 DEF UnstageStep

LEMMA UnpublishKeepsAnswer ==
  ASSUME IInv, Answers, NEW c \in Calls, UnpublishStep(c)
  PROVE  CallHolds(c)'
<1> USE DEF Goto, Return, CallHolds, OwnDevice, Progress, AnswerIsTrue, Vol, Target
<1>0. /\ pc \in [Calls -> Steps] /\ code \in [Calls -> Codes]
      /\ dev \in [Calls -> Volumes \cup {NoDevice, OtherDevice}]
      /\ path \in [Paths -> {"absent", "dir", "link"}]
      /\ req' = req /\ CallHolds(c)
  BY Confined DEF IInv, TypeOK, Answers, WorkingStep
<1>1. pc[c] \in UnpublishSteps /\ req[c].op = "Unpublish" /\ Target(c) \in Paths
  BY WorkingOnPaths
     DEF IInv, StepsMatchRequest, UnpublishStep, UnmountTarget, RemoveTarget, UnpublishSteps
<1>2. CASE UnmountTarget(c)
  BY <1>0, <1>1, <1>2 DEF UnmountTarget, Unmounting
<1>3. CASE RemoveTarget(c)
  BY <1>0, <1>1, <1>3 DEF RemoveTarget
<1> QED
  BY <1>2, <1>3 DEF UnpublishStep

\* The handlers of the two access types do not meet.
LEMMA FirstStepOfAccess ==
  ASSUME NEW r \in Requests
  PROVE  /\ FirstStep(r) \in {"attach", "findDevice", "unmountTarget", "readLink", "checkTarget"}
         /\ FirstStep(r) = "readLink" => r.access = "block"
         /\ FirstStep(r) = "checkTarget" => r.access # "block"
<1>1. r.op \in {"Stage", "Unstage", "Publish", "Unpublish"}
  BY RequestFields
<1>2. CASE r.op = "Publish"
  BY <1>2 DEF FirstStep
<1>3. CASE r.op # "Publish"
  BY <1>1, <1>3 DEF FirstStep
<1> QED
  BY <1>2, <1>3

LEMMA NextKeepsCalls ==
  ASSUME IInv, Answers, [Next]_vars, NEW d \in Calls
  PROVE  CallHolds(d)'
<1>0. /\ pc \in [Calls -> Steps] /\ req \in [Calls -> Requests \cup {NoRequest}]
      /\ dev \in [Calls -> Volumes \cup {NoDevice, OtherDevice}] /\ code \in [Calls -> Codes]
      /\ path \in [Paths -> {"absent", "dir", "link"}]
      /\ CallHolds(d)
  BY DEF IInv, TypeOK, Answers, CallHolds
<1>1. ASSUME NEW c \in Calls, WorkingStep(c)
      PROVE  CallHolds(d)'
  BY <1>1, OthersKeepAnswers, PublishKeepsAnswer, StageKeepsAnswer, UnstageKeepsAnswer,
     UnpublishKeepsAnswer
     DEF WorkingStep
<1>2. ASSUME NEW c \in Calls,
             \/ \E r \in Requests : Receive(c, r)
             \/ Validate(c) \/ Stat(c) \/ TryAcquire(c) \/ Release(c) \/ Reply(c)
      PROVE  CallHolds(d)'
  <2>0. UNCHANGED <<path, mounts, files>>
    BY <1>2 DEF Receive, Validate, Stat, TryAcquire, Release, Reply
  <2>1. CASE c = d
    <3>1. CASE TryAcquire(c)
      <4>1. req[d] \in Requests /\ pc[d] # "idle"
        BY <2>1, <3>1 DEF TryAcquire, IInv, TypeOK
      <4> QED
        BY <1>0, <2>1, <3>1, <4>1, FirstStepOfAccess
           DEF TryAcquire, Goto, Refuse, CallHolds, OwnDevice, Progress, AnswerIsTrue, Vol
    <3>2. CASE Reply(c) \/ \E r \in Requests : Receive(c, r)
      BY <1>0, <2>1, <3>2
         DEF Reply, Receive, CallHolds, OwnDevice, Progress, AnswerIsTrue
    <3>3. CASE Validate(c) \/ Stat(c) \/ Release(c)
      BY <1>0, <2>1, <3>3
         DEF Validate, Stat, Release, Goto, Refuse, CallHolds, OwnDevice, Progress,
             AnswerIsTrue, Vol
    <3> QED
      BY <1>2, <3>1, <3>2, <3>3
  <2>2. CASE c # d
    <3>1. pc'[d] = pc[d] /\ req'[d] = req[d] /\ dev'[d] = dev[d] /\ code'[d] = code[d]
      BY <1>0, <1>2, <2>2
         DEF Receive, Validate, Stat, TryAcquire, Release, Reply, Goto, Refuse
    <3> QED
      BY <1>0, <2>0, <3>1
         DEF CallHolds, OwnDevice, Progress, AnswerIsTrue, Provisioned, Published, Vol, Target
  <2> QED
    BY <2>1, <2>2
<1>3. ASSUME NEW p \in Paths, MakeDir(p)
      PROVE  CallHolds(d)'
  <2>1. /\ UNCHANGED <<handlers, mounts, files>>
        /\ \A q \in Paths : (path'[q] = "link") <=> (path[q] = "link")
    BY <1>0, <1>3 DEF MakeDir
  <2>2. pc[d] # "idle" =>
            /\ req[d].vol \in Paths
            /\ req[d].op \in {"Publish", "Unpublish"} => req[d].target \in Paths
    BY RequestFields DEF IInv, TypeOK, Paths
  <2>3. OwnDevice(d)' /\ Progress(d)'
    BY <1>0, <2>1 DEF CallHolds, OwnDevice, Progress, Vol
  <2>4. AnswerIsTrue(d)'
    <3>1. CASE pc[d] = "idle"
      BY <2>1, <3>1 DEF AnswerIsTrue
    <3>2. CASE pc[d] # "idle"
      BY <1>0, <2>1, <2>2, <3>2, SameAnswer DEF CallHolds, Vol, Target
    <3> QED
      BY <3>1, <3>2
  <2> QED
    BY <2>3, <2>4 DEF CallHolds
<1>4. CASE Crash
  BY <1>4 DEF Crash, CallHolds, OwnDevice, Progress, AnswerIsTrue
<1>5. CASE UNCHANGED vars
  BY <1>0, <1>5
     DEF vars, CallHolds, OwnDevice, Progress, AnswerIsTrue, Provisioned, Published, Vol, Target
<1> QED
  BY <1>1, <1>2, <1>3, <1>4, <1>5 DEF Next, HandlerStep, WorkingStep

-----------------------------------------------------------------------------

LEMMA InitAnswers == Init => Answers
  BY DEF Init, Answers, MountedOnce, StagingShowsVolume, FilesUncovered, OwnDevice, Progress,
         AnswerIsTrue, Paths

LEMMA NextKeepsAnswers == IInv /\ Answers /\ [Next]_vars => Answers'
<1> SUFFICES ASSUME IInv, Answers, [Next]_vars PROVE Answers'
  OBVIOUS
<1>1. MountedOnce'
  BY NextKeepsMountedOnce DEF Answers
<1>2. \A c \in Calls : CallHolds(c)'
  BY NextKeepsCalls
<1> QED
  BY <1>1, <1>2, NextKeepsUncovered DEF Answers, CallHolds

LEMMA AlwaysAnswers == Spec => []Answers
  BY NextKeepsAnswers, InitAnswers, InvariantHolds, PTL DEF Spec

\* Unless the manager names a file system that every mount creates anew, an OK is true:
\* the volume is where it was asked for, or is gone.
THEOREM OKAnswersAreTrue == ASSUME MountSource # "fresh" PROVE Spec => []OKIsTrue
<1>1. Answers => OKIsTrue
  BY DEF Answers, AnswerIsTrue, OKIsTrue
<1> QED
  BY <1>1, AlwaysAnswers, PTL

\* What Detach takes away is the device of its volume, which is gone from the path.
LEMMA DetachesOwn ==
  ASSUME IInv, Answers, NEW c \in Calls, Detach(c), dev[c] \in Volumes
  PROVE  dev[c] = Vol(c) /\ mounts[Vol(c)] = <<>> /\ Vol(c) \notin files
<1>1. dev[c] = Vol(c) /\ (req[c].op = "Unstage" => MountSource = "device")
  BY PathsAssumption DEF Answers, OwnDevice
<1>2. pc[c] = "detach" /\ req[c].op = "Unstage"
  BY DEF Detach, IInv, StepsMatchRequest, UnstageSteps
<1> QED
  BY <1>1, <1>2 DEF Answers, Progress

\* A device is detached only when its staging path has no mount, whichever step of
\* another handler comes between the umount and DetachBlock.
THEOREM DetachIsLast == Spec => DetachesUnmounted
<1>1. IInv /\ Answers /\ [Next]_vars
          => [\A v \in Volumes : v \in attached /\ v \notin attached' => mounts[v] = <<>>]_vars
  <2> SUFFICES ASSUME IInv, Answers, [Next]_vars, NEW v \in Volumes,
                      v \in attached, v \notin attached'
               PROVE  mounts[v] = <<>>
    OBVIOUS
  <2>1. PICK c \in Calls : Detach(c)
    BY DEF Next, HandlerStep, Receive, Validate, Stat, TryAcquire, Release, Reply,
           PublishStep, CheckTarget, CheckStaging, Bind, Remount, ReadLink, LinkTarget,
           StageStep, Attach, LinkStaging, AskMount, Mount, Populate,
           UnstageStep, FindDevice, RemoveLink, FindMount, Unmount, Unmounting, RemoveAll,
           UnpublishStep, UnmountTarget, RemoveTarget, MakeDir, Crash, vars
  <2>2. v = dev[c]
    BY <2>1 DEF Detach
  <2> QED
    BY <2>1, <2>2, DetachesOwn
<1> QED
  BY <1>1, InvariantHolds, AlwaysAnswers, PTL DEF Spec, DetachesUnmounted
=============================================================================
