------------------------ MODULE DeviceUtils_proofs --------------------------
(***************************************************************************)
(* Proofs about DeviceUtils, for any nodes, disks and bounds.              *)
(***************************************************************************)
EXTENDS DeviceUtils, TLAPS

\* What VerifyDevicePath keeps to itself.
CallTyped ==
    /\ pc \in Steps
    /\ node \in Nodes \cup {NoNode}
    /\ pc \in {"serial", "trigger"} => node \in Nodes
    /\ todo \subseteq Known
    /\ answer \in Answers

\* The host.  A disk has one node.
HostTyped ==
    /\ disk \in [Nodes -> Disks \cup {NoDisk}]
    /\ \A m, n \in Nodes : disk[m] = disk[n] /\ disk[m] # NoDisk => m = n
    /\ link \in Nodes \cup {NoNode}
    /\ events \subseteq Nodes

CountsTyped == tries \in 0..MinTries /\ changes \in 0..MaxChanges /\ faults \in 0..MaxFaults

FlagsTyped == timeUp \in BOOLEAN /\ quiet \in BOOLEAN /\ prompt \in BOOLEAN /\ missing \in BOOLEAN

Typed == CallTyped /\ HostTyped /\ CountsTyped /\ FlagsTyped

-----------------------------------------------------------------------------
\* Type correctness.

LEMMA InitTyped == Init => Typed
<1> SUFFICES ASSUME Init PROVE Typed
  OBVIOUS
<1>1. CallTyped
  BY DEF Init, CallTyped, Steps, Answers
<1>2. HostTyped
  BY DeviceAssumption DEF Init, HostTyped
<1>3. CountsTyped
  BY DeviceAssumption DEF Init, CountsTyped
<1>4. FlagsTyped
  BY Zenon DEF Init, FlagsTyped
<1> QED
  BY <1>1, <1>2, <1>3, <1>4 DEF Typed

LEMMA CallStaysTyped == ASSUME Typed, [Next]_vars PROVE CallTyped'
<1> USE DeviceAssumption DEF Typed, CallTyped, HostTyped, Steps, Answers, Goto, Return, NotYet, InUse
<1>1. CASE Begin \/ CheckTools \/ Tick \/ TimeUp \/ Stat \/ Resolve
  BY <1>1 DEF Begin, CheckTools, Tick, TimeUp, Stat, Resolve
<1>2. CASE Serial
  BY <1>2 DEF Serial
<1>3. CASE Glob
  BY <1>3 DEF Glob
<1>4. CASE Scan
  BY <1>4 DEF Scan
<1>5. CASE Trigger \/ End
  BY <1>5 DEF Trigger, End
<1>6. CASE \E n \in Nodes : Udev(n) \/ \E d \in Disks \cup {NoDisk} : Change(n, d)
  BY <1>6 DEF Udev, Change
<1>7. CASE UNCHANGED vars
  BY <1>7 DEF vars
<1> QED
  BY <1>1, <1>2, <1>3, <1>4, <1>5, <1>6, <1>7 DEF Next, Verify

LEMMA HostStaysTyped == ASSUME Typed, [Next]_vars PROVE HostTyped'
<1>1. CASE Begin \/ Verify
  <2>1. CASE Trigger
    BY <2>1 DEF Trigger, Typed, HostTyped, CallTyped
  <2>2. CASE ~Trigger
    <3>1. UNCHANGED host
      BY <1>1, <2>2, Zenon
         DEF Begin, Verify, CheckTools, Tick, TimeUp, Stat, Resolve, Serial, Glob, Scan, End
    <3> QED
      BY <3>1 DEF host, Typed, HostTyped
  <2> QED
    BY <2>1, <2>2
<1>2. CASE \E n \in Nodes : Udev(n)
  BY <1>2 DEF Udev, Typed, HostTyped
<1>3. CASE \E n \in Nodes : \E d \in Disks \cup {NoDisk} : Change(n, d)
  BY <1>3 DEF Change, Typed, HostTyped
<1>4. CASE UNCHANGED vars
  BY <1>4 DEF vars, host, Typed, HostTyped
<1> QED
  BY <1>1, <1>2, <1>3, <1>4 DEF Next

LEMMA CountsStayTyped == ASSUME Typed, [Next]_vars PROVE CountsTyped'
<1>1. tries' \in 0..MinTries
  BY DeviceAssumption
     DEF Typed, CountsTyped, Next, Begin, Verify, CheckTools, Tick, TimeUp, Stat, Resolve,
         Serial, Glob, Scan, Trigger, End, Udev, Change, vars
<1>2. changes' \in 0..MaxChanges
  BY DeviceAssumption
     DEF Typed, CountsTyped, Next, Begin, Verify, CheckTools, Tick, TimeUp, Stat, Resolve,
         Serial, Glob, Scan, Trigger, End, Udev, Change, host, vars
<1>3. faults' \in 0..MaxFaults
  BY DeviceAssumption
     DEF Typed, CountsTyped, Next, Begin, Verify, CheckTools, Tick, TimeUp, Stat, Resolve,
         Serial, Glob, Scan, Trigger, End, Udev, Change, Fails, vars
<1> QED
  BY <1>1, <1>2, <1>3 DEF CountsTyped

LEMMA FlagsStayTyped == ASSUME Typed, [Next]_vars PROVE FlagsTyped'
BY Zenon
   DEF Typed, FlagsTyped, Next, Begin, Verify, CheckTools, Tick, TimeUp, Stat, Resolve,
       Serial, Glob, Scan, Trigger, End, Udev, Change, history, vars

LEMMA AlwaysTyped == Spec => []Typed
<1>1. Typed /\ [Next]_vars => Typed'
  BY CallStaysTyped, HostStaysTyped, CountsStayTyped, FlagsStayTyped DEF Typed
<1> QED
  BY <1>1, InitTyped, PTL DEF Spec

\* VerifyDevicePath is well typed, whatever comes, goes and fails.
THEOREM TypeCorrect == Spec => []TypeOK
<1>1. Typed => TypeOK
  BY DEF Typed, CallTyped, HostTyped, CountsTyped, FlagsTyped, TypeOK
<1> QED
  BY <1>1, AlwaysTyped, PTL

-----------------------------------------------------------------------------
\* True is true: while no disk comes or goes, udev cannot take the path away from the
\* wanted disk, because no other node is the wanted disk's.

Sure ==
    /\ quiet /\ pc = "serial" /\ disk[node] = Wanted => link = node
    /\ TrueIsTrue

LEMMA UdevKeepsTheRightPath ==
    ASSUME Typed, NEW n \in Nodes, Udev(n), link \in Nodes, disk[link] = Wanted
    PROVE  link' = link /\ disk' = disk
BY DeviceAssumption DEF Typed, HostTyped, Udev

LEMMA StaysSure == ASSUME Typed, Sure, [Next]_vars PROVE Sure'
<1> USE DEF Sure, TrueIsTrue
<1>1. CASE Resolve
  BY <1>1, Zenon DEF Resolve, Goto, Return, host, history
<1>2. CASE Serial
  BY <1>2, Zenon DEF Serial, Goto, Return, host, history
<1>3. CASE Begin \/ CheckTools \/ Tick \/ TimeUp \/ Stat \/ Glob \/ Scan \/ Trigger \/ End
  <2>1. pc' # "serial" /\ ~(pc' = "return" /\ answer' = "true")
    BY <1>3, SMT
       DEF Begin, CheckTools, Tick, TimeUp, Stat, Glob, Scan, Trigger, End, Goto, Return, NotYet
  <2> QED
    BY <2>1
<1>4. ASSUME NEW n \in Nodes, Udev(n) PROVE Sure'
  <2>1. UNCHANGED <<pc, node, answer, quiet, disk>>
    BY <1>4, Zenon DEF Udev, history
  <2>2. ASSUME quiet, pc = "serial", disk[node] = Wanted PROVE link' = node
    <3>1. node \in Nodes /\ link = node
      BY <2>2 DEF Typed, CallTyped
    <3> QED
      BY <1>4, <2>2, <3>1, UdevKeepsTheRightPath
  <2>3. ASSUME pc = "return", answer = "true", quiet PROVE link' = link
    <3>1. link \in Nodes /\ disk[link] = Wanted
      BY <2>3, DeviceAssumption
    <3> QED
      BY <1>4, <3>1, UdevKeepsTheRightPath
  <2> QED
    BY <2>1, <2>2, <2>3, Zenon
<1>5. CASE \E n \in Nodes : \E d \in Disks \cup {NoDisk} : Change(n, d)
  BY <1>5, Zenon DEF Change
<1>6. CASE UNCHANGED vars
  BY <1>6, Zenon DEF vars, host, history
<1> QED
  BY <1>1, <1>2, <1>3, <1>4, <1>5, <1>6, Zenon DEF Next, Verify

\* VerifyDevicePath answers true only for a path that leads to the wanted disk.
THEOREM TrueMeansFound == Spec => []TrueIsTrue
<1>1. Init => Sure
  BY DEF Init, Sure, TrueIsTrue
<1>2. Typed /\ Sure /\ [Next]_vars => Sure'
  BY StaysSure
<1>3. Sure => TrueIsTrue
  BY DEF Sure
<1> QED
  BY <1>1, <1>2, <1>3, AlwaysTyped, PTL DEF Spec

-----------------------------------------------------------------------------
\* A path that leads elsewhere is repaired.  The first attempt that reads another
\* disk finds w and asks udev; udev has done its work when the next attempt begins.

Attempt == {"stat", "resolve", "serial", "glob", "scan", "trigger"}

\* A call begins with no attempt made and no time passed.
Fresh == pc \in {"idle", "tools"} => tries = 0 /\ ~timeUp

Well(w) == w \in Known /\ disk[w] = Wanted /\ quiet /\ prompt /\ faults = 0 /\ ~missing

\* udev is at rest during an attempt.
AtRest == pc \in Attempt => events = {}

\* What an attempt has seen of the path is still so, and its search will find w.
OnTrack(w) ==
    /\ pc = "resolve" => InUse(link)
    /\ pc = "serial" => node = link /\ InUse(node)
    /\ pc = "scan" => w \in todo
    /\ pc = "trigger" => node = w

\* After the first attempt the path leads to w or udev has been asked.
Asked(w) == pc = "wait" /\ tries # 0 => link = w \/ w \in events

\* The attempt after time was up finds the path repaired.
LastOneFinds(w) ==
    /\ timeUp /\ pc \in {"stat", "resolve", "serial"} => link = w
    /\ pc \in {"wait", "glob", "scan", "trigger"} => ~timeUp

Progress(w) ==
    /\ AtRest
    /\ OnTrack(w)
    /\ Asked(w)
    /\ LastOneFinds(w)
    /\ pc = "return" => answer = "true"

Repairing == Fresh /\ \A w \in Known : Well(w) => Progress(w)

LEMMA StaysFresh == ASSUME Fresh, [Next]_vars PROVE Fresh'
<1> USE DEF Fresh
<1>1. CASE Begin \/ CheckTools
  BY <1>1, Zenon DEF Begin, CheckTools, Goto, Return
<1>2. CASE Tick \/ TimeUp \/ Stat \/ Resolve \/ Serial \/ Glob \/ Scan \/ Trigger
  <2>1. pc' \notin {"idle", "tools"}
    BY <1>2 DEF Tick, TimeUp, Stat, Resolve, Serial, Glob, Scan, Trigger, Goto, Return, NotYet
  <2> QED
    BY <2>1
<1>3. CASE End
  BY <1>3, Zenon DEF End
<1>4. CASE \E n \in Nodes : Udev(n) \/ \E d \in Disks \cup {NoDisk} : Change(n, d)
  BY <1>4, Zenon DEF Udev, Change
<1>5. CASE UNCHANGED vars
  BY <1>5, Zenon DEF vars
<1> QED
  BY <1>1, <1>2, <1>3, <1>4, <1>5, Zenon DEF Next, Verify

LEMMA NoFaults ==
    ASSUME Typed, [Next]_vars, faults' = 0
    PROVE  faults = 0 /\ \A call \in Failing : ~Fails(call)
<1>1. faults \in Nat
  BY DEF Typed, CountsTyped
<1>2. faults' = faults \/ faults' = faults + 1
  BY DEF Next, Begin, Verify, CheckTools, Tick, TimeUp, Stat, Resolve, Serial, Glob, Scan,
         Trigger, End, Udev, Change, Fails, vars
<1> QED
  BY <1>1, <1>2 DEF Fails

\* A step that ends where it is Well began where it was, unless a call begins.
LEMMA WellBefore ==
    ASSUME Typed, [Next]_vars, ~Begin, NEW w \in Known, Well(w)'
    PROVE  Well(w) /\ UNCHANGED disk /\ \A call \in Failing : ~Fails(call)
<1>1. faults = 0 /\ \A call \in Failing : ~Fails(call)
  BY NoFaults, Zenon DEF Well
<1>2. ~\E n \in Nodes : \E d \in Disks \cup {NoDisk} : Change(n, d)
  BY Zenon DEF Change, Well
<1>3. UNCHANGED <<disk, quiet>>
  BY <1>2, Zenon
     DEF Next, Verify, CheckTools, Tick, TimeUp, Stat, Resolve, Serial, Glob, Scan, Trigger,
         End, Udev, host, history, vars
<1>4. prompt' => prompt
  BY <1>2, Zenon
     DEF Next, Verify, CheckTools, Tick, TimeUp, Stat, Resolve, Serial, Glob, Scan, Trigger,
         End, Udev, host, history, vars
<1>5. ~missing' => ~missing
  BY <1>2, Zenon
     DEF Next, Verify, CheckTools, Tick, TimeUp, Stat, Resolve, Serial, Glob, Scan, Trigger,
         End, Udev, host, history, vars
<1> QED
  BY <1>1, <1>3, <1>4, <1>5, Zenon DEF Well

\* The node of the wanted disk is in use, and no other node is that disk.
LEMMA OnlyOneHome ==
    ASSUME Typed, NEW w \in Known, Well(w)
    PROVE  /\ w \in Nodes /\ w # NoNode /\ InUse(w)
           /\ \A n \in Nodes : disk[n] = Wanted => n = w
BY DeviceAssumption DEF Typed, HostTyped, Well, InUse

\* What a call of VerifyDevicePath may go on from.
Working(w) == Typed /\ Fresh /\ Well(w) /\ Progress(w)

LEMMA StartKeepsProgress ==
    ASSUME NEW w \in Known, Typed, Fresh, Begin \/ End \/ UNCHANGED vars, Well(w) => Progress(w)
    PROVE  Well(w)' => Progress(w)'
<1>1. CASE Begin
  <2>1. pc' = "tools"
    BY <1>1 DEF Begin, Goto
  <2> QED
    BY <2>1, Zenon DEF Progress, AtRest, Attempt, OnTrack, Asked, LastOneFinds
<1>2. CASE End
  <2>1. pc' = "idle"
    BY <1>2 DEF End
  <2> QED
    BY <2>1 DEF Progress, AtRest, Attempt, OnTrack, Asked, LastOneFinds
<1>3. CASE UNCHANGED vars
  BY <1>3, Zenon DEF vars, host, history, Well, Progress, AtRest, OnTrack, Asked, LastOneFinds, InUse
<1> QED
  BY <1>1, <1>2, <1>3

LEMMA TicksKeepProgress ==
    ASSUME NEW w \in Known, Working(w), CheckTools \/ Tick \/ TimeUp, Well(w)',
           \A call \in Failing : ~Fails(call)
    PROVE  Progress(w)'
<1> USE DEF Working
<1>1. CASE CheckTools
  <2>1. pc = "tools" /\ pc' = "wait" /\ UNCHANGED <<tries, timeUp>>
    BY <1>1, Zenon DEF CheckTools, Goto, Fails
  <2>2. ~timeUp /\ tries = 0
    BY <2>1, Zenon DEF Fresh
  <2> QED
    BY <2>1, <2>2, Zenon DEF Progress, AtRest, Attempt, OnTrack, Asked, LastOneFinds
<1>2. CASE Tick
  <2>1. pc = "wait" /\ pc' = "stat" /\ UNCHANGED <<timeUp, events>> /\ events = {}
    BY <1>2, Zenon DEF Tick, Goto, Well, host
  <2>2. ~timeUp
    BY <2>1, Zenon DEF Progress, LastOneFinds
  <2> QED
    BY <2>1, <2>2, Zenon DEF Progress, AtRest, Attempt, OnTrack, Asked, LastOneFinds
<1>3. CASE TimeUp
  <2>1. pc = "wait" /\ pc' = "stat" /\ UNCHANGED <<link, events>> /\ events = {}
    BY <1>3, Zenon DEF TimeUp, Goto, Well, host
  <2>2. tries # 0
    BY <1>3, DeviceAssumption DEF TimeUp
  <2>3. link = w
    BY <2>1, <2>2 DEF Progress, Asked
  <2> QED
    BY <2>1, <2>3, Zenon DEF Progress, AtRest, Attempt, OnTrack, Asked, LastOneFinds
<1> QED
  BY <1>1, <1>2, <1>3

LEMMA LooksKeepProgress ==
    ASSUME NEW w \in Known, Working(w), Stat \/ Resolve \/ Serial, Well(w)',
           \A call \in Failing : ~Fails(call)
    PROVE  Progress(w)'
<1> USE DEF Working
<1>1. CASE Stat
  <2>1. pc = "stat" /\ pc' = "resolve" /\ UNCHANGED <<timeUp, events, link, disk>> /\ InUse(link)
    BY <1>1, Zenon DEF Stat, Goto, Well, host, Fails
  <2>2. events = {} /\ (timeUp => link = w)
    BY <2>1, Zenon DEF Progress, AtRest, Attempt, LastOneFinds
  <2> QED
    BY <2>1, <2>2, Zenon DEF Progress, AtRest, Attempt, OnTrack, Asked, LastOneFinds, InUse
<1>2. CASE Resolve
  <2>1. pc = "resolve" /\ UNCHANGED <<timeUp, events, link, disk>>
    BY <1>2, Zenon DEF Resolve, host
  <2>2. events = {} /\ (timeUp => link = w) /\ InUse(link)
    BY <2>1 DEF Progress, AtRest, Attempt, LastOneFinds, OnTrack
  <2>3. pc' = "serial" /\ node' = link
    BY <1>2, <2>2, Zenon DEF Resolve, Goto
  <2> QED
    BY <2>1, <2>2, <2>3, Zenon DEF Progress, AtRest, Attempt, OnTrack, Asked, LastOneFinds, InUse
<1>3. CASE Serial
  <2>1. pc = "serial" /\ UNCHANGED <<timeUp, events, link, disk>>
    BY <1>3, Zenon DEF Serial, host
  <2>2. events = {} /\ (timeUp => link = w) /\ node = link /\ InUse(node)
    BY <2>1 DEF Progress, AtRest, Attempt, LastOneFinds, OnTrack
  <2>3. CASE node = w
    <3>1. disk[node] = Wanted /\ node \in Known
      BY <2>3 DEF Well
    <3>2. pc' = "return" /\ answer' = "true"
      BY <1>3, <2>2, <3>1, Zenon DEF Serial, Return, Fails
    <3> QED
      BY <3>2, Zenon DEF Progress, AtRest, Attempt, OnTrack, Asked, LastOneFinds
  <2>4. CASE node # w
    <3>1. ~timeUp
      BY <2>2, <2>4
    <3>2. disk[node] # Wanted
      BY <2>2, <2>4, OnlyOneHome DEF InUse
    <3>3. pc' = "glob"
      BY <1>3, <2>2, <3>2, Zenon DEF Serial, Goto, Fails
    <3> QED
      BY <2>1, <2>2, <3>1, <3>3, Zenon DEF Progress, AtRest, Attempt, OnTrack, Asked, LastOneFinds
  <2> QED
    BY <2>3, <2>4
<1> QED
  BY <1>1, <1>2, <1>3

LEMMA SearchKeepsProgress ==
    ASSUME NEW w \in Known, Working(w), Glob \/ Scan \/ Trigger, Well(w)',
           \A call \in Failing : ~Fails(call)
    PROVE  Progress(w)'
<1> USE DEF Working
<1>0. InUse(w) /\ w \in Nodes /\ \A n \in Nodes : disk[n] = Wanted => n = w
  BY OnlyOneHome
<1>1. CASE Glob
  <2>1. pc = "glob" /\ pc' = "scan" /\ UNCHANGED <<timeUp, events>>
    BY <1>1, Zenon DEF Glob, Goto, host
  <2>2. w \in todo'
    BY <1>0, <1>1 DEF Glob
  <2>3. events = {} /\ ~timeUp
    BY <2>1, Zenon DEF Progress, AtRest, Attempt, LastOneFinds
  <2> QED
    BY <2>1, <2>2, <2>3, Zenon DEF Progress, AtRest, Attempt, OnTrack, Asked, LastOneFinds
<1>2. CASE Scan
  <2>1. pc = "scan" /\ UNCHANGED <<timeUp, events>>
    BY <1>2, Zenon DEF Scan, host
  <2>2. events = {} /\ ~timeUp /\ w \in todo
    BY <2>1, Zenon DEF Progress, AtRest, Attempt, LastOneFinds, OnTrack
  <2>3. \/ pc' = "trigger" /\ node' = w
        \/ pc' = "scan" /\ w \in todo'
    <3>1. \A n \in todo : n \in Nodes
      BY DeviceAssumption DEF Typed, CallTyped
    <3>2. disk[w] = Wanted
      BY DEF Well
    <3> QED
      BY <1>0, <1>2, <2>2, <3>1, <3>2 DEF Scan, Goto, Fails
  <2> QED
    BY <2>1, <2>2, <2>3, Zenon DEF Progress, AtRest, Attempt, OnTrack, Asked, LastOneFinds
<1>3. CASE Trigger
  <2>1. pc = "trigger" /\ UNCHANGED timeUp
    BY <1>3, Zenon DEF Trigger
  <2>2. node = w /\ ~timeUp
    BY <2>1, Zenon DEF Progress, OnTrack, LastOneFinds
  <2>3. pc' = "wait" /\ w \in events'
    BY <1>3, <2>2 DEF Trigger, NotYet, Goto, Fails
  <2> QED
    BY <2>1, <2>2, <2>3, Zenon DEF Progress, AtRest, Attempt, OnTrack, Asked, LastOneFinds
<1> QED
  BY <1>1, <1>2, <1>3

LEMMA UdevKeepsProgress ==
    ASSUME NEW w \in Known, Working(w), NEW n \in Nodes, Udev(n)
    PROVE  Progress(w)'
<1> USE DEF Working
<1>1. UNCHANGED <<pc, node, todo, tries, timeUp, answer, disk>> /\ events # {}
  BY Zenon DEF Udev
<1>2. pc \notin Attempt
  BY <1>1, Zenon DEF Progress, AtRest
<1>3. Asked(w)'
  <2>1. ASSUME pc = "wait", tries # 0, w \notin events' PROVE link' = w
    <3>1. w \in Nodes /\ disk[w] = Wanted /\ \A m \in Nodes : disk[m] = Wanted => m = w
      BY OnlyOneHome DEF Well
    <3>2. CASE n = w
      BY <3>1, <3>2, Zenon DEF Udev
    <3>3. CASE n # w
      <4>1. w \notin events
        BY <2>1, <3>3 DEF Udev
      <4>2. link = w
        BY <2>1, <4>1 DEF Progress, Asked
      <4>3. disk[n] # Wanted
        BY <3>1, <3>3
      <4> QED
        BY <3>3, <4>2, <4>3, Zenon DEF Udev
    <3> QED
      BY <3>2, <3>3
  <2> QED
    BY <1>1, <2>1 DEF Asked
<1>4. OnTrack(w)' /\ AtRest' /\ LastOneFinds(w)'
  BY <1>1, <1>2, Zenon DEF Progress, Attempt, AtRest, OnTrack, LastOneFinds
<1> QED
  BY <1>1, <1>3, <1>4, Zenon DEF Progress

LEMMA StaysRepairing == ASSUME Typed, Repairing, [Next]_vars PROVE Repairing'
<1>1. Fresh'
  BY StaysFresh DEF Repairing
<1>2. ASSUME NEW w \in Known, Well(w)' PROVE Progress(w)'
  <2>1. CASE Begin \/ End \/ UNCHANGED vars
    BY <1>2, <2>1, StartKeepsProgress DEF Repairing
  <2>2. CASE ~Begin /\ ~End /\ ~UNCHANGED vars
    <3>1. Working(w) /\ \A call \in Failing : ~Fails(call)
      BY <1>2, <2>2, WellBefore DEF Repairing, Working
    <3>2. ~\E n \in Nodes : \E d \in Disks \cup {NoDisk} : Change(n, d)
      BY <1>2, Zenon DEF Change, Well
    <3> QED
      BY <1>2, <2>2, <3>1, <3>2, Zenon, TicksKeepProgress, LooksKeepProgress, SearchKeepsProgress,
         UdevKeepsProgress DEF Next, Verify
  <2> QED
    BY <2>1, <2>2
<1> QED
  BY <1>1, <1>2 DEF Repairing

\* If the disk is there and nothing else changes, a path that leads elsewhere is
\* repaired and VerifyDevicePath answers true.
THEOREM RepairWorks == Spec => []WrongPathIsRepaired
<1>1. Init => Repairing
  BY DEF Init, Repairing, Fresh, Progress, AtRest, Attempt, OnTrack, Asked, LastOneFinds
<1>2. Typed /\ Repairing /\ [Next]_vars => Repairing'
  BY StaysRepairing
<1>3. Repairing => WrongPathIsRepaired
  BY Zenon DEF Repairing, Progress, Well, AllWell, WrongPathIsRepaired
<1> QED
  BY <1>1, <1>2, <1>3, AlwaysTyped, PTL DEF Spec
=============================================================================
