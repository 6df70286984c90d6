---------------------------- MODULE VolumeLocks ----------------------------
(***************************************************************************)
(* utils.VolumeLocks (src/utils/volume_lock.go): a set of volume IDs       *)
(* guarded by a sync.Mutex, and the goroutines that call it the way every  *)
(* handler of the node server does: TryAcquire, and, when it returned      *)
(* true, one deferred Release.                                             *)
(*                                                                         *)
(* One action per step between two points where another goroutine may run: *)
(* waiting for the mutex, reading the set, writing the set, the deferred   *)
(* Unlock.  Reading and writing are separate steps, so that what the mutex *)
(* is for can be seen to matter.                                           *)
(***************************************************************************)

CONSTANTS
    Callers,    \* the goroutines that run handlers
    Volumes,    \* the volume IDs
    Nobody      \* the mutex has no holder

ASSUME NobodyAssumption == Nobody \notin Callers

VARIABLES
    locks,      \* vl.locks, the volume IDs with an ongoing operation
    mux,        \* the goroutine that holds vl.mux, or Nobody
    pc,         \* where each goroutine is
    vol         \* the volumeID argument of its latest call

vars == <<locks, mux, pc, vol>>

-----------------------------------------------------------------------------

\* The points at which a goroutine holds vl.mux.
InMux == {"has", "insert", "granting", "refusing", "delete", "freed"}

\* The points at which its volume ID is in vl.locks on its account.
Owning == {"granting", "owner", "waitRelease", "delete"}

Points == InMux \cup Owning \cup {"idle", "waitTry", "refused"}

Goto(c, from, to) ==
    /\ pc[c] = from
    /\ pc' = [pc EXCEPT ![c] = to]

Init ==
    /\ locks = {}
    /\ mux = Nobody
    /\ pc = [c \in Callers |-> "idle"]
    /\ vol \in [Callers -> Volumes]

CallTryAcquire(c, v) ==
    /\ Goto(c, "idle", "waitTry")
    /\ vol' = [vol EXCEPT ![c] = v]
    /\ UNCHANGED <<locks, mux>>

CallRelease(c) ==
    /\ Goto(c, "owner", "waitRelease")
    /\ UNCHANGED <<locks, mux, vol>>

\* Mutant: the body runs without vl.mux.Lock().
LockWithoutWaiting(c, from, to) ==
    /\ Goto(c, from, to)
    /\ mux' = c
    /\ UNCHANGED <<locks, vol>>

\* vl.mux.Lock().
Lock(c, from, to) ==
    /\ mux = Nobody
    /\ Goto(c, from, to)
    /\ mux' = c
    /\ UNCHANGED <<locks, vol>>

LockTry(c) == Lock(c, "waitTry", "has")

LockRelease(c) == Lock(c, "waitRelease", "delete")

\* Mutant: a volume ID that is in the set already is granted again.
HasForgotten(c) ==
    /\ Goto(c, "has", "insert")
    /\ UNCHANGED <<locks, mux, vol>>

\* if vl.locks.Has(volumeID) { return false }
Has(c) ==
    /\ \/ vol[c] \in locks /\ Goto(c, "has", "refusing")
       \/ vol[c] \notin locks /\ Goto(c, "has", "insert")
    /\ UNCHANGED <<locks, mux, vol>>

\* Mutant: what is inserted is not the volume ID.
InsertCaller(c) ==
    /\ Goto(c, "insert", "granting")
    /\ locks' = locks \cup {c}
    /\ UNCHANGED <<mux, vol>>

Insert(c) ==
    /\ Goto(c, "insert", "granting")
    /\ locks' = locks \cup {vol[c]}
    /\ UNCHANGED <<mux, vol>>

Delete(c) ==
    /\ Goto(c, "delete", "freed")
    /\ locks' = locks \ {vol[c]}
    /\ UNCHANGED <<mux, vol>>

\* Mutant: the early return of false leaves the mutex locked.
UnlockOnlyOnTrue(c) ==
    /\ \/ Goto(c, "granting", "owner") /\ mux' = Nobody
       \/ Goto(c, "refusing", "refused") /\ UNCHANGED mux
       \/ Goto(c, "freed", "idle") /\ mux' = Nobody
    /\ UNCHANGED <<locks, vol>>

\* defer vl.mux.Unlock(), on every return.
Unlock(c) ==
    /\ \/ Goto(c, "granting", "owner")
       \/ Goto(c, "refusing", "refused")
       \/ Goto(c, "freed", "idle")
    /\ mux' = Nobody
    /\ UNCHANGED <<locks, vol>>

\* A refused handler returns Aborted; it has nothing to release.
ReturnAborted(c) ==
    /\ Goto(c, "refused", "idle")
    /\ UNCHANGED <<locks, mux, vol>>

Next ==
    \E c \in Callers :
        \/ \E v \in Volumes : CallTryAcquire(c, v)
        \/ CallRelease(c)
        \/ LockTry(c)
        \/ LockRelease(c)
        \/ Has(c)
        \/ Insert(c)
        \/ Delete(c)
        \/ Unlock(c)
        \/ ReturnAborted(c)

(***************************************************************************)
(* A goroutine that runs keeps running, and sync.Mutex does not starve a   *)
(* waiter (its starvation mode hands the mutex to the first in the queue), *)
(* hence strong fairness of Lock.  Nothing makes a handler call            *)
(* TryAcquire, or leave its critical section, which is not modelled here.  *)
(***************************************************************************)
Fairness ==
    \A c \in Callers :
        /\ SF_vars(LockTry(c) \/ LockRelease(c))
        /\ WF_vars(Has(c) \/ Insert(c) \/ Delete(c) \/ Unlock(c))

Spec == Init /\ [][Next]_vars

FairSpec == Spec /\ Fairness

-----------------------------------------------------------------------------

\* Type invariant.
TypeOK ==
    /\ locks \subseteq Volumes
    /\ mux \in Callers \cup {Nobody}
    /\ pc \in [Callers -> Points]
    /\ vol \in [Callers -> Volumes]

\* Two handlers never work on the same volume ID at the same time: the reason
\* VolumeLocks exists (src/node/nodeserver.go:56-58).
MutualExclusion ==
    \A c, d \in Callers :
        pc[c] = "owner" /\ pc[d] = "owner" /\ vol[c] = vol[d] => c = d

\* Every call of TryAcquire and of Release returns, whatever the other
\* goroutines do: no path leaves with the mutex locked.
EveryCallReturns ==
    \A c \in Callers :
        /\ pc[c] = "waitTry" ~> pc[c] \in {"owner", "refused"}
        /\ pc[c] = "waitRelease" ~> pc[c] = "idle"

-----------------------------------------------------------------------------

(***************************************************************************)
(* The refinement: a caller owns its volume from the Insert to the Delete, *)
(* and is refused when Has finds the volume in the set.                    *)
(***************************************************************************)
StatusOf(p) ==
    CASE p \in Owning                       -> "owner"
      [] p \in {"waitTry", "has", "insert"} -> "asking"
      [] p \in {"refusing", "refused"}      -> "refused"
      [] OTHER                              -> "idle"

Mutex == INSTANCE VolumeMutex WITH
    status <- [c \in Callers |-> StatusOf(pc[c])]

\* VolumeLocks implements VolumeMutex: a grant and a refusal take effect
\* atomically, a refusal only while another operation holds the volume.
MutexSpec == Mutex!Spec
=============================================================================
