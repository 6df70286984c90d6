------------------------- MODULE VolumeLocks_proofs -------------------------
(***************************************************************************)
(* Proofs about VolumeLocks, for any set of goroutines and of volume IDs:  *)
(* mutual exclusion, and that it implements VolumeMutex.                   *)
(*                                                                         *)
(* MutualExclusion is not inductive: what keeps two callers apart is that  *)
(* the answer of Has is still true at Insert, because the mutex is held in *)
(* between, and that the set holds exactly the owned volume IDs.           *)
(***************************************************************************)
EXTENDS VolumeLocks, TLAPS

\* The goroutine between Lock and Unlock is the holder of the mutex.
MuxHeld == \A c \in Callers : pc[c] \in InMux <=> mux = c

\* The set holds the volume IDs of the owners, and no others.
SetIsOwned == locks = {vol[c] : c \in {d \in Callers : pc[d] \in Owning}}

\* No volume ID has two owners.
OneOwner ==
    \A c, d \in Callers :
        pc[c] \in Owning /\ pc[d] \in Owning /\ vol[c] = vol[d] => c = d

\* The answer of Has holds until it is acted upon.
AnswerHolds ==
    \A c \in Callers :
        /\ pc[c] = "insert" => vol[c] \notin locks
        /\ pc[c] = "refusing" => vol[c] \in locks

IInv == TypeOK /\ MuxHeld /\ SetIsOwned /\ OneOwner /\ AnswerHolds

-----------------------------------------------------------------------------

(***************************************************************************)
(* IInv holds initially and every step keeps it.                           *)
(***************************************************************************)
LEMMA InitEstablishesIInv == Init => IInv
  BY NobodyAssumption
     DEF Init, IInv, TypeOK, MuxHeld, SetIsOwned, OneOwner, AnswerHolds,
         Points, InMux, Owning

\* Insert and Delete are the steps that need MuxHeld: no other goroutine stands
\* between Has and Insert when the set changes, so AnswerHolds survives.
LEMMA NextKeepsIInv == IInv /\ [Next]_vars => IInv'
<1> SUFFICES ASSUME IInv, [Next]_vars PROVE IInv'
  OBVIOUS
<1> USE NobodyAssumption DEF IInv, TypeOK, MuxHeld, SetIsOwned, OneOwner,
        AnswerHolds, Points, InMux, Owning, Goto
<1>1. ASSUME NEW c \in Callers, NEW v \in Volumes, CallTryAcquire(c, v)
      PROVE  IInv'
  BY <1>1 DEF CallTryAcquire
<1>2. ASSUME NEW c \in Callers, CallRelease(c) PROVE IInv'
  BY <1>2 DEF CallRelease
<1>3. ASSUME NEW c \in Callers, LockTry(c) PROVE IInv'
  BY <1>3 DEF LockTry, Lock
<1>4. ASSUME NEW c \in Callers, LockRelease(c) PROVE IInv'
  BY <1>4 DEF LockRelease, Lock
<1>5. ASSUME NEW c \in Callers, Has(c) PROVE IInv'
  BY <1>5 DEF Has
<1>6. ASSUME NEW c \in Callers, Insert(c) PROVE IInv'
  BY <1>6 DEF Insert
<1>7. ASSUME NEW c \in Callers, Delete(c) PROVE IInv'
  BY <1>7 DEF Delete
<1>8. ASSUME NEW c \in Callers, Unlock(c) PROVE IInv'
  BY <1>8 DEF Unlock
<1>9. ASSUME NEW c \in Callers, ReturnAborted(c) PROVE IInv'
  BY <1>9 DEF ReturnAborted
<1>10. CASE UNCHANGED vars
  BY <1>10 DEF vars
<1> QED
  BY <1>1, <1>2, <1>3, <1>4, <1>5, <1>6, <1>7, <1>8, <1>9, <1>10 DEF Next

THEOREM InvariantHolds == Spec => []IInv
  BY InitEstablishesIInv, NextKeepsIInv, PTL DEF Spec

-----------------------------------------------------------------------------

\* Every reachable state is well typed, for any callers and volume IDs.
THEOREM TypeCorrect == Spec => []TypeOK
  BY InvariantHolds, PTL DEF IInv

\* No two handlers ever work on the same volume ID.
THEOREM Exclusion == Spec => []MutualExclusion
<1>1. IInv => MutualExclusion
  BY DEF IInv, OneOwner, MutualExclusion, Owning
<1> QED
  BY <1>1, InvariantHolds, PTL

-----------------------------------------------------------------------------

(***************************************************************************)
(* The refinement: Insert is Grant, the positive answer of Has is Refuse,  *)
(* Delete and ReturnAborted are Leave, and every other step is a stutter.  *)
(***************************************************************************)
LEMMA OwnsIsOwning ==
  ASSUME NEW c \in Callers, NEW v \in Volumes
  PROVE  Mutex!Owns(c, v) <=> pc[c] \in Owning /\ vol[c] = v
  BY DEF Mutex!Owns, StatusOf, Owning

LEMMA InUseIsLocked ==
  ASSUME IInv, NEW v \in Volumes
  PROVE  Mutex!InUse(v) <=> v \in locks
<1>1. v \in locks <=> \E c \in Callers : pc[c] \in Owning /\ vol[c] = v
  BY DEF IInv, SetIsOwned
<1> QED
  BY <1>1, OwnsIsOwning DEF Mutex!InUse

LEMMA StepRefines ==
  ASSUME IInv, [Next]_vars
  PROVE  [Mutex!Next]_(Mutex!vars)
<1>0. /\ pc \in [Callers -> Points]
      /\ vol \in [Callers -> Volumes]
  BY DEF IInv, TypeOK
<1> USE <1>0 DEF Goto, StatusOf, Owning, Points, InMux
<1>1. ASSUME NEW c \in Callers, NEW v \in Volumes, CallTryAcquire(c, v)
      PROVE  Mutex!Ask(c, v)
  BY <1>1 DEF CallTryAcquire, Mutex!Ask, Mutex!Become
<1>2. ASSUME NEW c \in Callers,
             CallRelease(c) \/ LockTry(c) \/ LockRelease(c) \/ Unlock(c)
      PROVE  UNCHANGED Mutex!vars
  BY <1>2 DEF CallRelease, LockTry, LockRelease, Lock, Unlock, Mutex!vars
<1>3. ASSUME NEW c \in Callers, Has(c)
      PROVE  Mutex!Refuse(c) \/ UNCHANGED Mutex!vars
  BY <1>3, InUseIsLocked
     DEF Has, Mutex!Refuse, Mutex!Become, Mutex!vars
<1>4. ASSUME NEW c \in Callers, Insert(c)
      PROVE  Mutex!Grant(c)
  <2>1. vol[c] \notin locks
    BY <1>4 DEF Insert, IInv, AnswerHolds
  <2> QED
    BY <1>4, <2>1, InUseIsLocked DEF Insert, Mutex!Grant, Mutex!Become
<1>5. ASSUME NEW c \in Callers, Delete(c) \/ ReturnAborted(c)
      PROVE  Mutex!Leave(c)
  BY <1>5 DEF Delete, ReturnAborted, Mutex!Leave, Mutex!Become
<1>6. CASE UNCHANGED vars
  BY <1>6 DEF vars, Mutex!vars
<1> QED
  BY <1>1, <1>2, <1>3, <1>4, <1>5, <1>6 DEF Next, Mutex!Next

\* VolumeLocks implements the abstract mutex: every answer of TryAcquire takes
\* effect in one atomic step, and only a volume that is in use is refused.
THEOREM Refinement == Spec => MutexSpec
<1>1. Init => Mutex!Init
  BY DEF Init, Mutex!Init, StatusOf, Owning
<1> QED
  BY <1>1, InvariantHolds, StepRefines, PTL DEF Spec, MutexSpec, Mutex!Spec
=============================================================================
