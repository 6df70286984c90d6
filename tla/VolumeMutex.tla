---------------------------- MODULE VolumeMutex ----------------------------
(***************************************************************************)
(* What utils.VolumeLocks promises to the RPC handlers of the node server  *)
(* (comments at src/utils/volume_lock.go:30 and :44): a caller that asks   *)
(* for a volume is told at once, in one atomic step, either that it now    *)
(* owns the volume or that another operation is already using it.  A       *)
(* refusal is never spurious and an owner is never joined by another one.  *)
(***************************************************************************)

CONSTANTS
    Callers,    \* the goroutines that ask for volumes
    Volumes     \* the volume IDs

VARIABLES
    status,     \* where each caller is: idle, asking, owner or refused
    vol         \* the volume ID of each caller's latest request

vars == <<status, vol>>

Statuses == {"idle", "asking", "owner", "refused"}

Owns(c, v) == status[c] = "owner" /\ vol[c] = v

InUse(v) == \E c \in Callers : Owns(c, v)

Become(c, s) == status' = [status EXCEPT ![c] = s]

Init ==
    /\ status = [c \in Callers |-> "idle"]
    /\ vol \in [Callers -> Volumes]

Ask(c, v) ==
    /\ status[c] = "idle"
    /\ Become(c, "asking")
    /\ vol' = [vol EXCEPT ![c] = v]

Grant(c) ==
    /\ status[c] = "asking"
    /\ ~InUse(vol[c])
    /\ Become(c, "owner")
    /\ UNCHANGED vol

Refuse(c) ==
    /\ status[c] = "asking"
    /\ InUse(vol[c])
    /\ Become(c, "refused")
    /\ UNCHANGED vol

Leave(c) ==
    /\ status[c] \in {"owner", "refused"}
    /\ Become(c, "idle")
    /\ UNCHANGED vol

Next ==
    \E c \in Callers :
        \/ \E v \in Volumes : Ask(c, v)
        \/ Grant(c)
        \/ Refuse(c)
        \/ Leave(c)

Spec == Init /\ [][Next]_vars
=============================================================================
