-------------------------- MODULE VolumeLifecycle ---------------------------
(***************************************************************************)
(* What a node promises about the volumes in use on it, whoever asks: a    *)
(* volume is bound to a target only while it is provisioned on its staging *)
(* path, and neither is it taken away from the staging path while a target *)
(* is bound to it, nor is its block device detached while it is            *)
(* provisioned or bound.                                                   *)
(***************************************************************************)

CONSTANTS
    Volumes,
    Targets,
    VolumeOf        \* VolumeOf[t]: the volume that target t belongs to

VARIABLES
    attached,       \* the volumes whose block device is attached
    provisioned,    \* the volumes that their staging path gives access to
    bound           \* the targets that a volume is bound to

vars == <<attached, provisioned, bound>>

BoundTargets(v) == {t \in bound : VolumeOf[t] = v}

Init ==
    /\ attached = {}
    /\ provisioned = {}
    /\ bound = {}

Attach(v) ==
    /\ attached' = attached \cup {v}
    /\ UNCHANGED <<provisioned, bound>>

Provision(v) ==
    /\ provisioned' = provisioned \cup {v}
    /\ UNCHANGED <<attached, bound>>

Bind(t) ==
    /\ VolumeOf[t] \in provisioned
    /\ bound' = bound \cup {t}
    /\ UNCHANGED <<attached, provisioned>>

Unbind(t) ==
    /\ bound' = bound \ {t}
    /\ UNCHANGED <<attached, provisioned>>

Withdraw(v) ==
    /\ BoundTargets(v) = {}
    /\ provisioned' = provisioned \ {v}
    /\ UNCHANGED <<attached, bound>>

Detach(v) ==
    /\ v \notin provisioned
    /\ BoundTargets(v) = {}
    /\ attached' = attached \ {v}
    /\ UNCHANGED <<provisioned, bound>>

Next ==
    \/ \E v \in Volumes : Attach(v) \/ Provision(v) \/ Withdraw(v) \/ Detach(v)
    \/ \E t \in Targets : Bind(t) \/ Unbind(t)

Spec == Init /\ [][Next]_vars
=============================================================================
