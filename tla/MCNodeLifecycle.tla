-------------------------- MODULE MCNodeLifecycle ---------------------------
(***************************************************************************)
(* NodeLifecycle for TLC: one volume with one target or two, and two       *)
(* handlers, so that a call the CO gave up overlaps with the next one.     *)
(***************************************************************************)
EXTENDS NodeLifecycle, TLC

MCVolumeOf == [t \in Targets |-> CHOOSE v \in Volumes : TRUE]

Symmetric == Permutations(Calls) \cup Permutations(Targets)
=============================================================================
