---------------------------- MODULE MCNodeServer ----------------------------
(***************************************************************************)
(* NodeServer for TLC: one volume, which is where handlers compete, with   *)
(* one target or two, and two or three handlers.                           *)
(***************************************************************************)
EXTENDS NodeServer, TLC

\* Every target belongs to the one volume.
MCVolumeOf == [t \in Targets |-> CHOOSE v \in Volumes : TRUE]

AnyFailure ==
    {"attach", "ask", "mount", "remount", "populate", "mountTable", "unmount", "remove", "detach",
     "crash"}

\* Handlers are interchangeable, and so are targets.
Symmetric == Permutations(Calls) \cup Permutations(Targets)
=============================================================================
