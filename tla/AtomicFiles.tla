----------------------------- MODULE AtomicFiles -----------------------------
(***************************************************************************)
(* What AtomicWriter promises to whoever reads its target directory: the   *)
(* visible files change all at once, from one complete payload to the      *)
(* payload of the Write in progress, and not otherwise.  Where a link      *)
(* cannot be replaced in one step, there may be no files in between, but   *)
(* never a part of them or a mix.                                          *)
(***************************************************************************)

CONSTANTS
    Payloads,   \* the contents that a writer is given, functions from paths
    Nothing     \* no files

VARIABLES
    replaces,   \* whether the system replaces a link in one step
    view,       \* the files that a reader finds, with their content
    writing     \* the payloads of the Writes in progress: none or one

vars == <<replaces, view, writing>>

Init == replaces \in BOOLEAN /\ view = Nothing /\ writing = {}

Begin(p) ==
    /\ writing = {}
    /\ writing' = {p}
    /\ UNCHANGED <<replaces, view>>

Switch ==
    /\ view' \in writing
    /\ UNCHANGED <<replaces, writing>>

Vanish ==
    /\ ~replaces
    /\ writing # {}
    /\ view' = Nothing
    /\ UNCHANGED <<replaces, writing>>

\* A Write returns, with an error or without, or dies.
End ==
    /\ writing' = {}
    /\ UNCHANGED <<replaces, view>>

Next == (\E p \in Payloads : Begin(p)) \/ Switch \/ Vanish \/ End

Spec == Init /\ [][Next]_vars
=============================================================================
