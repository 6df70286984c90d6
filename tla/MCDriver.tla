------------------------------ MODULE MCDriver ------------------------------
(***************************************************************************)
(* Driver for TLC: without a controller manager, and with one that         *)
(* implements some of the interfaces and names a capability without its    *)
(* interface.                                                              *)
(***************************************************************************)
EXTENDS Driver

MCIdentityServers ==
    {[named |-> TRUE, manager |-> {"Probe"}, controller |-> TRUE],
     [named |-> FALSE, manager |-> {}, controller |-> FALSE]}

\* No manager, and no interface.
NoController == {[manager |-> {}, extra |-> {}]}

\* A manager that is asked for its own capabilities names CLONE_VOLUME, which has no
\* methods, and LIST_VOLUMES, whose interface it is not.
MCControllerServers ==
    NoController \cup
    {[manager |-> {"CREATE_DELETE_VOLUME", "LIST_SNAPSHOT", "GET_CAPACITY", "Capabilities"},
      extra |-> {"CLONE_VOLUME", "LIST_VOLUMES"}]}

Expands == {[manager |-> {"Expand"}]}
=============================================================================
