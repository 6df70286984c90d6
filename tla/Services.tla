------------------------------ MODULE Services ------------------------------
(***************************************************************************)
(* How the three CSI services dispatch a call: what they advertise and     *)
(* what they answer, as functions of the optional interfaces that the      *)
(* author's managers implement (src/identity, src/controller and the       *)
(* stateless calls of src/node/nodeserver.go).  No manager at all is the   *)
(* empty set of interfaces: a type assertion on nil finds none.            *)
(*                                                                         *)
(* A method or a capability is a pair of its service and its name.         *)
(***************************************************************************)

\* The interfaces of src/controller/interface.go that have methods of the service.
ControllerMethods ==
    [CREATE_DELETE_VOLUME     |-> {"CreateVolume", "DeleteVolume"},
     CREATE_DELETE_SNAPSHOT   |-> {"CreateSnapshot", "DeleteSnapshot"},
     LIST_SNAPSHOT            |-> {"ListSnapshots"},
     LIST_VOLUME              |-> {"ListVolumes"},
     EXPAND_VOLUME            |-> {"ControllerExpandVolume"},
     GET_CAPACITY             |-> {"GetCapacity"},
     PUBLISH_UNPUBLISH_VOLUME |-> {"ControllerPublishVolume", "ControllerUnpublishVolume"},
     GET_VOLUME               |-> {"ControllerGetVolume"}]

ControllerInterfaces == DOMAIN ControllerMethods

\* The RPC type of the CSI document that each of them is advertised as.
RPCType(interface) ==
    CASE interface = "LIST_SNAPSHOT" -> "LIST_SNAPSHOTS"
      [] interface = "LIST_VOLUME"   -> "LIST_VOLUMES"
      [] OTHER                       -> interface

PluginCapabilities == <<"identity", "GetPluginCapabilities">>
ControllerCapabilities == <<"controller", "ControllerGetCapabilities">>
NodeCapabilities == <<"node", "NodeGetCapabilities">>

Methods ==
    ({"identity"} \X {"GetPluginInfo", "Probe", "GetPluginCapabilities"})
    \cup ({"controller"} \X
          (UNION {ControllerMethods[i] : i \in ControllerInterfaces}
           \cup {"ValidateVolumeCapabilities", "ControllerGetCapabilities"}))
    \cup ({"node"} \X
          {"NodeGetVolumeStats", "NodeExpandVolume", "NodeGetCapabilities", "NodeGetInfo"})

PluginAdvertised(ids) == {c \in {"CONTROLLER_SERVICE"} : ids.controller}

\* What the manager names itself, if it is a Capabilities: it is not checked against
\* the interfaces.
Extra(cs) == {c \in cs.extra : "Capabilities" \in cs.manager}

\* Mutant: whatever else the manager implements is advertised too.
AdvertisedByName(cs) == Extra(cs) \cup {RPCType(i) : i \in cs.manager}

\* Mutant: snapshots are advertised for a manager of volumes.
AdvertisedByVolumes(cs) ==
    Extra(cs)
    \cup {RPCType(i) : i \in cs.manager \cap (ControllerInterfaces \ {"CREATE_DELETE_SNAPSHOT"})}
    \cup {i \in {"CREATE_DELETE_SNAPSHOT"} : "CREATE_DELETE_VOLUME" \in cs.manager}

ControllerAdvertised(cs) ==
    Extra(cs) \cup {RPCType(i) : i \in cs.manager \cap ControllerInterfaces}

NodeAdvertised(ns) ==
    {"STAGE_UNSTAGE_VOLUME"} \cup {c \in {"EXPAND_VOLUME"} : "Expand" \in ns.manager}

\* What a call that succeeds advertises.  ids, cs and ns are the servers.
Advertised(method, ids, cs, ns) ==
    CASE method = PluginCapabilities     -> {"plugin"} \X PluginAdvertised(ids)
      [] method = ControllerCapabilities -> {"controller"} \X ControllerAdvertised(cs)
      [] method = NodeCapabilities       -> {"node"} \X NodeAdvertised(ns)
      [] OTHER                           -> {}

\* All capabilities that the services know.
Capabilities(cs) ==
    {<<"plugin", "CONTROLLER_SERVICE">>}
    \cup ({"controller"} \X (cs.extra \cup {RPCType(i) : i \in ControllerInterfaces}))
    \cup ({"node"} \X {"STAGE_UNSTAGE_VOLUME", "EXPAND_VOLUME"})

\* The codes of answers.  A manager answers OK or an error of its own, but not
\* Unimplemented.
IdentityCodes(name, ids) ==
    CASE name = "GetPluginInfo" /\ ~ids.named         -> {"Unavailable"}
      [] name = "Probe" /\ "Probe" \in ids.manager    -> {"OK", "Internal"}
      [] OTHER                                        -> {"OK"}

ControllerCodes(name, cs) ==
    CASE name = "ControllerGetCapabilities" /\ "Capabilities" \notin cs.manager -> {"OK"}
      [] \/ name = "ControllerGetCapabilities" /\ "Capabilities" \in cs.manager
         \/ \E i \in cs.manager \cap ControllerInterfaces : name \in ControllerMethods[i]
             -> {"OK", "Internal"}
      [] OTHER -> {"Unimplemented"}

NodeCodes(name) ==
    IF name \in {"NodeGetVolumeStats", "NodeExpandVolume"} THEN {"Unimplemented"} ELSE {"OK"}

Answers(method, ids, cs, ns) ==
    CASE method[1] = "identity"   -> IdentityCodes(method[2], ids)
      [] method[1] = "controller" -> ControllerCodes(method[2], cs)
      [] OTHER                    -> NodeCodes(method[2])

\* The methods that a plugin MUST implement if it has a capability
\* (src/docs/spec.md:582, 718, 1197, 1239, 1319, 1371, 1450, 1533, 1589, 1668, 1761, 1894,
\* 1929, 2002, 2653), other than those of staging, which the handlers of NodeServer
\* implement, and NodeGetInfo (:2592), which always answers.
MethodsOf(capability) ==
    CASE capability = <<"plugin", "CONTROLLER_SERVICE">> ->
             {"controller"} \X {"ValidateVolumeCapabilities", "ControllerGetCapabilities"}
      [] capability = <<"node", "EXPAND_VOLUME">> -> {<<"node", "NodeExpandVolume">>}
      [] capability[1] = "controller" ->
             {"controller"} \X
                 UNION {ControllerMethods[i] :
                            i \in {j \in ControllerInterfaces : RPCType(j) = capability[2]}}
      [] OTHER -> {}

\* The methods of capabilities that no interface of a manager makes the services serve.
NeverServed == {<<"controller", "ValidateVolumeCapabilities">>, <<"node", "NodeExpandVolume">>}
=============================================================================
