---------------------------- MODULE Driver_proofs ----------------------------
(***************************************************************************)
(* Proofs about Driver, for any number of callers of Stop and of clients   *)
(* and any managers: a driver that has stopped runs nothing, and serves    *)
(* what it advertises for an interface, with two exceptions.               *)
(***************************************************************************)
EXTENDS Driver, TLAPS

USE DEF services, grpc, clients

-----------------------------------------------------------------------------
(***************************************************************************)
(* Types.  The only step that is not a matter of control is the answer of  *)
(* a handler: it advertises known capabilities.                            *)
(***************************************************************************)
LEMMA AdvertisedAreKnown ==
  ASSUME NEW m, NEW i, NEW c, NEW n
  PROVE  Advertised(m, i, c, n) \subseteq Capabilities(c)
<1>1. ControllerAdvertised(c) \subseteq c.extra \cup {RPCType(j) : j \in ControllerInterfaces}
  BY DEF ControllerAdvertised, Extra
<1> QED
  BY <1>1 DEF Advertised, PluginAdvertised, NodeAdvertised, Capabilities

LEMMA InitTyped == Init => TypeOK
  BY DEF Init, TypeOK, Actors

LEMMA NextKeepsTypes == TypeOK /\ [Next]_vars => TypeOK'
<1> SUFFICES ASSUME TypeOK, [Next]_vars PROVE TypeOK'
  OBVIOUS
<1> USE DEF TypeOK, Actors
<1>1. CASE Start
  BY <1>1 DEF Start
<1>2. CASE Select
  BY <1>2 DEF Select
<1>3. CASE Cancel
  BY <1>3 DEF Cancel
<1>4. ASSUME NEW a \in Stoppers, Stop(a)
      PROVE  TypeOK'
  BY <1>4 DEF Stop
<1>5. ASSUME NEW a \in Actors, GracefulStop(a) \/ Drained(a)
      PROVE  TypeOK'
  BY <1>5 DEF GracefulStop, Drained
<1>6. CASE ServeStep \/ AcceptFails
  BY <1>6 DEF ServeStep, ServeBegin, AwaitStop, CloseDone, AcceptFails, GoServe
<1>7. ASSUME NEW c \in Calls, Accept(c) \/ Admit(c)
      PROVE  TypeOK'
  BY <1>7 DEF Accept, Admit
<1>8. ASSUME NEW c \in Calls, NEW m \in Methods, Handle(c, m)
      PROVE  TypeOK'
  <2>1. told' \subseteq Capabilities(cs)
    BY <1>8, AdvertisedAreKnown DEF Handle
  <2>2. refused' \in Methods \cup {NoMethod}
    BY <1>8 DEF Handle
  <2> QED
    BY <1>8, <2>1, <2>2 DEF Handle
<1>9. CASE UNCHANGED vars
  BY <1>9 DEF vars
<1> QED
  BY <1>1, <1>2, <1>3, <1>4, <1>5, <1>6, <1>7, <1>8, <1>9 DEF Next

\* Every reachable state is well typed.
THEOREM TypeCorrect == Spec => []TypeOK
  BY InitTyped, NextKeepsTypes, PTL DEF Spec

-----------------------------------------------------------------------------
(***************************************************************************)
(* Shutdown.  Whoever returns from GracefulStop has seen the connections   *)
(* gone, itself or through another one that was faster, and they cannot    *)
(* come back: the listeners went first, so that neither the accept loop    *)
(* that ran nor one that starts late accepts anything.                     *)
(***************************************************************************)
IInv ==
    /\ TypeOK
    /\ \A a \in Actors : pc[a] = "drain" => ~listening
    /\ \A a \in Actors : pc[a] = "returned" => gone
    /\ gone => ~listening /\ serve # "accept" /\ \A c \in Calls : call[c] = "none"

LEMMA NextKeepsIInv == IInv /\ [Next]_vars => IInv'
<1> SUFFICES ASSUME IInv, [Next]_vars PROVE IInv'
  OBVIOUS
<1>0. TypeOK' /\ pc \in [Actors -> {"idle", "select", "stop", "drain", "returned"}]
              /\ call \in [Calls -> {"none", "accepted", "running"}]
  BY NextKeepsTypes DEF IInv, TypeOK
<1>1. CASE Start \/ Select \/ Cancel
  BY <1>0, <1>1 DEF IInv, Start, Select, Cancel, Actors
<1>2. ASSUME NEW a \in Stoppers, Stop(a)
      PROVE  IInv'
  BY <1>0, <1>2 DEF IInv, Stop, Actors
<1>3. ASSUME NEW a \in Actors, GracefulStop(a) \/ Drained(a)
      PROVE  IInv'
  BY <1>0, <1>3 DEF IInv, GracefulStop, Drained
<1>4. CASE ServeStep \/ AcceptFails
  BY <1>0, <1>4 DEF IInv, ServeStep, ServeBegin, AwaitStop, CloseDone, AcceptFails, GoServe
<1>5. ASSUME NEW c \in Calls, Accept(c) \/ Admit(c) \/ \E m \in Methods : Handle(c, m)
      PROVE  IInv'
  BY <1>0, <1>5 DEF IInv, Accept, Admit, Handle
<1>6. CASE UNCHANGED vars
  BY <1>0, <1>6 DEF IInv, vars
<1> QED
  BY <1>1, <1>2, <1>3, <1>4, <1>5, <1>6 DEF Next

\* A driver whose Start or Stop has returned has answered every call and takes no
\* more, in whatever order Start, its goroutine, the Stops and the calls proceed.
THEOREM StoppedIsQuiet == Spec => []NothingRunsAfter
<1>1. Init => IInv
  BY InitTyped DEF Init, IInv
<1>2. IInv => NothingRunsAfter
  BY DEF IInv, NothingRunsAfter
<1> QED
  BY <1>1, <1>2, NextKeepsIInv, PTL DEF Spec

-----------------------------------------------------------------------------
(***************************************************************************)
(* Advertising.  What was told came from an answer of the same servers,    *)
(* whose interfaces do not change, and so did what was refused.  The names *)
(* of capabilities determine their interfaces, so that a capability is     *)
(* advertised because of the interface that serves its methods, or because *)
(* the manager named it.                                                   *)
(***************************************************************************)
AnsweredBy ==
    /\ TypeOK
    /\ \A t \in told : t[1] = "controller" => t[2] \in ControllerAdvertised(cs)
    /\ refused # NoMethod => "Unimplemented" \in Answers(refused, ids, cs, ns)

LEMMA ControllerIsHonest ==
  ASSUME NEW c, NEW t \in ControllerAdvertised(c), t \notin Extra(c),
         NEW j \in ControllerInterfaces, RPCType(j) = t
  PROVE  j \in c.manager
<1>1. PICK i \in c.manager \cap ControllerInterfaces : t = RPCType(i)
  BY DEF ControllerAdvertised
<1>2. i = j
  BY <1>1 DEF RPCType, ControllerInterfaces, ControllerMethods
<1> QED
  BY <1>1, <1>2

LEMMA NextKeepsAnswered == AnsweredBy /\ [Next]_vars => AnsweredBy'
<1> SUFFICES ASSUME AnsweredBy, [Next]_vars PROVE AnsweredBy'
  OBVIOUS
<1>0. TypeOK'
  BY NextKeepsTypes DEF AnsweredBy
<1>1. CASE UNCHANGED <<services, told, refused>>
  BY <1>0, <1>1 DEF AnsweredBy
<1>2. ASSUME NEW c \in Calls, NEW m \in Methods, Handle(c, m)
      PROVE  AnsweredBy'
  <2>1. told' \in {told, told \cup Advertised(m, ids, cs, ns)} /\ UNCHANGED services
    BY <1>2 DEF Handle
  <2>2. \A t \in Advertised(m, ids, cs, ns) :
            t[1] = "controller" => t[2] \in ControllerAdvertised(cs)
    BY DEF Advertised
  <2>3. refused' # NoMethod => "Unimplemented" \in Answers(refused', ids, cs, ns)
    BY <1>2 DEF Handle
  <2> QED
    BY <1>0, <2>1, <2>2, <2>3 DEF AnsweredBy
<1>3. UNCHANGED <<services, told, refused>> \/ \E c \in Calls, m \in Methods : Handle(c, m)
  BY DEF Next, Start, Select, Cancel, Stop, GracefulStop, Drained, ServeStep, ServeBegin,
         AwaitStop, CloseDone, AcceptFails, GoServe, Accept, Admit, vars
<1> QED
  BY <1>1, <1>2, <1>3

LEMMA AnsweredIsServed == AnsweredBy => CheckedIsServed
<1> SUFFICES ASSUME AnsweredBy, NEW t \in told, refused \in MethodsOf(t),
                    refused \notin NeverServed, t[2] \notin Extra(cs)
             PROVE  FALSE
  BY DEF CheckedIsServed
<1>1. CASE t = <<"plugin", "CONTROLLER_SERVICE">>
  <2>1. refused = <<"controller", "ControllerGetCapabilities">>
    BY <1>1 DEF MethodsOf, NeverServed
  <2>2. Answers(refused, ids, cs, ns) = ControllerCodes("ControllerGetCapabilities", cs)
    BY <2>1 DEF Answers
  <2>3. "Unimplemented" \notin ControllerCodes("ControllerGetCapabilities", cs)
    BY DEF ControllerCodes
  <2> QED
    BY <2>1, <2>2, <2>3 DEF AnsweredBy, NoMethod
<1>2. CASE t = <<"node", "EXPAND_VOLUME">>
  BY <1>2 DEF MethodsOf, NeverServed
<1>3. CASE t # <<"plugin", "CONTROLLER_SERVICE">> /\ t # <<"node", "EXPAND_VOLUME">>
  <2>1. t[1] = "controller"
    BY <1>3 DEF MethodsOf
  <2>2. PICK j \in ControllerInterfaces :
            RPCType(j) = t[2] /\ \E n \in ControllerMethods[j] : refused = <<"controller", n>>
    BY <1>3, <2>1 DEF MethodsOf
  <2>3. t[2] \in ControllerAdvertised(cs)
    BY <2>1 DEF AnsweredBy
  <2>4. j \in cs.manager
    BY <2>2, <2>3, ControllerIsHonest
  <2>5. PICK name \in ControllerMethods[j] : refused = <<"controller", name>>
    BY <2>2
  <2>6. name # "ControllerGetCapabilities"
    BY DEF ControllerInterfaces, ControllerMethods
  <2>7. Answers(refused, ids, cs, ns) = {"OK", "Internal"}
    BY <2>4, <2>5, <2>6 DEF Answers, ControllerCodes
  <2> QED
    BY <2>5, <2>7 DEF AnsweredBy, NoMethod
<1> QED
  BY <1>1, <1>2, <1>3

\* A method that a driver refuses as Unimplemented after it advertised the capability is
\* one that no interface serves (ValidateVolumeCapabilities, NodeExpandVolume) or one of a
\* capability that the manager named itself (src/controller/controllerserver.go:124-137),
\* whatever the managers implement and name and in whatever order clients call.
THEOREM AdvertisingIsHonest == Spec => []CheckedIsServed
<1>1. Init => AnsweredBy
  BY InitTyped DEF Init, AnsweredBy
<1> QED
  BY <1>1, NextKeepsAnswered, AnsweredIsServed, PTL DEF Spec
=============================================================================
