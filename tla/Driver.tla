------------------------------- MODULE Driver -------------------------------
(***************************************************************************)
(* The life of a driver (src/driver/driver.go, src/server/server.go):      *)
(* Start, which serves until its context is done or somebody calls Stop,   *)
(* the goroutine that it starts, any number of callers of Stop, and the    *)
(* calls of clients, which the services of Services answer.                *)
(*                                                                         *)
(* The gRPC server is google.golang.org/grpc v1.49.0, modelled by what     *)
(* Serve and GracefulStop do for the driver: Serve accepts connections     *)
(* until the listener is closed, GracefulStop closes it and waits for the  *)
(* accept loop and for the handlers.  A connection carries one call.       *)
(***************************************************************************)
EXTENDS Services

CONSTANTS
    Stoppers,           \* the goroutines that call Driver.Stop
    Calls,              \* the connections of clients
    IdentityServers,    \* the identity, controller and node servers that New is
    ControllerServers,  \* given: records of the interfaces of their manager and
    NodeServers         \* what else their answers depend on

ASSUME StoppersAssumption == "Start" \notin Stoppers

ASSUME ServersAssumption ==
    \A ids \in IdentityServers : ids.named \in BOOLEAN /\ ids.controller \in BOOLEAN

VARIABLES
    ids, cs, ns,    \* the servers
    cancelled,      \* the context of Start is done
    pc,             \* the step of Start and of each caller of Stop
    serve,          \* the step of the goroutine that Start starts
    quit,           \* grpc: quit has fired, Stop or GracefulStop began
    listening,      \* grpc: the server has its set of listeners
    gone,           \* grpc: the set of connections is nil, GracefulStop is through
    call,           \* the state of each connection
    told,           \* the capabilities that answers have advertised
    refused         \* the method that the last answer said is Unimplemented, if it did

services == <<ids, cs, ns>>
grpc == <<quit, listening, gone>>
clients == <<call, told, refused>>
vars == <<services, cancelled, pc, serve, grpc, clients>>

Actors == {"Start"} \cup Stoppers

NoMethod == <<"none", "none">>

-----------------------------------------------------------------------------

\* NewWithListener: the identity service knows whether there is a controller.
Init ==
    /\ ids \in IdentityServers /\ cs \in ControllerServers /\ ns \in NodeServers
    /\ cs.manager # {} => ids.controller
    /\ cancelled = FALSE
    /\ pc = [a \in Actors |-> "idle"]
    /\ serve = "none"
    /\ quit = FALSE
    /\ listening = TRUE
    /\ gone = FALSE
    /\ call = [c \in Calls |-> "none"]
    /\ told = {}
    /\ refused = NoMethod

\* Start starts its goroutine and waits in the select.
Start ==
    /\ pc["Start"] = "idle"
    /\ pc' = [pc EXCEPT !["Start"] = "select"]
    /\ serve' = "begin"
    /\ UNCHANGED <<services, cancelled, grpc, clients>>

\* Mutant: Start waits for its goroutine only.
SelectDone ==
    /\ pc["Start"] = "select"
    /\ serve = "closed"
    /\ pc' = [pc EXCEPT !["Start"] = "stop"]
    /\ UNCHANGED <<services, cancelled, serve, grpc, clients>>

\* Mutant: Start does not stop the server when its context is done.
SelectLeave ==
    /\ pc["Start"] = "select"
    /\ \/ cancelled /\ pc' = [pc EXCEPT !["Start"] = "returned"]
       \/ serve = "closed" /\ pc' = [pc EXCEPT !["Start"] = "stop"]
    /\ UNCHANGED <<services, cancelled, serve, grpc, clients>>

\* The select: either channel is closed.
Select ==
    /\ pc["Start"] = "select"
    /\ cancelled \/ serve = "closed"
    /\ pc' = [pc EXCEPT !["Start"] = "stop"]
    /\ UNCHANGED <<services, cancelled, serve, grpc, clients>>

Cancel ==
    /\ ~cancelled
    /\ cancelled' = TRUE
    /\ UNCHANGED <<services, pc, serve, grpc, clients>>

\* Driver.Stop, before, during or after Start.
Stop(a) ==
    /\ pc[a] = "idle"
    /\ pc' = [pc EXCEPT ![a] = "stop"]
    /\ UNCHANGED <<services, cancelled, serve, grpc, clients>>

\* Mutant: server.Stop is the forceful one of grpc, which breaks the connections and
\* waits for the accept loop, but for no handler.
ForceStop(a) ==
    /\ pc[a] = "stop"
    /\ quit' = TRUE
    /\ listening' = FALSE
    /\ gone' = TRUE
    /\ pc' = [pc EXCEPT ![a] = "returned"]
    /\ UNCHANGED <<services, cancelled, serve, clients>>

\* GracefulStop: close the listener, unless a GracefulStop is through already.
GracefulStop(a) ==
    /\ pc[a] = "stop"
    /\ quit' = TRUE
    /\ listening' = FALSE
    /\ pc' = [pc EXCEPT ![a] = IF gone THEN "returned" ELSE "drain"]
    /\ UNCHANGED <<services, cancelled, serve, gone, clients>>

\* Its end: the accept loop and the new connections have ended, then all handlers.
Drained(a) ==
    /\ pc[a] = "drain"
    /\ serve # "accept"
    /\ \A c \in Calls : call[c] = "none"
    /\ gone' = TRUE
    /\ pc' = [pc EXCEPT ![a] = "returned"]
    /\ UNCHANGED <<services, cancelled, serve, quit, listening, clients>>

-----------------------------------------------------------------------------
\* Serve, in the goroutine of Start.

GoServe(from, to) ==
    /\ serve = from
    /\ serve' = to
    /\ UNCHANGED <<services, cancelled, pc, grpc, clients>>

\* ErrServerStopped if the server has been stopped before.
ServeBegin == GoServe("begin", IF listening THEN "accept" ELSE "return")

\* Accept fails, because the listener is closed or for a reason of its own.
AcceptFails == GoServe("accept", IF quit THEN "await" ELSE "return")

\* After a GracefulStop began, Serve returns when it is through.
AwaitStop == gone /\ GoServe("await", "return")

\* The error is printed, and done is closed.
CloseDone == GoServe("return", "closed")

ServeStep == ServeBegin \/ AwaitStop \/ CloseDone

-----------------------------------------------------------------------------
\* The calls of clients.

Accept(c) ==
    /\ call[c] = "none"
    /\ serve = "accept" /\ listening
    /\ call' = [call EXCEPT ![c] = "accepted"]
    /\ UNCHANGED <<services, cancelled, pc, serve, grpc, told, refused>>

\* The connection is served, or closed if the server is about to stop.
Admit(c) ==
    /\ call[c] = "accepted"
    /\ \/ call' = [call EXCEPT ![c] = "running"]
       \/ quit /\ call' = [call EXCEPT ![c] = "none"]
    /\ UNCHANGED <<services, cancelled, pc, serve, grpc, told, refused>>

\* The handler of a method, which changes no state of the driver, answers.
Handle(c, method) ==
    /\ call[c] = "running"
    /\ call' = [call EXCEPT ![c] = "none"]
    /\ \E code \in Answers(method, ids, cs, ns) :
           /\ refused' = IF code = "Unimplemented" THEN method ELSE NoMethod
           /\ told' = IF code = "OK" THEN told \cup Advertised(method, ids, cs, ns) ELSE told
    /\ UNCHANGED <<services, cancelled, pc, serve, grpc>>

Next ==
    \/ Start \/ Select \/ Cancel
    \/ \E a \in Stoppers : Stop(a)
    \/ \E a \in Actors : GracefulStop(a) \/ Drained(a)
    \/ ServeStep \/ AcceptFails
    \/ \E c \in Calls : Accept(c) \/ Admit(c) \/ \E m \in Methods : Handle(c, m)

Spec == Init /\ [][Next]_vars

(***************************************************************************)
(* Goroutines that can run do.  Accept of a closed listener fails; other   *)
(* failures need not happen.  The handlers end: nothing bounds the calls   *)
(* of a manager in time, so that this is an assumption about managers.     *)
(***************************************************************************)
Fairness ==
    /\ WF_vars(Select)
    /\ \A a \in Actors : WF_vars(GracefulStop(a) \/ Drained(a))
    /\ WF_vars(ServeStep \/ (quit /\ AcceptFails))
    /\ \A c \in Calls : WF_vars(Admit(c) \/ \E m \in Methods : Handle(c, m))

FairSpec == Spec /\ Fairness

-----------------------------------------------------------------------------
\* Properties.

\* Type invariant.
TypeOK ==
    /\ ids \in IdentityServers /\ cs \in ControllerServers /\ ns \in NodeServers
    /\ cancelled \in BOOLEAN
    /\ pc \in [Actors -> {"idle", "select", "stop", "drain", "returned"}]
    /\ serve \in {"none", "begin", "accept", "await", "return", "closed"}
    /\ quit \in BOOLEAN /\ listening \in BOOLEAN /\ gone \in BOOLEAN
    /\ call \in [Calls -> {"none", "accepted", "running"}]
    /\ told \subseteq Capabilities(cs)
    /\ refused \in Methods \cup {NoMethod}

\* When Start or a Stop has returned, every call that was accepted has been answered
\* and none is accepted any more ("Stops the service gracefully",
\* src/server/server.go:36), whichever of them stopped the server and also if Start
\* runs its goroutine later.
NothingRunsAfter ==
    \A a \in Actors :
        pc[a] = "returned" => serve # "accept" /\ \A c \in Calls : call[c] = "none"

\* No client is answered Unimplemented to a method of a capability that the driver
\* has advertised to any client, which is what "MUST implement" says in the CSI document
\* (src/docs/spec.md:1371, 2653).
AdvertisedIsServed ==
    \A capability \in told : refused \notin MethodsOf(capability)

\* The ways to break that promise are two: a method that the services never serve, and
\* a capability that the manager named itself.  What the driver advertises because a
\* manager implements an interface is served, by whichever service is asked later.
CheckedIsServed ==
    \A capability \in told :
        refused \in MethodsOf(capability) =>
            refused \in NeverServed \/ capability[2] \in Extra(cs)

\* Start returns once its context is done or somebody stops the server, and so does
\* every Stop, as long as handlers end: no two of them wait for each other.
StopsEnd ==
    /\ pc["Start"] # "idle" /\ (cancelled \/ quit) ~> pc["Start"] = "returned"
    /\ \A a \in Actors : pc[a] = "stop" ~> pc[a] = "returned"

\* When Start has returned, its goroutine ends.
NoGoroutineStays == pc["Start"] = "returned" ~> serve = "closed"
=============================================================================
