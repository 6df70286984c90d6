--------------------------- MODULE NodeLifecycle ----------------------------
(***************************************************************************)
(* NodeServer and the container orchestrator that calls it.  The           *)
(* orchestrator (CO) is external: it is modelled by the rules that         *)
(* src/docs/spec.md sets it, which are what the handlers rely on:          *)
(*                                                                         *)
(*   - at most one call it still waits for per volume (spec.md:417);       *)
(*   - NodePublishVolume after NodeStageVolume returned OK, and            *)
(*     NodeUnstageVolume after every NodeUnpublishVolume did (:2246);      *)
(*   - a call that fails, or that it stops waiting for, is sent again, or  *)
(*     given up for the opposite call (:2128, :2210);                      *)
(*   - it creates the staging directory (:2146).                           *)
(*                                                                         *)
(* A call that the CO has stopped waiting for keeps running in the server. *)
(***************************************************************************)
EXTENDS NodeServer

CONSTANTS
    Impatient,      \* the operations that the CO may stop waiting for
    CreatesTargets  \* the CO creates the target directories too

VARIABLES
    phase,          \* the CO's record of each staging path and target
    waiting,        \* the calls that the CO waits for
    loose           \* history: the devices left attached by a call that was cut short

lvars == <<vars, phase, waiting, loose>>

Phases == {"down", "goingUp", "up", "goingDown"}

VolumeAt(p) == IF p \in Targets THEN VolumeOf[p] ELSE p

InFlight(v) == \E c \in waiting : Vol(c) = v

Enter(p, ph) == phase' = [phase EXCEPT ![p] = ph]

\* The CO uses a volume with one access type.
Access == CHOOSE a \in AccessTypes : TRUE

\* What the CO asks for to bring a path up or down.
RequestFor(p) ==
    IF p \in Volumes
    THEN IF phase[p] = "goingUp"
         THEN [op |-> "Stage", vol |-> p, access |-> Access, valid |-> TRUE]
         ELSE [op |-> "Unstage", vol |-> p, valid |-> TRUE]
    ELSE IF phase[p] = "goingUp"
         THEN [op |-> "Publish", vol |-> VolumeOf[p], target |-> p, access |-> Access,
               readOnly |-> FALSE, valid |-> TRUE]
         ELSE [op |-> "Unpublish", vol |-> VolumeOf[p], target |-> p, valid |-> TRUE]

LInit ==
    /\ Init
    /\ phase = [p \in Paths |-> "down"]
    /\ waiting = {}
    /\ loose = {}

\* The CO decides to stage or to publish.
BeginUp(p) ==
    /\ phase[p] = "down"
    /\ p \in Targets => phase[VolumeOf[p]] = "up"
    /\ Enter(p, "goingUp")
    /\ UNCHANGED <<vars, waiting, loose>>

\* The CO decides to unpublish or to unstage: what is up, or what it has begun.
BeginDown(p) ==
    /\ \/ phase[p] = "up"
       \/ phase[p] = "goingUp" /\ path[p] # "absent"
    /\ ~InFlight(VolumeAt(p))
    /\ p \in Volumes => \A t \in Targets : VolumeOf[t] = p => phase[t] = "down"
    /\ Enter(p, "goingDown")
    /\ UNCHANGED <<vars, waiting, loose>>

Creates(p) == p \in Volumes \/ CreatesTargets

EnsureDir(p) ==
    /\ phase[p] = "goingUp"
    /\ Creates(p)
    /\ MakeDir(p)
    /\ UNCHANGED <<phase, waiting, loose>>

Send(c, p) ==
    /\ phase[p] \in {"goingUp", "goingDown"}
    /\ phase[p] = "goingUp" /\ Creates(p) => path[p] = "dir"
    /\ ~InFlight(VolumeAt(p))
    /\ Receive(c, RequestFor(p))
    /\ waiting' = waiting \cup {c}
    /\ UNCHANGED <<phase, loose>>

\* The path that a request is about.
PathOf(r) == IF r.op \in {"Stage", "Unstage"} THEN r.vol ELSE r.target

\* The CO takes an OK for done and tries again after an error.  An answer that it
\* no longer waits for changes nothing.
Answer(c) ==
    /\ Reply(c)
    /\ waiting' = waiting \ {c}
    /\ IF c \in waiting /\ code[c] = "OK"
       THEN Enter(PathOf(req[c]),
                  IF req[c].op \in {"Stage", "Publish"} THEN "up" ELSE "down")
       ELSE UNCHANGED phase
    /\ UNCHANGED loose

\* The CO's deadline passes, or the answer is lost.
GiveUp(c) ==
    /\ c \in waiting
    /\ req[c].op \in Impatient
    /\ faults < MaxFaults
    /\ faults' = faults + 1
    /\ waiting' = waiting \ {c}
    /\ UNCHANGED <<locks, handlers, kernel, attached, phase, loose>>

\* A handler is between AttachBlock and the mount, or between the umount and DetachBlock.
MovesDevice(c, v) == pc[c] \in {"askMount", "mount", "detach"} /\ Vol(c) = v

CutShort(v) ==
    \E c \in Calls :
        /\ MovesDevice(c, v)
        /\ pc'[c] = "idle" \/ (pc'[c] = "release" /\ code'[c] # "OK")

\* A device that such a handler leaves is loose until it is mounted or detached.
Loosen == loose' = {v \in attached' : mounts'[v] = <<>> /\ (v \in loose \/ CutShort(v))}

Run(c) == HandlerStep(c) /\ Loosen /\ UNCHANGED <<phase, waiting>>

\* Every call in flight ends in an error.
Restart == Crash /\ Loosen /\ waiting' = {} /\ UNCHANGED phase

LNext ==
    \/ \E p \in Paths : BeginUp(p) \/ BeginDown(p) \/ EnsureDir(p)
    \/ \E c \in Calls :
           (\E p \in Paths : Send(c, p)) \/ Run(c) \/ Answer(c) \/ GiveUp(c)
    \/ Restart

LSpec == LInit /\ [][LNext]_lvars

(***************************************************************************)
(* The handlers run to their end, and the CO goes on retrying what it has  *)
(* begun; each path gets its turn.  Nothing makes it begin.  Faults,       *)
(* crashes and deadlines are bounded by MaxFaults, so that in the end the  *)
(* host is well and the CO waits long enough.                              *)
(***************************************************************************)
LFairness ==
    /\ \A c \in Calls : WF_lvars(Run(c) \/ Answer(c))
    /\ \A p \in Paths : WF_lvars(EnsureDir(p)) /\ SF_lvars(\E c \in Calls : Send(c, p))

LFairSpec == LSpec /\ LFairness

-----------------------------------------------------------------------------

\* Type invariant.
LTypeOK ==
    /\ TypeOK
    /\ phase \in [Paths -> Phases]
    /\ waiting \subseteq {c \in Calls : pc[c] # "idle"}
    /\ loose \subseteq attached

HasVolume(v) == mounts[v] # <<>> \/ v \in files

\* While the CO takes a volume for staged it is on its staging path, and while it
\* takes it for published the target shows what the staging path shows: no call
\* that was given up, and no crash, takes it away afterwards.
UpIsServed ==
    /\ \A v \in Volumes : phase[v] = "up" => HasVolume(v)
    /\ \A t \in Targets :
           phase[t] = "up" => mounts[t] # <<>> /\ Shown(t) = Shown(VolumeOf[t])

\* Nothing is left mounted on a target that Unpublish reported gone, even by a
\* Publish that the CO had given up and that runs later.
DownIsGone == \A t \in Targets : phase[t] = "down" => mounts[t] = <<>>

\* A device that is attached is mounted on its staging path, the one place where
\* Unstage looks for it, unless a Stage was cut short between AttachBlock and the mount,
\* or an Unstage between the umount and DetachBlock: no other failure, crash or call
\* that was given up leaves a device that no Unstage will detach.
AttachedIsMounted ==
    \A v \in attached :
        mounts[v] # <<>> \/ v \in loose \/ \E c \in Calls : MovesDevice(c, v)

\* What the CO goes on asking for comes up, unless it changes its mind: retries get
\* there ("If the volume corresponding to the volume_id is already staged [...] the
\* Plugin MUST reply 0 OK", src/docs/spec.md:2126).
ComesUp == \A p \in Paths : phase[p] = "goingUp" ~> phase[p] # "goingUp"

\* The same, whatever fails or is given up on the way, but for a volume whose device is
\* on the staging path already: a Stage that mounts it again fails each time.
ComesUpOrIsThere ==
    \A p \in Paths :
        phase[p] = "goingUp" ~>
            phase[p] # "goingUp" \/ (p \in Volumes /\ [](mounts[p] # <<>>))

\* What the CO goes on taking down comes down ("If the volume corresponding to the
\* volume_id is not staged [...] the Plugin MUST reply 0 OK", src/docs/spec.md:2208, and
\* :2385 of Unpublish).
ComesDown == \A p \in Paths : phase[p] = "goingDown" ~> phase[p] # "goingDown"

\* The same, whatever fails on the way, but for a path that is gone before the call for
\* it was answered OK: it stays unmounted, but each retry fails.
ComesDownOrIsGone ==
    \A p \in Paths :
        phase[p] = "goingDown" ~>
            phase[p] # "goingDown" \/ [](path[p] = "absent" /\ mounts[p] = <<>>)

Lifecycle == INSTANCE VolumeLifecycle WITH
    provisioned <- {v \in Volumes : HasVolume(v)},
    bound <- {t \in Targets : mounts[t] # <<>>}

\* The node server under a CO that keeps the rules implements VolumeLifecycle: no
\* volume in use is ever pulled away.
LifecycleSpec == Lifecycle!Spec
=============================================================================
