----------------------------- MODULE ForceStop -----------------------------
(* host force-stop: the only path that ends busy workers.  An operator's command
   requests disabled mode, waits until the saved state shows zero capacity, shows
   an inventory, and after a typed confirmation asks the controller to kill exactly
   what was shown (internal/app/app.go, internal/controller/force_stop.go and
   control_handler.go).  Meanwhile the reconciler steps, workers take jobs and end,
   another command may change the mode, and the container engine may fail.

   One pool stands for all of them: the code asks the same of each.  A worker is
   shown with its state and no job, since Runtime.List never sets JobID.  Worker
   ids are containers, which are never started again. *)
EXTENDS Naturals

CONSTANTS Containers,  \* container ids, in the order sort.Slice gives them
          Operators    \* commands host force-stop

ASSUME ForceStopAssumption == Containers \subseteq Nat

VARIABLES desired,   \* desired state: the mode, and which save wrote it
          observed,  \* what the reconciler saved last
          step,      \* the reconcile step: the mode it loaded, how far it is, and
                     \*   whether its checkpoint failed to land
          assigned,  \* a job is assigned to the pool and not yet taken
          offered,   \* GitHub may assign jobs to the pool
          worker,    \* the state of each container
          op,        \* each force-stop command and its request to the controller
          killed,    \* the containers each command's request killed
          unsaved,   \* history: a step polled over a checkpoint that failed, its closing
                     \*   save never landed either, and no later poll has been saved
          enables,   \* bound: commands host enable still to come
          faults     \* bound: failures of GitHub, the engine or a request to come

forceVars == <<desired, observed, step, assigned, offered, worker, op, killed,
               unsaved, enables, faults>>

Active == {"starting", "idle", "busy"}

States == Active \cup {"new", "exited", "gone"}

Harmless == {"refused", "problems", "none", "declined", "changed"}

Fault == faults > 0 /\ faults' = faults - 1

Reply(o, result) == op' = [op EXCEPT ![o].pc = "end", ![o].result = result]

At(o, place) == op' = [op EXCEPT ![o].pc = place]
-----------------------------------------------------------------------------
Idle == [mode |-> "none", at |-> "idle", lost |-> FALSE]

(* The pool has been in this mode for long, with the workers given; the commands
   silent are never given, and so many enables and failures are still to come. *)
InitWith(mode, workers, silent, toggles, failures) ==
    /\ desired = [mode |-> mode, at |-> 0]
    /\ observed = [phase |-> IF mode = "enabled" THEN "active" ELSE "draining",
                   acked |-> TRUE, capacity |-> IF mode = "enabled" THEN 1 ELSE 0, at |-> 0]
    /\ step = Idle /\ offered = (mode = "enabled") /\ assigned = FALSE
    /\ unsaved = FALSE
    /\ worker = workers
    /\ op = [o \in Operators |->
               [pc |-> IF o \in silent THEN "end" ELSE "start", asked |-> 0,
                shown |-> <<>>, seen |-> <<>>, todo |-> {}, failed |-> FALSE,
                result |-> "pending"]]
    /\ killed = [o \in Operators |-> {}]
    /\ enables = toggles /\ faults = failures

ForceStopInit ==
    \E mode \in {"enabled", "disabled"}, workers \in [Containers -> States],
       silent \in SUBSET Operators, toggles, failures \in Nat :
          InitWith(mode, workers, silent, toggles, failures)

Save(mode) == desired' = [mode |-> mode, at |-> desired.at + 1]

Enable ==
    /\ enables > 0 /\ enables' = enables - 1 /\ Save("enabled")
    /\ UNCHANGED <<observed, step, assigned, offered, worker, op, killed, unsaved, faults>>

(* A reconcile step loads the mode, saves a checkpoint that keeps an acknowledgement
   only for the capacity it is about to advertise, polls GitHub with that capacity,
   starts workers and saves what the poll acknowledged. *)
LoadDesired ==
    /\ step.at = "idle" /\ step' = [Idle EXCEPT !.mode = desired.mode, !.at = "loaded"]
    /\ UNCHANGED <<desired, observed, assigned, offered, worker, op, killed, unsaved, enables, faults>>

Planned == IF step.mode = "enabled" THEN 1 ELSE 0

Phase == IF step.mode = "enabled" THEN "active" ELSE "draining"

Checkpoint(phase) == [observed EXCEPT !.phase = phase, !.at = desired.at,
                                      !.acked = @ /\ observed.capacity = Planned]

(* A checkpoint that fails is a problem to report, and the poll goes on. *)
PollCheckpoint ==
    /\ step.at = "loaded"
    /\ \/ /\ step' = [step EXCEPT !.at = "checked"] /\ UNCHANGED faults
          /\ observed' = Checkpoint(Phase)
       \/ /\ Fault /\ step' = [step EXCEPT !.at = "checked", !.lost = TRUE]
          /\ UNCHANGED observed
    /\ UNCHANGED <<desired, assigned, offered, worker, op, killed, unsaved, enables>>

(* While the poll is open the checkpoint is saved again with a fresh heartbeat, so that
   one that was lost may still land.  A heartbeat that fails leaves the file alone: what
   it adds is a problem, which SaveObserved reports. *)
Heartbeat ==
    /\ step.at = "checked" /\ observed' = Checkpoint(Phase)
    /\ step' = [step EXCEPT !.lost = FALSE]
    /\ UNCHANGED <<desired, assigned, offered, worker, op, killed, unsaved, enables, faults>>

(* A step cancelled in its poll, for another cause than changed inputs, saves what it
   knows as degraded, whether or not GitHub took the capacity. *)
Cancel ==
    /\ step.at = "checked" /\ step' = Idle
    /\ offered' \in {offered, Planned = 1} /\ observed' = Checkpoint("degraded")
    /\ UNCHANGED <<desired, assigned, worker, op, killed, unsaved, enables, faults>>

(* The answer of a poll may be lost after GitHub took the capacity. *)
Poll ==
    /\ step.at = "checked"
    /\ \/ /\ step' = [step EXCEPT !.at = "polled"]
          /\ offered' = (Planned = 1) /\ UNCHANGED faults
       \/ /\ Fault /\ step' = [step EXCEPT !.at = "unpolled"]
          /\ offered' \in {offered, Planned = 1}
    /\ UNCHANGED <<desired, observed, assigned, worker, op, killed, unsaved, enables>>

(* A disabled pool still gets the workers its assigned jobs need. *)
StartWorker(c) ==
    /\ step.at = "polled" /\ (step.mode = "enabled" \/ assigned) /\ worker[c] = "new"
    /\ worker' = [worker EXCEPT ![c] = "starting"]
    /\ UNCHANGED <<desired, observed, step, assigned, offered, op, killed, unsaved, enables, faults>>

AcknowledgesUnpolled == [acked |-> TRUE, capacity |-> Planned]

Acknowledgement ==
    IF step.at = "polled" THEN [acked |-> TRUE, capacity |-> Planned]
                          ELSE [acked |-> FALSE, capacity |-> observed.capacity]

(* The step closes degraded when its poll, or the last save of its checkpoint, failed. *)
SaveObserved ==
    /\ step.at \in {"polled", "unpolled"} /\ step' = Idle
    /\ \E missed \in BOOLEAN :
          /\ IF missed THEN Fault ELSE UNCHANGED faults
          /\ observed' = [phase |-> IF step.at = "polled" /\ ~step.lost /\ ~missed
                                    THEN Phase ELSE "degraded",
                          acked |-> Acknowledgement.acked, at |-> desired.at,
                          capacity |-> Acknowledgement.capacity]
    /\ unsaved' = (unsaved /\ step.at # "polled")
    /\ UNCHANGED <<desired, assigned, offered, worker, op, killed, enables>>

(* A step that ends without its closing save: its inputs changed and it starts over,
   perhaps with a poll under way, the controller dies, or the save fails. *)
Abandon ==
    /\ step.at # "idle" /\ step' = Idle
    /\ offered' \in IF step.at = "checked" THEN {offered, Planned = 1} ELSE {offered}
    /\ unsaved' = (unsaved \/ step.lost)
    /\ UNCHANGED <<desired, observed, assigned, worker, op, killed, enables, faults>>

AssignJob ==
    /\ offered /\ ~assigned /\ assigned' = TRUE
    /\ UNCHANGED <<desired, observed, step, offered, worker, op, killed, unsaved, enables, faults>>

(* A worker registers, takes a job, and ends; the watch then saves its artifacts
   and removes the container. *)
WorkerMoves(c) ==
    /\ \/ worker[c] = "starting" /\ worker' = [worker EXCEPT ![c] = "idle"] /\ UNCHANGED assigned
       \/ /\ worker[c] = "idle" /\ assigned /\ assigned' = FALSE
          /\ worker' = [worker EXCEPT ![c] = "busy"]
       \/ worker[c] = "busy" /\ worker' = [worker EXCEPT ![c] = "exited"] /\ UNCHANGED assigned
       \/ worker[c] = "exited" /\ worker' = [worker EXCEPT ![c] = "gone"] /\ UNCHANGED assigned
    /\ UNCHANGED <<desired, observed, step, offered, op, killed, unsaved, enables, faults>>
-----------------------------------------------------------------------------
(* The command: disabled mode is requested, and the stamp of the request read back
   from the file, which another command may have written since. *)
RequestDisabled(o) ==
    /\ op[o].pc = "start" /\ Save("disabled") /\ At(o, "stamp")
    /\ UNCHANGED <<observed, step, assigned, offered, worker, killed, unsaved, enables, faults>>

ReadStamp(o) ==
    /\ op[o].pc = "stamp"
    /\ op' = [op EXCEPT ![o].pc = "drain", ![o].asked = desired.at]
    /\ UNCHANGED <<desired, observed, step, assigned, offered, worker, killed, unsaved, enables, faults>>

AtZero == observed.phase = "draining" /\ observed.capacity = 0

WaitForZeroCapacity(o) ==
    /\ op[o].pc = "drain"
    /\ \/ AtZero /\ observed.at >= op[o].asked /\ At(o, "preview")
       \/ observed.phase = "degraded" /\ Reply(o, "problems")
    /\ UNCHANGED <<desired, observed, step, assigned, offered, worker, killed, unsaved, enables, faults>>

(* forceStopAllowed, before the preview and again before the execution. *)
Allowed(o) ==
    /\ op[o].pc \in {"preview", "execute"}
    /\ IF desired.mode = "disabled" THEN At(o, IF op[o].pc = "preview" THEN "check preview"
                                                                 ELSE "check execute")
       ELSE Reply(o, "refused")
    /\ UNCHANGED <<desired, observed, step, assigned, offered, worker, killed, unsaved, enables, faults>>

Acknowledged(o) ==
    /\ op[o].pc \in {"check preview", "check execute"}
    /\ IF AtZero /\ observed.acked
       THEN op' = [op EXCEPT ![o].pc = IF @ = "check preview" THEN "list" ELSE "relist",
                             ![o].seen = <<>>, ![o].todo = Containers]
       ELSE Reply(o, "refused")
    /\ UNCHANGED <<desired, observed, step, assigned, offered, worker, killed, unsaved, enables, faults>>

First(S) == {c \in S : \A d \in S : c <= d}

(* List reads one container after the other; a state that cannot be read counts
   as starting. *)
Inspect(o) ==
    /\ op[o].pc \in {"list", "relist"}
    /\ \E c \in First(op[o].todo), unread \in BOOLEAN :
          LET state == IF unread THEN "starting" ELSE worker[c] IN
          /\ unread => worker[c] \in Active
          /\ IF unread THEN Fault ELSE UNCHANGED faults
          /\ op' = [op EXCEPT ![o].todo = @ \ {c},
                              ![o].seen = [d \in DOMAIN @ \cup {c} |->
                                             IF d = c THEN state ELSE @[d]]]
    /\ UNCHANGED <<desired, observed, step, assigned, offered, worker, killed, unsaved, enables>>

ForceStopTargets(seen) == [c \in {d \in DOMAIN seen : seen[d] \in Active} |-> seen[c]]

Show(o) ==
    /\ op[o].pc = "list" /\ op[o].todo = {}
    /\ LET targets == ForceStopTargets(op[o].seen) IN
          IF targets = <<>> THEN Reply(o, "none")
          ELSE op' = [op EXCEPT ![o].pc = "confirm", ![o].shown = targets]
    /\ UNCHANGED <<desired, observed, step, assigned, offered, worker, killed, unsaved, enables, faults>>

Confirm(o) ==
    /\ op[o].pc = "confirm" /\ (At(o, "execute") \/ Reply(o, "declined"))
    /\ UNCHANGED <<desired, observed, step, assigned, offered, worker, killed, unsaved, enables, faults>>
-----------------------------------------------------------------------------
SameIds(shown, actual) == DOMAIN shown = DOMAIN actual

SameForceStopTargets(shown, actual) == shown = actual

StopsWhatMatches(o) ==
    /\ op[o].pc = "relist" /\ op[o].todo = {} /\ Reply(o, "changed")
    /\ LET match == {c \in DOMAIN op[o].shown : op[o].seen[c] = op[o].shown[c]} IN
          /\ killed' = [killed EXCEPT ![o] = @ \cup match]
          /\ worker' = [c \in Containers |-> IF c \in match THEN "exited" ELSE worker[c]]
    /\ UNCHANGED <<desired, observed, step, assigned, offered, unsaved, enables, faults>>

(* ExecuteForceStop: the new inventory must equal the one confirmed. *)
Compare(o) ==
    /\ op[o].pc = "relist" /\ op[o].todo = {}
    /\ LET actual == ForceStopTargets(op[o].seen) IN
          IF SameForceStopTargets(op[o].shown, actual)
          THEN op' = [op EXCEPT ![o].pc = "kill", ![o].todo = DOMAIN actual]
          ELSE Reply(o, "changed")
    /\ UNCHANGED <<desired, observed, step, assigned, offered, worker, killed, unsaved, enables, faults>>

ForgetsFailure(o, c, failed) ==
    op' = [op EXCEPT ![o].pc = "kill", ![o].todo = @ \ {c}]

NextTarget(o, c, failed) ==
    op' = [op EXCEPT ![o].pc = "kill", ![o].todo = @ \ {c}, ![o].failed = @ \/ failed]

(* ContainerKill succeeds on a running container; a container that has ended but
   is still there is a conflict, which is an error, and one that is gone is not. *)
ContainerKill(o) ==
    /\ op[o].pc = "kill"
    /\ \E c \in First(op[o].todo) :
       \/ /\ worker[c] \in Active /\ At(o, "await")
          /\ worker' = [worker EXCEPT ![c] = "exited"]
          /\ killed' = [killed EXCEPT ![o] = @ \cup {c}]
          /\ UNCHANGED faults
       \/ worker[c] = "gone" /\ At(o, "await") /\ UNCHANGED <<worker, killed, faults>>
       \/ /\ worker[c] = "exited" /\ NextTarget(o, c, TRUE)
          /\ UNCHANGED <<worker, killed, faults>>
       \/ /\ Fault /\ NextTarget(o, c, TRUE)
          /\ worker' \in {worker, [worker EXCEPT ![c] = IF @ \in Active THEN "exited" ELSE @]}
          /\ killed' = [killed EXCEPT ![o] = IF worker' # worker THEN @ \cup {c} ELSE @]
    /\ UNCHANGED <<desired, observed, step, assigned, offered, unsaved, enables>>

(* The watch of the container ends once its evidence is saved and it is removed,
   or with an error. *)
AwaitWatch(o) ==
    /\ op[o].pc = "await"
    /\ \E c \in First(op[o].todo) :
       \/ worker[c] = "gone" /\ NextTarget(o, c, FALSE) /\ UNCHANGED faults
       \/ Fault /\ NextTarget(o, c, TRUE)
    /\ UNCHANGED <<desired, observed, step, assigned, offered, worker, killed, unsaved, enables>>

(* The deadline of the request, or the end of the controller, leaves the rest. *)
Break(o) ==
    /\ op[o].pc \in {"kill", "await"} /\ Fault /\ Reply(o, "error")
    /\ UNCHANGED <<desired, observed, step, assigned, offered, worker, killed, unsaved, enables>>

Finish(o) ==
    /\ op[o].pc = "kill" /\ op[o].todo = {}
    /\ Reply(o, IF op[o].failed THEN "error" ELSE "stopped")
    /\ UNCHANGED <<desired, observed, step, assigned, offered, worker, killed, unsaved, enables, faults>>

Operate(o) == \/ RequestDisabled(o) \/ ReadStamp(o) \/ WaitForZeroCapacity(o)
              \/ Allowed(o) \/ Acknowledged(o) \/ Inspect(o) \/ Show(o) \/ Confirm(o)
              \/ Compare(o) \/ ContainerKill(o) \/ AwaitWatch(o) \/ Break(o) \/ Finish(o)

ForceStopNext ==
    \/ Enable \/ LoadDesired \/ PollCheckpoint \/ Heartbeat \/ Cancel \/ Poll
    \/ SaveObserved \/ Abandon \/ AssignJob
    \/ \E c \in Containers : StartWorker(c) \/ WorkerMoves(c)
    \/ \E o \in Operators : Operate(o)

ForceStopSpec == ForceStopInit /\ [][ForceStopNext]_forceVars

-----------------------------------------------------------------------------
(* Nothing is killed that the operator did not confirm: a killed container was
   shown, and the inventory that preceded the kills showed every active container
   in the same state as the one confirmed. *)
OnlyConfirmedStopped ==
    \A o \in Operators : killed[o] # {} =>
        /\ killed[o] \subseteq DOMAIN op[o].shown
        /\ ForceStopTargets(op[o].seen) = op[o].shown

(* A command that reports the kill of its targets is right: every container it
   showed has ended and is gone. *)
StoppedIsGone ==
    \A o \in Operators : op[o].result = "stopped" =>
        \A c \in DOMAIN op[o].shown : worker[c] = "gone"

(* A command that says nothing was stopped has killed nothing: refused, declined,
   or told that the workers changed after the confirmation. *)
NothingStopped ==
    \A o \in Operators : op[o].result \in Harmless => killed[o] = {}

(* What a force stop reports is true, whether it killed its targets or nothing. *)
ReportIsTrue == StoppedIsGone /\ NothingStopped

(* A kill meets a drained pool: when no command has changed the mode since this one
   read its stamp, and what the last polls told GitHub is on the disk, GitHub may assign
   no job to the pool that is being killed.  One lost write is not enough to break this:
   a checkpoint that lands withdraws the acknowledgement of another capacity, and a
   closing save replaces it.  When a step loses both, an acknowledged zero of an earlier
   disable stands although the poll has offered jobs again; the next disable keeps it
   with a fresh heartbeat, and a kill may then meet an offered pool. *)
KillsAreDrained ==
    [][\A o \in Operators :
          killed'[o] # killed[o] /\ desired.at = op[o].asked /\ ~unsaved => ~offered]_forceVars
============================================================================
