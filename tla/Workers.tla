------------------------------ MODULE Workers -------------------------------
(***************************************************************************)
(* One-job workers of one pool, from the registration of a runner to the   *)
(* removal of its container: the reconciler's starts and retirements, the  *)
(* Docker runtime under them, the runner and its hooks in the container,   *)
(* and the watch that saves a container's artifacts before removing it.    *)
(*                                                                         *)
(* Which workers a step may remove and whether it may start one is the     *)
(* plan's business (module Plan); here any choice the plan could make is   *)
(* possible.  A fault is a failed call or a death of the controller.       *)
(***************************************************************************)
EXTENDS Naturals, FiniteSets

CONSTANTS Worker,      \* identities for runners and their containers
          Limit,       \* workers the plan lets run at once
          Capacities,  \* capacities a poll may tell GitHub
          MaxJobs, MaxFaults

ASSUME WorkersAssumption ==
    /\ IsFiniteSet(Worker) /\ Capacities \subseteq 0..Limit
    /\ {Limit, MaxJobs, MaxFaults} \subseteq Nat

VARIABLES
    reg,      \* GitHub's registration: none, live, gone
    job,      \* the runner's job: none, running, done, lost (stopped by the host)
    offered, assigned, told, \* jobs offered, acquired and not picked up, capacity told
    box,      \* the container: none, created, running, exited, removed
    jit,      \* the entrypoint read its JIT configuration
    hook,     \* the state file in the container
    record,   \* the artifact record: none, open, finalized
    saved,    \* workers whose complete artifacts are on disk
    watch,    \* the runtime's watch: none, next (a start's: the next exit), waiting
              \* (until it does not run), saved, recorded
    pc,       \* what the reconciler does next
    view,     \* its inventory
    cur,      \* the worker it handles, as a set of at most one
    seen,     \* workers this step has verified or tried to remove
    cached,   \* the statistics the listener keeps
    zeros,    \* zero-capacity polls in a row without assigned jobs
    acked,    \* the poll of this step was answered
    jobs, faults

github  == <<reg, job, offered, assigned, told, jobs>>
inside  == <<jit, hook>>
store   == <<record, saved>>
control == <<pc, view, cur, seen, cached, zeros, acked>>
vars    == <<github, box, inside, store, watch, control, faults>>

Fault == faults < MaxFaults /\ faults' = faults + 1

On(f, w, value) == [f EXCEPT ![w] = value]

\* past are workers of which only the artifacts are left.
InitWith(past, spent) ==
    /\ reg = [w \in Worker |-> IF w \in past THEN "gone" ELSE "none"]
    /\ box = [w \in Worker |-> IF w \in past THEN "removed" ELSE "none"]
    /\ record = [w \in Worker |-> IF w \in past THEN "finalized" ELSE "none"] /\ saved = past
    /\ job = [w \in Worker |-> "none"] /\ watch = [w \in Worker |-> "none"]
    /\ offered = 0 /\ assigned = 0 /\ told = 0 /\ jobs = 0
    /\ jit = {} /\ hook = [w \in Worker |-> ""]
    /\ pc = "poll" /\ view = [w \in Worker |-> "none"] /\ cur = {} /\ seen = {}
    /\ cached = 0 /\ zeros = 0 /\ acked = FALSE
    /\ faults = spent

Init == \E past \in SUBSET Worker, spent \in 0..MaxFaults : InitWith(past, spent)

Running == {w \in Worker : job[w] = "running"}
-----------------------------------------------------------------------------
(* GitHub and the container. *)
Offer == /\ jobs < MaxJobs /\ told > offered + assigned + Cardinality(Running)
         /\ offered' = offered + 1 /\ jobs' = jobs + 1
         /\ UNCHANGED <<reg, job, assigned, told, box, inside, store, watch, control, faults>>

PickUp(w) ==
    /\ assigned > 0 /\ reg[w] = "live" /\ job[w] = "none"
    /\ box[w] = "running" /\ w \in jit /\ hook[w] = "idle"
    /\ assigned' = assigned - 1 /\ job' = On(job, w, "running")
    /\ UNCHANGED <<reg, offered, told, jobs, box, inside, store, watch, control, faults>>

Hook(w, from, to) ==
    /\ box[w] = "running" /\ hook[w] = from /\ hook' = On(hook, w, to)
    /\ UNCHANGED <<github, box, jit, store, watch, control, faults>>

Entrypoint(w)   == Hook(w, "", "idle")
JobStarted(w)   == job[w] = "running" /\ Hook(w, "idle", "busy")
JobCompleted(w) == job[w] = "running" /\ Hook(w, "busy", "completed")

\* GitHub forgets a one-job runner with its job.
Finish(w) == /\ job[w] = "running" /\ hook[w] \in {"busy", "completed"}
             /\ job' = On(job, w, "done") /\ reg' = On(reg, w, "gone")
             /\ UNCHANGED <<offered, assigned, told, jobs, box, inside, store, watch, control,
                            faults>>

\* A runner leaves after its job, without a configuration or a registration.
Leave(w) ==
    /\ box[w] = "running" /\ hook[w] # ""
    /\ job[w] = "done" \/ (job[w] = "none" /\ (reg[w] = "gone" \/ (w \notin jit /\ w \notin cur)))
    /\ box' = On(box, w, "exited")
    /\ UNCHANGED <<github, inside, store, watch, control, faults>>

\* The engine or the runner process dies under the container.
Die(w) == /\ box[w] = "running" /\ job[w] = "none" /\ Fault
          /\ box' = On(box, w, "exited")
          /\ UNCHANGED <<github, inside, store, watch, control>>
-----------------------------------------------------------------------------
(* The watch of a container: wait for its exit, save logs, evidence and
   diagnostics, finalize the record, and only then remove the container.  Any
   failure ends the watch and leaves the container for the next inventory. *)
WatchFrame == UNCHANGED <<github, inside, control>>

EndWatch(w) == watch' = On(watch, w, "none")

\* The wait of a start sees only an exit, not that the container never ran.
Stopped(w) == \/ watch[w] = "waiting" /\ box[w] \in {"created", "exited"}
              \/ watch[w] = "next" /\ box[w] = "exited"

SaveArtifacts(w) ==
    /\ Stopped(w)
    /\ saved' = saved \cup {w} /\ watch' = On(watch, w, "saved")
    /\ UNCHANGED <<record, box, faults>> /\ WatchFrame

FinalizesAnyway(w) ==
    /\ Stopped(w) /\ Fault
    /\ watch' = On(watch, w, "saved") /\ UNCHANGED <<store, box>> /\ WatchFrame

SaveFails(w) ==
    /\ Stopped(w) /\ Fault
    /\ EndWatch(w) /\ UNCHANGED <<store, box>> /\ WatchFrame

FinalizeRecord(w) ==
    /\ watch[w] = "saved" /\ record' = On(record, w, "finalized")
    /\ watch' = On(watch, w, "recorded") /\ UNCHANGED <<saved, box, faults>> /\ WatchFrame

FinalizeFails(w) ==
    /\ watch[w] = "saved" /\ Fault
    /\ EndWatch(w) /\ UNCHANGED <<store, box>> /\ WatchFrame

RemoveContainer(w) ==
    /\ watch[w] = "recorded" /\ box' = On(box, w, "removed")
    /\ EndWatch(w) /\ UNCHANGED <<store, faults>> /\ WatchFrame

RemoveContainerFails(w) ==
    /\ watch[w] = "recorded" /\ Fault
    /\ EndWatch(w) /\ UNCHANGED <<store, box>> /\ WatchFrame

\* The wait breaks: a container that runs is left, any other is finalized.
WaitFails(w) ==
    /\ watch[w] \in {"next", "waiting"} /\ Fault
    /\ \/ box[w] = "running" /\ EndWatch(w) /\ UNCHANGED saved
       \/ /\ box[w] \in {"created", "exited"}
          /\ saved' = saved \cup {w} /\ watch' = On(watch, w, "saved")
    /\ UNCHANGED <<record, box>> /\ WatchFrame

\* A concurrent cleanup removed the container first.
WaitFindsNothing(w) ==
    /\ watch[w] = "waiting" /\ box[w] = "removed"
    /\ EndWatch(w) /\ UNCHANGED <<store, box, faults>> /\ WatchFrame

Watch(w) == \/ SaveArtifacts(w) \/ SaveFails(w) \/ FinalizeRecord(w) \/ FinalizeFails(w)
            \/ RemoveContainer(w) \/ RemoveContainerFails(w) \/ WaitFails(w)
            \/ WaitFindsNothing(w)

WatchesRunning(W) ==
    LET M == {w \in W : watch[w] = "none" /\ box[w] = "running"}
    IN  /\ watch' = [w \in Worker |-> IF w \in M THEN "waiting" ELSE watch[w]]
        /\ record' = [w \in Worker |-> IF w \in M THEN "open" ELSE record[w]]

\* A watch opens the log, and with it the record, before it waits.
EnsureWatch(W) ==
    /\ watch' = [w \in Worker |-> IF w \in W /\ watch[w] = "none" THEN "waiting" ELSE watch[w]]
    /\ record' = [w \in Worker |-> IF w \in W /\ watch[w] = "none" THEN "open" ELSE record[w]]

\* A container removed since it was read has no labels to open a record with.
WatchAgain(w) == IF box[w] = "removed" THEN watch' = On(watch, w, "waiting") /\ UNCHANGED record
                 ELSE EnsureWatch({w})

WatchStart(w) == watch' = On(watch, w, "next") /\ record' = On(record, w, "open")
-----------------------------------------------------------------------------
(* A reconcile step: poll, inventory, registration checks, retirements, start. *)
Go(next) == pc' = next

EndStep == /\ Go("poll") /\ cur' = {} /\ seen' = {} /\ acked' = FALSE
           /\ view' = [w \in Worker |-> "none"]

\* GitHub counts before it hands over the jobs this poll acquires.
Poll(capacity) ==
    /\ pc = "poll" /\ Go("list") /\ acked' = TRUE /\ told' = capacity
    /\ cached' = assigned + Cardinality(Running)
    /\ zeros' = IF capacity = 0 /\ cached' = 0 THEN (IF zeros = 0 THEN 1 ELSE 2) ELSE 0
    /\ assigned' = assigned + offered /\ offered' = 0
    /\ UNCHANGED <<reg, job, jobs, box, inside, store, watch, view, cur, seen, faults>>

\* An empty poll answers with what the listener kept from the last message.
EmptyPoll(capacity) ==
    /\ pc = "poll" /\ offered = 0 /\ Go("list") /\ acked' = TRUE /\ told' = capacity
    /\ zeros' = IF capacity = 0 /\ cached = 0 THEN (IF zeros = 0 THEN 1 ELSE 2) ELSE 0
    /\ UNCHANGED <<reg, job, offered, assigned, jobs, cached, box, inside, store, watch, view,
                   cur, seen, faults>>

\* The jobs were acquired and the answer was lost.
PollFails(capacity) ==
    /\ pc = "poll" /\ Fault /\ Go("list") /\ acked' = FALSE /\ told' \in {told, capacity}
    /\ zeros' = 0 /\ assigned' = assigned + offered /\ offered' = 0
    /\ UNCHANGED <<reg, job, jobs, cached, box, inside, store, watch, view, cur, seen>>

Boxes == {w \in Worker : box[w] \in {"created", "running", "exited"}}

\* A state that cannot be read is never idle; a job the index knows is busy.
States(w) ==
    CASE box[w] \in {"none", "removed"} -> {"none"}
      [] box[w] \in {"created", "exited"} -> {"exited"}
      [] box[w] = "running" /\ hook[w] = "" -> {"starting"}
      [] box[w] = "running" /\ hook[w] = "idle" /\ job[w] = "none" -> {"idle"}
      [] box[w] = "running" /\ hook[w] = "idle" /\ job[w] # "none" -> {"idle", "busy"}
      [] OTHER -> {"busy"}

Inventory(v) == /\ \A w \in Worker : v[w] \in States(w)
                /\ EnsureWatch(Boxes)

List == /\ pc = "list" /\ Go("verify")
        /\ \E v \in [Worker -> {"none", "exited", "starting", "idle", "busy"}] :
              Inventory(v) /\ view' = v
        /\ UNCHANGED <<github, box, inside, saved, cur, seen, cached, zeros, acked, faults>>

ReadFails(w) ==
    /\ pc = "list" /\ box[w] = "running" /\ Fault /\ Go("verify")
    /\ \E v \in [Worker -> {"none", "exited", "starting", "idle", "busy"}] :
          Inventory(v) /\ view' = [v EXCEPT ![w] = "starting"]
    /\ UNCHANGED <<github, box, inside, saved, cur, seen, cached, zeros, acked>>

\* Without an inventory nothing is retired or started.
ListFails == /\ pc = "list" /\ Fault /\ EndStep
             /\ UNCHANGED <<github, box, inside, store, watch, cached, zeros>>

VerifiesNothing(missed) ==
    /\ pc = "verify" /\ Go("retire")
    /\ IF missed = {} THEN UNCHANGED faults ELSE Fault
    /\ UNCHANGED <<github, box, inside, store, watch, view, cur, seen, cached, zeros, acked>>

\* Only GitHub's word that the registration is gone marks an idle worker; the
\* workers in missed could not be looked up.
Verify(missed) ==
    /\ pc = "verify" /\ Go("retire")
    /\ IF missed = {} THEN UNCHANGED faults ELSE Fault
    /\ view' = [w \in Worker |-> IF acked /\ view[w] = "idle" /\ reg[w] = "gone" /\ w \notin missed
                                THEN "unregistered" ELSE view[w]]
    /\ UNCHANGED <<github, box, inside, store, watch, cur, seen, cached, zeros, acked>>

RetirementAllowed == acked /\ told = 0 /\ cached = 0 /\ zeros = 2

\* The plan proposes w, and the guards of the retirement loop let it pass.
Retire(w) ==
    /\ pc = "retire" /\ w \notin seen
    /\ \/ view[w] = "unregistered" /\ Go("first")
       \/ view[w] = "exited" /\ acked /\ Go("first")
       \/ view[w] \in {"idle", "starting"} /\ RetirementAllowed /\ Go("deregister")
    /\ cur' = {w} /\ seen' = seen \cup {w}
    /\ UNCHANGED <<github, box, inside, store, watch, view, cached, zeros, acked, faults>>

\* Gone workers are in every plan's removals.
Due == {w \in Worker \ seen : view[w] = "unregistered" \/ (view[w] = "exited" /\ acked)}

NextRemoval == Go("retire") /\ cur' = {}
               /\ UNCHANGED <<view, seen, cached, zeros, acked>>

IgnoresRefusal(w) ==
    /\ pc = "deregister" /\ cur = {w} /\ Go("first")
    /\ reg' = IF job[w] = "running" THEN reg ELSE On(reg, w, "gone")
    /\ UNCHANGED <<job, offered, assigned, told, jobs, box, inside, store, watch, view, cur,
                   seen, cached, zeros, acked, faults>>

\* GitHub refuses to remove a runner with a job.
Deregister(w) ==
    /\ pc = "deregister" /\ cur = {w} /\ job[w] # "running"
    /\ Go("first") /\ reg' = On(reg, w, "gone")
    /\ UNCHANGED <<job, offered, assigned, told, jobs, box, inside, store, watch, view, cur,
                   seen, cached, zeros, acked, faults>>

DeregisterFails(w) ==
    /\ pc = "deregister" /\ cur = {w}
    /\ \/ job[w] = "running" /\ UNCHANGED <<reg, faults>>
       \/ Fault /\ \E r \in {reg[w], "gone"} : job[w] # "running" /\ reg' = On(reg, w, r)
    /\ NextRemoval
    /\ UNCHANGED <<job, offered, assigned, told, jobs, box, inside, store, watch>>

(* RemoveIfIdle: two idle readings, a stop that never kills, and the wait for
   the watch.  The file of a stopped container can still be read. *)
Read(w, next) ==
    \/ /\ hook[w] = "idle" /\ box[w] # "removed" /\ Go(next) /\ UNCHANGED <<cur, faults>>
       /\ UNCHANGED <<view, seen, cached, zeros, acked>>
    \/ (hook[w] # "idle" \/ box[w] = "removed") /\ NextRemoval /\ UNCHANGED faults
    \/ Fault /\ NextRemoval

ReadFirst(w)  == /\ pc = "first" /\ cur = {w} /\ Read(w, "second")
                 /\ UNCHANGED <<github, box, inside, store, watch>>
ReadSecond(w) == /\ pc = "second" /\ cur = {w} /\ Read(w, "stop")
                 /\ UNCHANGED <<github, box, inside, store, watch>>

ContainerStop(w) ==
    /\ pc = "stop" /\ cur = {w} /\ Go("wait")
    /\ WatchAgain(w)
    /\ box' = IF box[w] = "running" THEN On(box, w, "exited") ELSE box
    /\ job' = IF box[w] = "running" /\ job[w] = "running" THEN On(job, w, "lost") ELSE job
    /\ UNCHANGED <<reg, offered, assigned, told, jobs, inside, saved, view, cur, seen, cached,
                   zeros, acked, faults>>

StopFails(w) == /\ pc = "stop" /\ cur = {w} /\ Fault /\ NextRemoval
                /\ WatchAgain(w)
                /\ UNCHANGED <<github, box, inside, saved>>

WaitForWatch(w) == /\ pc = "wait" /\ cur = {w} /\ watch[w] = "none" /\ NextRemoval
                   /\ UNCHANGED <<github, box, inside, store, watch, faults>>
-----------------------------------------------------------------------------
(* A planned start: register, look again, create, attach, start, send the
   configuration.  Up to the start of the container a failure deregisters the
   runner; after it the runner may be at work and is left to the inventory. *)
Active == {w \in Worker : box[w] = "running"}

StartAllowed == Cardinality(Active) < Limit

StartFrame == UNCHANGED <<job, offered, assigned, told, jobs, view, seen, cached, zeros, acked>>

CreateJITConfig(w) ==
    /\ pc = "starts" \/ (pc = "retire" /\ Due = {})
    /\ reg[w] = "none" /\ box[w] = "none" /\ StartAllowed
    /\ reg' = On(reg, w, "live") /\ cur' = {w} /\ Go("recheck")
    /\ EnsureWatch(Boxes)
    /\ UNCHANGED <<box, inside, saved, faults>> /\ StartFrame

\* GitHub may have registered the runner before the call failed.
CreateJITConfigFails(w) ==
    /\ pc = "starts" \/ (pc = "retire" /\ Due = {})
    /\ reg[w] = "none" /\ box[w] = "none" /\ StartAllowed /\ Fault
    /\ \E r \in {"live", "gone"} : reg' = On(reg, w, r)
    /\ EndStep /\ EnsureWatch(Boxes)
    /\ UNCHANGED <<job, offered, assigned, told, jobs, box, inside, saved, cached, zeros>>

AbandonsRegistration(w) ==
    /\ pc = "recheck" /\ cur = {w}
    /\ \/ Go("create") /\ StartAllowed /\ UNCHANGED <<cur, view, seen, acked>>
       \/ EndStep
    /\ EnsureWatch(Boxes)
    /\ UNCHANGED <<github, cached, zeros, box, inside, saved, faults>>

\* The inputs are read again; the plan no longer starts one, or they changed.
Recheck(w) ==
    /\ pc = "recheck" /\ cur = {w}
    /\ \E next \in {"create", "cleanup"} : Go(next) /\ (next = "create" => StartAllowed)
    /\ EnsureWatch(Boxes)
    /\ UNCHANGED <<reg, box, inside, saved, cur, faults>> /\ StartFrame

Create(w) ==
    /\ pc = "create" /\ cur = {w}
    /\ \/ Go("attach") /\ box' = On(box, w, "created") /\ UNCHANGED faults
       \/ Go("cleanup") /\ Fault /\ UNCHANGED box
    /\ UNCHANGED <<reg, inside, store, watch, cur>> /\ StartFrame

\* A container that cannot be attached is removed by force, if that works.
Attach(w) ==
    /\ pc = "attach" /\ cur = {w}
    /\ \/ Go("start") /\ UNCHANGED <<box, faults>>
       \/ Go("cleanup") /\ Fault /\ \E b \in {"created", "removed"} : box' = On(box, w, b)
    /\ UNCHANGED <<reg, inside, store, watch, cur>> /\ StartFrame

CleansUpAmbiguousStart(w) ==
    /\ pc = "start" /\ cur = {w} /\ Fault
    /\ \E b \in {"created", "running"} : box' = On(box, w, b)
    /\ Go("cleanup") /\ WatchStart(w)
    /\ UNCHANGED <<reg, inside, saved, cur>> /\ StartFrame

\* The engine may have started the container before it reported the failure.
ContainerStartFails(w) ==
    /\ pc = "start" /\ cur = {w} /\ Fault
    /\ \E b \in {"created", "running"} : box' = On(box, w, b)
    /\ EndStep /\ WatchStart(w)
    /\ UNCHANGED <<github, inside, saved, cached, zeros>>

ContainerStart(w) ==
    /\ pc = "start" /\ cur = {w}
    /\ box' = On(box, w, "running") /\ Go("send") /\ WatchStart(w)
    /\ UNCHANGED <<reg, inside, saved, cur, faults>> /\ StartFrame

\* A failed write may have delivered the complete line.
WriteJITConfiguration(w) ==
    /\ pc = "send" /\ cur = {w}
    /\ \/ Go("starts") /\ jit' = jit \cup {w} /\ cur' = {} /\ UNCHANGED <<view, seen, acked, faults>>
       \/ EndStep /\ Fault /\ \E got \in {{}, {w}} : jit' = jit \cup got
    /\ UNCHANGED <<github, box, hook, store, watch, cached, zeros>>

Cleanup(w) ==
    /\ pc = "cleanup" /\ cur = {w} /\ EndStep
    /\ \/ job[w] # "running" /\ reg' = On(reg, w, "gone") /\ UNCHANGED faults
       \/ Fault /\ UNCHANGED reg
    /\ UNCHANGED <<job, offered, assigned, told, jobs, box, inside, store, watch, cached, zeros>>

StepDone == /\ pc = "starts" \/ (pc = "retire" /\ Due = {})
            /\ EndStep
            /\ UNCHANGED <<github, box, inside, store, watch, cached, zeros, faults>>

\* The controller dies or closes; the engine and GitHub go on.  A new session
\* starts with GitHub's count, and the confirmations may not have been saved.
Crash == /\ Fault /\ EndStep /\ zeros' \in {0, zeros}
         /\ cached' = assigned + Cardinality(Running)
         /\ watch' = [w \in Worker |-> "none"]
         /\ \E late \in BOOLEAN :
               box' = [w \in Worker |-> IF late /\ pc = "start" /\ w \in cur THEN "running"
                                        ELSE box[w]]
         /\ UNCHANGED <<github, inside, store>>

Step == \/ \E c \in Capacities : Poll(c) \/ EmptyPoll(c) \/ PollFails(c)
        \/ List \/ ListFails \/ StepDone
        \/ \E missed \in SUBSET Worker : Verify(missed)
        \/ \E w \in Worker :
              \/ ReadFails(w) \/ Retire(w) \/ Deregister(w) \/ DeregisterFails(w)
              \/ ReadFirst(w) \/ ReadSecond(w) \/ ContainerStop(w) \/ StopFails(w)
              \/ WaitForWatch(w)
              \/ CreateJITConfig(w) \/ CreateJITConfigFails(w) \/ Recheck(w) \/ Create(w)
              \/ Attach(w) \/ ContainerStart(w) \/ ContainerStartFails(w)
              \/ WriteJITConfiguration(w) \/ Cleanup(w)

Inside(w) == \/ PickUp(w) \/ Entrypoint(w) \/ JobStarted(w) \/ JobCompleted(w)
             \/ Finish(w) \/ Leave(w) \/ Die(w)

Next == Offer \/ Crash \/ Step \/ \E w \in Worker : Inside(w) \/ Watch(w)

Spec == Init /\ [][Next]_vars

\* The controller loop and the watches are goroutines that are always scheduled;
\* the entrypoint writes its first state.
Fairness == /\ WF_vars(Step)
            /\ \A w \in Worker : WF_vars(Watch(w)) /\ WF_vars(Entrypoint(w))

FairSpec == Spec /\ Fairness
-----------------------------------------------------------------------------
(* RemoveIfIdle never stops a container whose runner has a job, whatever the
   job does between the readings and the stop and however old the statistics. *)
NoJobStopped == \A w \in Worker : job[w] # "lost"

(* finalize removes a container that ran only after its artifacts are complete
   and its record is finalized: until then the container is the retry source. *)
SavedBeforeRemoval ==
    \A w \in Worker : box[w] = "removed"
       => (w \in saved /\ record[w] = "finalized") \/ (hook[w] = "" /\ record[w] = "none")

(* A failed start deregisters the runner only while its container cannot run. *)
CleanupIsSafe ==
    [][\A w \in cur : pc = "cleanup" /\ reg[w] = "live" /\ reg'[w] = "gone"
                      => box[w] # "running"]_vars

(* A registration without a container is never left behind by a start that was
   merely not carried out: each takes a failed call or a death. *)
RegistrationsAccounted ==
    Cardinality({w \in Worker \ cur : reg[w] = "live" /\ box[w] \in {"none", "removed"}}) <= faults

(* Once failures stop, an exited container is finalized and removed. *)
ExitedIsRemovedFor(w) == (box[w] = "exited") ~> (box[w] = "removed")

(* A start whose outcome is unknown is watched and left to the inventory, which
   sees that it runs or removes it. *)
FailedStartIsReconciled ==
    \A w \in Worker : (box[w] = "created" /\ w \notin cur) ~> (box[w] # "created")

(* An idle worker whose registration is gone does not hold its slot forever. *)
UnregisteredIsRetiredFor(w) ==
    (box[w] = "running" /\ reg[w] = "gone" /\ job[w] = "none") ~> (box[w] = "removed")
=============================================================================
