# Verification of the ci-runner controller

`ci-runner` keeps ephemeral GitHub Actions runners on one Windows host. A
controller process reconciles GitHub runner scale sets with Docker workers; an
operator's command line talks to it over a local authenticated pipe. This
directory holds TLA+ models of the controller, TLC configurations for small
instances, and TLAPS proofs.

Paths below are relative to `src/`. `PROJECT.json` lists every part with its
sources, every modelled definition with its source lines, the findings, and the
hazards with the properties that cover them.

## The system's parts

| Part | Where | Modules |
|---|---|---|
| capacity handshake with the listeners | `internal/controller/reconciler.go`, `poll_cadence.go`, `capacity_transition.go` | `ListenerCapacity` |
| planning, resource and power gates | `internal/controller/plan.go`, `internal/model/` | `Plan`, `Gates` |
| worker starts, retirement, containers, watches | `reconciler.go`, `internal/runtime/docker/`, `worker/` | `Workers` |
| scale-set client and message session | `internal/scaleset/official.go` | `MessageSession` |
| job index | `internal/jobindex/` | `JobRecords`, `JobCatalog`, `JobIndex` |
| worker artifacts and their retention | `internal/runtime/docker/` | `Artifacts` |
| durable state store | `internal/state/` | `StateStore`, `StateRegister` |
| shutdown and restart | `internal/controller/control_handler.go`, `shutdown.go`, `internal/control/`, `internal/app/controller_main.go`, `controller_restart.go` | `Shutdown` |
| force stop | `internal/controller/force_stop.go`, `internal/app/app.go` | `ForceStop` |
| controller log | `internal/host/json_log.go` | `LogQueue` |

`runControllerLoop` runs one `Step` at a time under a watchdog. A step loads
`observed.json`, reads the gates, builds a plan, polls every listener, applies
what the polls answered, starts and retires workers, and saves. The listener is
the scale-set client: a poll may bring a message, whose job events go to the job
index before the message is deleted and its jobs are acquired. The Docker
runtime starts a container per registration and a watch per container, which
saves the worker's artifacts and records them in the job index before the
container is removed. A shutdown request turns the loop into a drain, a series
of steps at zero capacity. A force stop needs such a drained host and then kills
what the operator confirmed.

The models meet at these seams:

- `ListenerCapacity` takes the plan as any allocation within the host limit;
  `Plan` shows that `BuildPlan` makes only such plans (`LimitsHeld`).
- `Shutdown` and `ForceStop` take a drained step as an outcome; that it rests on
  two real zero polls is `QuiescenceIsReal`.
- Modules that save a file take the save as one write that lands or is lost, which
  is what `StateStore` implements (`ImplementsRegister`): the checkpoints and closing
  saves of `ListenerCapacity` and `ForceStop`, the receipt of `Shutdown`, the index
  writes of `JobIndex`, `MessageSession` and `Artifacts`. The mode in `ForceStop` is
  the exception: a command whose save fails reports it and goes no further.
- `MessageSession` and `Artifacts` use the job index through the merging of
  `JobRecords`; `JobIndex`, which saves through `JobCatalog`, checks the same
  operations at the size limit of the file.

## The modules

### ListenerCapacity

One reconcile step against the listeners, repeated, with crashes.

| Model | Code |
|---|---|
| `observed` | `observed.json`, one `PoolObservation` per pool |
| `Begin` | `step` up to the open polls: load, ensure, plan, sequence, cap by pending, checkpoint |
| `Reach`, `Answer`, `Fail` | a `Statistics` long poll: received by GitHub, answered, given up |
| `CadenceTick`, `Heartbeat` | `watchPollCadence` |
| `Cancel` | changed safety inputs, a shutdown request, the step's watchdog |
| `Rerun`, `Timeout`, `Apply` | the three ways out of the polls |
| `Save`, `Abandon` | the closing save, or a start that ends the step before it |
| `Crash` | process death at any point |

`capacity`, `zeroPolls`, `drifted` and `saveFailed` are not program state: what
GitHub was last told, and history the properties need. GitHub is assumed to
handle the polls of one listener in the order they are issued and to keep the
capacity of the last one; it may report any assigned count. `HostLimit` is an
upper bound on the host limit, which the code may lower at any time.

Two properties hold only under a stated condition. `AcknowledgedIsTrue` and
`QuiescenceIsReal` assume that no write was lost; `NoSlotExposedTwice` assumes
that every step so far ended with a record that agrees with GitHub. The runs
`capacity_lost_write` and `capacity_lost_answer` show that the conditions are
needed.

### Plan and Gates

`Plan` is `BuildPlan` as a state machine. The variables are the function's locals,
`pass` and `turn` say where it is, and an action is one iteration of a loop over the
pools or the straight code between two loops: the memory basis, which counts the
workers that have a memory limit, the worker budget,
starts for assigned jobs before warm workers, the held capacity, growth, the drain and
gaming plans. A pool is its place in the priority order, and its workers are numbers
of busy and of spare ones. Memory is a number of units modulo `Word`, as the code's
unsigned differences are. After a plan, `Replan` and `Dip` plan again from what it
advertised, with the same memory or a little less.

`Gates` is a series of observations through `evaluateResourceGate` and
`evaluatePowerGate`, whose wall clock may be set back at any time.

### Workers

One pool's workers from the registration of a runner to the removal of its
container.

| Model | Code |
|---|---|
| `Step` | the reconciler, from the poll to the last removal, one action per call: inventory, registration checks, starts with both admission checks, retirement with its two looks at the worker |
| `Watch(w)` | the goroutine of `ensureWatch` with `finalize`: wait, save artifacts, record, remove |
| `Entrypoint(w)`, `JobStarted(w)`, `JobCompleted(w)` | `worker/` scripts: read the JIT configuration, write the state file |
| `Offer`, `PickUp` and what else the runner does | jobs offered, acquired, picked up, ended; registrations that disappear |
| faults | a failed or ambiguous call of GitHub or the engine, death of the controller |

Which workers a plan removes is left open: any choice the plan could make.

### MessageSession, JobRecords, JobCatalog, JobIndex

`MessageSession` is `OfficialClient`: `Ensure` keeps one scale set and one
session, `Statistics` takes a message, persists its events, deletes it and
acquires its jobs. Each call may fail, also after it took effect, and the
controller may die between any two. GitHub delivers the first message until it
is deleted. `acked` and the other histories serve the properties.

`JobRecords` and `JobCatalog` are the index as data: the records and how a patch
merges into one; what `Save` sheds when the file is over `maximumJobState`, the
sidecar of assignment times and the drop journal. `JobIndex` gives it the three
files and makes every operation an action that keeps any prefix of its writes,
since a save may fail or the process die between them. The two writes of the runtime
are there as the code makes them: diagnostics go to the record of the runner whatever
its state, and an adoption opens it again. Byte counts are abstract: a
base per record plus one per optional field. The record of a running job may go
with a save in two ways, and `SavesKeepActive` excepts just these: its own
completion was saved, or retention gave it a tombstone.

### Artifacts

`FileArtifactSink` and the sweeps. A watch opens a record, saves the files, finalises
and lets the container go. A sweep takes an inventory, opens the records of what it
found (`Adopt`), closes stale ones (`CloseStale`), loads the index again (`Load`) and
then evicts by space and by age, tombstones and removes orphans, or purges. A sweep
runs at every listing of the containers, by the reconciler or by a handler of the
controller's requests, and in an operator's command, which is another process. The
code holds no lock over a sweep, so `Sweepers` overlap; each has one sweep at a time,
and only the reconciler starts containers. A file takes one unit of space and a sweep
less than a tick of the clock; in-flight temporaries, degraded artifact names and path
checks are abstracted. Anything a step does may fail: files that refuse to go, a scan
before or after the removals, a listing cancelled during the eviction, a drop journal
that can no longer be read.

The properties state their exceptions:

- the inventory of a sweep may miss a container started after it (`missed`): its
  evidence is not protected by that sweep;
- a container that someone else removed (`lost`) may have a watch that still writes,
  so a tombstone need not be the end of its files;
- the space limit leaves out records that are not finalised, which no cleanup may
  evict, and a record whose files could not be removed does not hold up younger ones;
- that evictions stop at the space limit, and that a cleanup settles, is said of a
  sweep that no other overlaps (`alone`); everything else is said of all sweeps;
- only the purge consults the drop journal, and only one it can read.

### StateStore and StateRegister

One state file, threads of several processes. `StateStore` has the in-process
token, the named mutex owned by an OS thread (its abandonment included), the
stages of the durable write (create, write, sync, harden, replace, verify), the
bounded strict read, and the quarantine. A process may be killed and the host
lose power between any two stages. `StateRegister` is what a caller relies on: a
save takes effect at one moment or not at all, one that reports success has, one
that fails or dies may have; a load returns the value of some moment of the call.
The mapping is the identity but for `value <- file`, `call <- op` and
`done <- committed`.

### Shutdown

| Model | Code |
|---|---|
| `CheckRequest`, `Reserve` | `ControlHandler.Handle`, before and under its lock |
| `Flush`, `AbortShutdown` | `serveConnection`: the response was written, or not |
| `CommitShutdown`, `BeginShutdown`, `Signal` | `CommitShutdown`, one action per stretch between lock operations |
| `StepReturns`, `Deadline`, `TakeRequest`, `TakeInterrupt`, `TakeServerExit`, `Join` | the selects of `runControllerLoop` |
| `DrainError`, `DrainWaits`, `DrainCompletes` | `Reconciler.Shutdown` |
| `Close`, `Complete`, `Exit` | the `shutdown` closure, `completeControllerShutdown`, `main` |
| `Probe`, `Request`, `Accepted`, `GiveUp`, `Exited` | `stopController` |
| `Verify`, `StartTask` | `startControllerTaskAndWait` |
| `Kill`, `Launch`, `TaskSettles`, `TaskRestarts`, `JobArrives`, `JobFinishes` | environment |

A client is its own request ID. Jobs and workers are one number, `load`. `drain`
is history: how each process ended its drain. Process IDs are not reused, a
killed process has an exit code other than 0, and jobs arrive only until the
drain begins. The goroutine dump and the request form for one legacy version are
left out.

### ForceStop

`host force-stop` from the request for disabled mode over the wait for a drained
state, the preview and the typed confirmation to the kills, beside reconcile
steps, workers that take jobs and end, other force stops and `host enable`. One
pool stands for all. `Runtime.List` never sets a job ID, so a worker is shown
with its state and no job. The reconcile step is the one of `ListenerCapacity`, for one
pool and by the saves that a force stop reads: the checkpoint before the poll
(`PollCheckpoint`), its repetition while the poll is open (`Heartbeat`), the save of a
cancelled step (`Cancel`) and the closing save (`SaveObserved`). Each may fail, and a step
may end without its closing save (`Abandon`). `KillsAreDrained` survives any one lost
write: a checkpoint that lands withdraws the acknowledgement of another capacity, and
the closing save replaces it. It does not survive a step that loses both, which the
history `unsaved` marks (see the observations).

### LogQueue

The bounded queue of the structured log: `Write` with its deadlines, the token
channel `queueSpace`, the one worker, and `Close` at any moment. What the worker
does with the file is a write that succeeds, fails or never returns.

## Runs

`Control`, `Jobs` and `Host` each check several components in one run. They share
no state there; a variable `part`, chosen initially, says which of them moves.

| Run | Asks | Result |
|---|---|---|
| `capacity_two_pools` | do acknowledgements on disk stay true of GitHub, is a slot never offered twice by a reallocation, does retirement rest on two answered zero polls | holds; 251,453 states |
| `shutdown_two_commands` | a restart and a stop race: no reservation leaks, a committed drain is final and ends, a reported safe stop was a verified drain | holds; 351,509 states |
| `control` | restarts start the task only after the exact process ended its drain; force stops kill what was confirmed and report it truly; the log queue strands no caller and loses no accepted event | holds; 1,377,140 states |
| `jobs` | no event, running job, assignment time or live evidence is lost by deletion of a message, compaction or retention; cleanup settles; events reach the index | holds; 254,346 states |
| `host` | every plan keeps its limits and is steady, gates open and close by their windows, the state file implements an atomic register | holds; 335,443 states |
| `workers` | no job is stopped, no artifact lost, no running runner cleaned up; exited and unregistered workers go | holds; 175,193 states |
| `capacity_lost_answer` | `NeverExposesOneSlotTwice` | violated |
| `capacity_lost_write` | `NeverRetiresOnOneZeroPoll` | violated |
| `shutdown_exit_code` | `RestartNeedsExactCode` | violated |
| `shutdown_degraded_receipt` | `ReceiptMeansDrained` | violated |
| `shutdown_joined_restart` | `JoinedRestartIsInProgress` | violated |
| `workers_ambiguous` | `FailedStartIsReconciled` | violated |

The violated properties restate comments of the code or the repository's README;
the `findings` of `PROJECT.json` quote them. Five are disagreements between a text
and the code. For the degraded receipt the code is deliberate, and the comment on
`ErrShutdownDegraded` says so; it is other texts that promise more. The sixth is
a defect: `Start` gives the watch of a new container a wait for its *next exit*,
and when the engine refuses the start it leaves the container to that watch and
to the inventory. The container never ran, so it never exits; the inventory finds
a watch in place and starts no other. The created container stays until the
controller restarts.

### Bounds

- `capacity_two_pools`: two pools and one slot is the least instance in which a
  slot can move and be offered twice. Counts are 0 and 1. Two constraints cut the
  search: `Relevant` leaves out states after both a lost write and a drifted
  record, in which every property holds by its premise for good, and
  `JobsOfOnePool` lets jobs appear in one pool while the other is idle. Steps and
  crashes are unbounded.
- `Shutdown`: two commands are the least number that can race or join. The run
  `shutdown_two_commands` has a load of 1, a streak limit of 1 and a degraded budget
  of 2, and lets both commands race for the last process, or a restart alone replace
  the one before it; `control` has two restarts and two processes, so that a
  receipt outlives its writer, and two versions. The streak limit (20), the budget
  (3) and the start attempts (4) are counters the code only compares.
- `ForceStop`: two workers and one failure; one worker beside a command that enables the
  pool again; a pool disabled before, which another command enables while a failure is
  still to come; or two operators over one worker. A second container is needed for a
  kill that succeeds in part, a second operator for a stale confirmation, a pool with
  an acknowledged zero for the lost writes.
- `LogQueue`: three calls over a queue of one: one call in the queue, one with the
  worker, one waiting for the token.
- `MessageSession`: two jobs in two messages with one failure or in three with
  none; one job in four messages with two failures, or in three with two failures
  and outside changes to the scale set.
- `JobIndex`: two runners, two jobs, a limit that fits about two records, two ticks. The
  first runner meets every order of events and artifacts; the second never has the first
  job, the two being interchangeable, and its record begins with its log (`OneSided`); compaction over every catalogue of three runners in eleven shapes.
- `Artifacts`: two sweepers, three units of space, retention of two of three ticks. A
  worker beside the evidence of an earlier one meets one lapse (a failed step, the end
  of the controller, a lost container, a damaged journal) or one sweep of the other
  sweeper; the evidence of two earlier ones meets both. A worker beside earlier evidence
  with a lapse and a sweep at once was checked outside the runs: 3,197,590 states,
  no violation.
- `Plan`: two pools with some 10,000 observations, and those that follow when it plans
  again, including overrides of
  zero and below, memory below a worker's need, more workers than a pool's maximum,
  a pool that is not ready, and workers of a pool that is gone. `Gates`: every
  series of four observations at times 0 to 2, clocks set back included.
- `StateStore`: two threads of the controller and one of a command, two values, two
  faults (failed stage, death, power loss, damage).
- `Workers`: one worker through three failures beside the remains of another, and
  two workers at once without failures; one job, and capacities 0 and 1.

Symmetry permutes pools, restart commands, threads of one process and values. It is
not used with liveness.

### Fairness

- `Shutdown`: handler goroutines finish a commit (`FinishCommit`), the loop's select
  takes a request that stays ready (`TakeRequest`), the watchdog fires (`Deadline`), the
  shutdown goes on (`FinishShutdown`: a step that reacts is joined, a drain step that
  could complete does, that is, GitHub answers sooner or later, and the process closes
  and exits), and jobs end. Nothing is assumed of the commands, of Task Scheduler, or of a step that
  ignores cancellation. `runControllerLoop` joins a cancelled step without a
  deadline when the request arrives before the watchdog, so `CommittedDrainEnds`
  excepts exactly that wait and a step wedged in the drain.
- `Workers`: the controller loop (`Step`), each watch and each entrypoint. Faults
  are bounded, so failures stop; the runner's jobs need not end.
- `MessageSession`: polling (`Statistics`) and reconnecting, which the loop does in
  every step.

Liveness is asked of one worker (`ExitedIsRemoved`, `UnregisteredIsRetired`) and of one
job (`EventsRecorded`): they are interchangeable, or the other one is of the past.

Deadlock is unchecked in the runs of `Shutdown` and in `control`: all commands done,
the controller stopped and the log closed is a legitimate end.

## Proofs

Every theorem holds for all values of the constants under the named `ASSUME`s of its
component, which TLC evaluates on the instances.

**`CapacityProofs`**: the handshake and the gates. `AcknowledgementSound`, `QuiescenceSound`,
`TransferSound` and `TypeCorrect`, for every set of pools, host limit and set of
counts. None of the first three is inductive. `IInv` adds: `Heard`, GitHub holds what
a poll that reached it carried; `Covered`, one allocation covers both what GitHub
holds and what the open polls carry, so polls may land in any order; `Settled`,
between steps the record agrees with GitHub; `Truthful`, an acknowledgement in the
file or in the watcher's memory survives every poll still to land; `Loaded` and
`Counted`, which carry confirmations through a step. `ZeroPlanAssumption` (the zero
allocation is a plan) is a fact about a sum, which is a fold and beyond the provers;
TLC evaluates it. `GatesFollowWindows`, for all windows and every series of
observations, clocks set back included. A gate does not remember its observations,
only when a count began; `GatesInv` says what that time stands for: an open gate counts
load, a closed one quiet, the power gate AC, and each count began with the earliest
reading of the run the observations end with. The property compares the gate with the
observations, so without this the step that decides cannot be judged.

**`ShutdownProofs`**: `ReservationsNeverLeak`, `SafeStopIsDrained`,
`CommitmentIsFinal` and `TaskStartSound`, for any number of commands, processes,
versions and errors. `IInv` ties the parts together: `Reservation`, who may hold the
handler's reservation; `LoopPlace`, what the loop's place says of its counters and of
the drain of its process; `Succession`, processes live one after the other, an exit
with 0 was drained, and a receipt belongs to a process that ended a drain; `Reliance`,
what a command has seen is of a process that existed, and a command that starts the
task does so after that process ended a drain. Frame lemmas say what each kind of
step leaves alone.

**`WorkersProofs`**: `JobsAreSpared`, `EvidenceIsKept`, `FailedStartIsSafe` and
`RegistrationsAreAccounted`, for any finite set of workers, any remains of earlier ones
and any number of faults. `IInv` says of each worker that the reconciler's inventory
holds of it, that a removal under way concerns a worker seen not to run or whose
registration is gone, that a start concerns a fresh container, that evidence precedes
removal, and that a running job has a live registration. The last one is the core of
`JobsAreSpared`: a running worker is deregistered before it is stopped, and a
deregistered runner can pick up no job. For `RegistrationsAreAccounted` the count must
cover more than the property names: `Stray` is every live registration that no start
still answers for and no running, configured runner holds, also while its container
is still there. Each step makes none stray, or one at the price of a fault (`Charged`).

**`PlanProofs`**: `LimitsAreKept`, `MemoryIsSpentOnce`,
`AssignmentsComeFirst` and `DrainsAreSafe`, for any number of pools, any configuration
and any set of observations, negative overrides and assigned counts included. `IInv` is
a loop invariant for every pass: `Course`, what a pass has not touched yet; `SlotsInv`,
slots become workers one for one and advertisements come out of one budget; `MemoryInv`,
memory is only spent; `PriorityInv`, an assignment that lacks workers, and not for want
of memory, met no free slot; `DrainInv` and `TeardownInv`. `Total` adds up counts by a
recursive function; its lemmas (zero, monotone, change of one pool) are proved by taking
the least pool at which a claim about the running sums fails. `OffersAreSteady` is the
arithmetic core of a steady plan: what the last pass gives a pool it gives that pool again
from the same limit and memory, and growth under a margin is not taken back when one unit
of memory goes. It rests on what division leaves: after an offer below its limit less
than one worker fits beside the margin.

**`MessageSessionProofs`**: `DeletionIsSafe` and `RetriesAreSafe`, for any number of
jobs, messages, failures and outside changes. The invariant follows a message from
GitHub to the disk: `Numbered` and `InHand`, messages are taken and deleted in the order
of their numbers; `Lifecycle` and `EndsLast`, no start of a job is delivered after its
end was deleted; `Index`, every patch merges; `SavedFirst` and `Remembered`, the disk and
the active-job map have what was deleted and what is about to be; `OneNamed`, at most
one scale set has the configured name.

**`ControlProofs`**: the controller log and force stop. `SendsAreSafe`,
`OneTokenSuffices` and `ReportsHold`, for any number of callers and any capacity of the
queue: `QueueInv` adds where an accepted call is to be found (`Admitted`, `Accounted`)
and what the worker's place says of the queue (`WorkerPlace`). `KillsAreConfirmed`,
`ForceStopReportsHold` and `KillsMeetADrainedPool`, for any number of containers, force
stops, mode changes, failures and lost writes: `ForceInv` says what the saved state tells
of the pool while a step is under way (`PoolInv`: an acknowledged zero on disk is true of
GitHub, unless the enabled step under way lost its checkpoint or an earlier one lost both
its writes), that a pool checked drained stays so while the
mode is the one asked for (`StaysDrained`), and what each command has killed and may
report (`KillsShown`).

**`StoreProofs`**: the state store and the job index. `LockIsExclusive`, `FileStays`,
and the refinement `StoreIsRegister` (`Spec => Register!Spec`), for any number of
processes, threads and faults. `Coherent(t)` ties a thread's stage to its call, its lock
and its temporary: only a flushed temporary reaches the target, so a power loss finds
nothing loose, and a call that reports success has committed. `AssignmentsAreKept`,
`SavesKeepRunningJobs` and `CompactionDropsOldest`, for any runners, jobs and size limit
and any sequence of calls and interrupted saves. `IndexInv` adds that a time once
reported as kept is that of a live record and stands in the sidecar under its runner or
under the job the record has, so that a save that changes only one of the two files
cannot lose it. Compaction is a recursive function, and recursion over data has no
induction here. The proof takes the sequence of its passes instead (`Passes`), each of
which drops something (`DropsSome`), shows by the least pass at which it fails that every
catalogue reached came from the first by dropping the oldest (`Reached`), and that the
last one fits or has nothing left to drop.

**`ArtifactsProofs`**: `ProtectedIsKept`, `RemovalIsSafe`, `TombstonesAreEmpty`,
`CleanupsSettle` and `EvictionHasCause`, for any number of workers, failures, operator
commands and any limits. A sweep acts on an inventory and an index it read earlier while
watches and other sweeps go on, so the properties rest on what stays true of the stale
copy. `SafeInv`, of every sweep: what exists is in its inventory unless it was missed
(`InventoryInv`); what a cleanup has chosen is closed and outside it (`ChosenInv`); the
records outside it name the files it has read, and the files of those dealt with are
gone (`SeenInv`); records and tombstones are closed in order (`RecordInv`,
`TombstoneInv`); a container about to be removed has all its evidence (`RemovalInv`).
`SeenInv` must survive the other sweeps: they may tombstone a record this one still holds,
but not prune the tombstone, for the sweeps of one tick have its time and retention is at
least a tick (`Retention` is positive by assumption). `ArtifactsInv` adds what
holds of a sweep that none overlaps (`AloneInv`): its running total never exceeds the files
that may go (`CountInv`), and, while nothing disturbs it, equals them (`SettledInv`,
`SpaceInv`). Each action is first reduced to its effect on containers, watches, index and
files; the parts of the invariant follow from these effects.

Only model-checked:

- liveness (`CommittedDrainEnds`, `EventsRecorded`, `ExitedIsRemoved`,
  `UnregisteredIsRetired`): the prover handles neither fairness nor `ENABLED`;
- `CapacityIsSteady`, which compares two complete runs of `BuildPlan`. An invariant would
  have to carry every intermediate value of the first run beside the second's, and what a
  pass gives to one pool changes what is left for the next. `OffersAreSteady` proves the
  step it rests on, for one pool and what is left to it. The part about a dip holds for
  margins of at least the dip, as the instance has them.

## Observations

These are behaviours the models show or the reading turned up which no text of the
repository rules out, so no run states them.

- An empty poll answers with the statistics of the last message
  (`internal/scaleset/official.go:216`). An acquisition that fails after the message
  was deleted leaves older statistics behind, so two zero polls may both report an old
  count.
- The close of a log file that fails during rotation (`internal/host/json_log.go:276`)
  leaves a dead handle: logging fails until the controller restarts.
- After `Close` a caller that waits for the log's token may wait until its own
  deadline; `NoLostWakeup` is about an open sink.
- The force stop's preview shows no job, since `Runtime.List` sets none. A worker that
  is idle at the second inventory may turn busy before its kill. The kill of a container
  that ended meanwhile and is still present is reported as an error.
- A force stop may kill in a pool that is offered jobs when a step has lost both of its
  writes. A pool is disabled, its zero is acknowledged and saved; `host enable`; the next
  step's checkpoint fails (`internal/controller/reconciler.go:568`, the poll goes on), its
  poll offers capacity, and the closing save fails too or the process dies. The old
  zero stands on disk, acknowledged. The force stop saves disabled mode again, the next
  checkpoint keeps the acknowledgement, since the capacity on record is the one planned,
  with a fresh heartbeat, and `forceStopAllowed` is satisfied before the poll that
  withdraws the capacity has been answered.
- A sweep works from its own inventory, and a container started after it is not protected
  by it.
- Sweeps that overlap evict too much: each counts the files when it begins and goes on
  evicting for space that the other has freed meanwhile
  (`internal/runtime/docker/artifacts.go:497`). Without `p \notin alone`,
  `EvictedForCause` is violated in twelve states.
- A purge that cannot read the drop journal goes on without it
  (`internal/runtime/docker/artifacts_audit.go:163`) and deletes what only the journal
  names. Retention by age and by space never reads the journal.

## Not modelled

- Log rotation and retention: file operations of one goroutine, without a promise
  about a failed step (see above).
- Desktop and gaming mode: `DrainIsSafe` says when a teardown may begin; the rest is a
  sequence of Windows and WSL commands.
- Retry and deadlines: a retry loop is one call that succeeds or fails; its backoff and
  the saturating deadline are arithmetic on one value.
- Telemetry and the goroutine dump: output nothing reads back.
- Configuration, the command line beyond the modelled commands, host probes, secrets
  and seccomp: validation, input and output, and operating-system calls.
- In modelled parts: building of HTTP clients, labels and error translation
  (scale-set client); image preparation, resource limits and log copying (Docker
  runtime, each a success or a failure); artifact contents, sizes and paths; the
  encoding of the job index, of which byte counts remain; the cgroup capture of the
  worker scripts.
