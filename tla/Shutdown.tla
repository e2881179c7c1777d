------------------------------- MODULE Shutdown -------------------------------
(* Graceful shutdown and restart of the controller process: the two-phase      *)
(* control handler and its server (internal/controller/control_handler.go,     *)
(* internal/control/transport.go), the controller loop with its watchdog       *)
(* (internal/app/controller_main.go), the drain (internal/controller/          *)
(* shutdown.go), the durable receipt, and the operator commands that request   *)
(* the drain, wait for the exact process and start the scheduled task          *)
(* (internal/app/controller_restart.go).                                       *)
(*                                                                             *)
(* Abstractions:                                                               *)
(*  - a client runs one command and issues one shutdown request, whose random  *)
(*    request ID is the client itself;                                         *)
(*  - assigned jobs, active jobs and active workers are one number, load;      *)
(*  - a reconcile step is its outcome; a drain step may report a complete      *)
(*    drain only with nothing running (ListenerCapacity says why);             *)
(*  - clocks are dropped: a deadline may pass whenever it is armed.            *)
EXTENDS Naturals

CONSTANTS Restarters,     \* clients running "controller restart"
          Stoppers,       \* clients running "controller stop-for-update"
          LastPid,        \* bound: process IDs are 1..LastPid
          Versions,       \* versions a started controller may have
          CliVersion,     \* the version of the command
          MaxLoad,        \* bound on load
          StreakLimit,    \* maxConsecutiveReconcileStepErrors
          DegradedBudget, \* shutdownDegradedStepBudget
          MaxAttempts,    \* maxControllerTaskStartAttempts
          None

Clients == Restarters \cup Stoppers
Pids == 1..LastPid

ASSUME ShutdownAssumption ==
  /\ Restarters \cap Stoppers = {} /\ None \notin Clients
  /\ LastPid \in Nat \ {0} /\ MaxLoad \in Nat
  /\ StreakLimit \in Nat \ {0} /\ DegradedBudget \in Nat \ {0} /\ MaxAttempts \in Nat
  /\ CliVersion \in Versions

VARIABLES
  pid,          \* the current or last controller process
  version,      \* version of each process
  exit,         \* exit code of each process, "running" or "unborn"
  taskBusy,     \* Task Scheduler still counts an instance as running
  server,       \* control.Server: "up", "failed" or "closed"
  pending,      \* ControlHandler.pendingRequestID
  committed,    \* ControlHandler.committed
  channel,      \* ControlHandler.shutdown, a channel of one signal
  shuttingDown, \* Reconciler.shuttingDown
  loop,         \* where runControllerLoop is
  wedged,       \* the running step no longer reacts to cancellation
  streak,       \* reconcileFailureStreak.count
  failures,     \* degradedSteps of the drain
  signal,       \* request of the signal being served, None for an interrupt
  dirty,        \* an error other than a degraded drain is to be returned
  drain,        \* how the drain of each process ended
  receipt,      \* the durable restart receipt
  load,         \* jobs and workers the observed state reports
  conn,         \* the server side of each client's shutdown request
  at,           \* where each client is
  seen,         \* the status each client last relied on
  rid,          \* restartRequestID each client expects in the receipt
  attempts      \* task starts each client has made

handler == <<pending, committed, channel, shuttingDown>>
looping == <<loop, wedged, streak, failures, signal, dirty, drain>>
process == <<pid, version, exit, taskBusy>>
client == <<at, seen, rid, attempts>>
vars == <<process, server, handler, looping, receipt, load, conn, client>>

Running == exit[pid] = "running"
Reachable == Running /\ server = "up"

\* ControlHandler.status
Status ==
  [pid |-> pid, version |-> version[pid], load |-> load,
   shuttingDown |-> pending # None \/ shuttingDown,
   restart |-> IF pending \in Restarters THEN pending ELSE None]

Receipts == [request : Clients, pid : Pids, version : Versions]
Statuses == [pid : Pids, version : Versions, load : 0..MaxLoad,
             shuttingDown : BOOLEAN, restart : Restarters \cup {None}]
Done == {"ok", "stopped", "failed"}
Selecting == {"stepping", "grace", "sleeping"}
InFlight == {"sent", "checked", "reserved", "flushed", "committed", "begun"}
Exiting == {"exit-ok", "exit-restart", "exit-error"}

\* The controller, its connections and the commands have the states the code gives
\* them, and the counters stay within the limits the code compares them with.
TypeOK ==
  /\ pid \in Pids
  /\ version \in [Pids -> Versions]
  /\ exit \in [Pids -> {"unborn", "running", "ok", "restart", "error", "killed"}]
  /\ taskBusy \in BOOLEAN
  /\ server \in {"up", "failed", "closed"}
  /\ pending \in Clients \cup {None} /\ channel \in Clients \cup {None}
  /\ committed \in BOOLEAN /\ shuttingDown \in BOOLEAN
  /\ loop \in Selecting \cup Exiting \cup {"starting", "joining", "graceJoining", "draining", "closing", "completing"}
  /\ wedged \in BOOLEAN /\ dirty \in BOOLEAN
  /\ streak \in 0..StreakLimit /\ failures \in 0..DegradedBudget
  /\ signal \in Clients \cup {None}
  /\ drain \in [Pids -> {"none", "drained", "degraded"}]
  /\ receipt \in Receipts \cup {None}
  /\ load \in 0..MaxLoad
  /\ conn \in [Clients -> InFlight \cup {"none", "rejected", "aborted", "closed"}]
  /\ at \in [Clients -> {"start", "preflight", "requesting", "waiting", "starting",
                         "launching"} \cup Done]
  /\ seen \in [Clients -> Statuses \cup {None}]
  /\ rid \in [Clients -> Restarters \cup {None}]
  /\ attempts \in [Clients -> 0..MaxAttempts]

\* The process first serves, after earlier ones that failed; the clients silent
\* have given up.
Serving(first, silent) ==
  /\ pid = first
  /\ version \in [Pids -> Versions]
  /\ exit = [p \in Pids |-> IF p < first THEN "error" ELSE IF p = first THEN "running"
                            ELSE "unborn"]
  /\ taskBusy = TRUE
  /\ server = "up"
  /\ pending = None /\ committed = FALSE /\ channel = None /\ shuttingDown = FALSE
  /\ loop = "stepping" /\ wedged = FALSE /\ streak = 0 /\ failures = 0
  /\ signal = None /\ dirty = FALSE
  /\ drain = [p \in Pids |-> "none"]
  /\ receipt = None
  /\ load \in 0..MaxLoad
  /\ conn = [c \in Clients |-> "none"]
  /\ at = [c \in Clients |-> IF c \in silent THEN "failed" ELSE "start"]
  /\ seen = [c \in Clients |-> None]
  /\ rid = [c \in Clients |-> None]
  /\ attempts = [c \in Clients |-> 0]

Init == Serving(1, {})

-------------------------------------------------------------------------------
(* The control server: one goroutine per connection.                           *)

\* Handle, up to the lock: the request is bound to the status it was based on.
CheckRequest(c) ==
  /\ conn[c] = "sent" /\ Reachable
  /\ conn' = [conn EXCEPT ![c] =
                IF /\ seen[c].pid = pid /\ seen[c].version = version[pid]
                   /\ seen[c].load = load
                  THEN "checked" ELSE "rejected"]
  /\ UNCHANGED <<process, server, handler, looping, receipt, load, client>>

\* A reservation that displaces the one already held.
ReserveAnyway(c) ==
  /\ conn[c] = "checked" /\ Running
  /\ pending' = c /\ conn' = [conn EXCEPT ![c] = "reserved"]
  /\ UNCHANGED <<process, server, committed, channel, shuttingDown, looping, receipt,
                 load, client>>

\* Handle, under the lock: one reservation at a time.
Reserve(c) ==
  /\ conn[c] = "checked" /\ Running
  /\ IF pending \in {None, c}
       THEN pending' = c /\ conn' = [conn EXCEPT ![c] = "reserved"]
       ELSE pending' = pending /\ conn' = [conn EXCEPT ![c] = "rejected"]
  /\ UNCHANGED <<process, server, committed, channel, shuttingDown, looping, receipt,
                 load, client>>

\* The acceptance is written; the client may or may not still be reading.
Flush(c) ==
  /\ conn[c] = "reserved" /\ Reachable
  /\ conn' = [conn EXCEPT ![c] = "flushed"]
  /\ UNCHANGED <<process, server, handler, looping, receipt, load, client>>

\* CommitShutdown, under the lock.
CommitShutdown(c) ==
  /\ conn[c] = "flushed" /\ Running
  /\ IF c = pending /\ ~committed
       THEN committed' = TRUE /\ conn' = [conn EXCEPT ![c] = "committed"]
       ELSE committed' = committed /\ conn' = [conn EXCEPT ![c] = "closed"]
  /\ UNCHANGED <<process, server, pending, channel, shuttingDown, looping, receipt,
                 load, client>>

\* CommitShutdown calls BeginShutdown after it has released the lock ...
BeginShutdown(c) ==
  /\ conn[c] = "committed" /\ Running
  /\ conn' = [conn EXCEPT ![c] = "begun"]
  /\ shuttingDown' = TRUE
  /\ UNCHANGED <<process, server, pending, committed, channel, looping, receipt,
                 load, client>>

\* A commit that never tells the loop.
SignalLost(c) ==
  /\ conn[c] = "begun" /\ Running
  /\ conn' = [conn EXCEPT ![c] = "closed"]
  /\ UNCHANGED <<process, server, handler, looping, receipt, load, client>>

\* ... and then hands the signal to the loop.
Signal(c) ==
  /\ conn[c] = "begun" /\ Running /\ channel = None
  /\ conn' = [conn EXCEPT ![c] = "closed"]
  /\ channel' = c
  /\ UNCHANGED <<process, server, pending, committed, shuttingDown, looping, receipt,
                 load, client>>

\* A failed write that keeps the reservation.
AbortForgotten(c) ==
  /\ conn[c] = "reserved" /\ Running
  /\ conn' = [conn EXCEPT ![c] = "aborted"]
  /\ UNCHANGED <<process, server, handler, looping, receipt, load, client>>

\* The acceptance could not be written: AbortShutdown.
AbortShutdown(c) ==
  /\ conn[c] = "reserved" /\ Running
  /\ conn' = [conn EXCEPT ![c] = "aborted"]
  /\ pending' = IF c = pending /\ ~committed THEN None ELSE pending
  /\ UNCHANGED <<process, server, committed, channel, shuttingDown, looping, receipt,
                 load, client>>

\* Accept fails: Serve returns and closes what is open.
ServerFails ==
  /\ Reachable
  /\ server' = "failed"
  /\ UNCHANGED <<process, handler, looping, receipt, load, conn, client>>

-------------------------------------------------------------------------------
(* The controller loop.                                                        *)

\* Every step of the loop but the drain's own leaves these alone.
LoopFrame == UNCHANGED <<process, server, pending, committed, receipt, load, conn, client>>

\* Startup ends with the control server accepting requests, or in an error.
Startup(ok) ==
  /\ Running /\ loop = "starting"
  /\ IF ok THEN loop' = "stepping" /\ server' = "up"
           ELSE loop' = "exit-error" /\ server' = server
  /\ UNCHANGED <<process, handler, wedged, streak, failures, signal, dirty, drain,
                 receipt, load, conn, client>>

\* The step returns, in time or within the grace: reconcileFailureStreak.observe.
StepReturns(blocked) ==
  /\ Running /\ loop \in {"stepping", "grace"} /\ ~wedged
  /\ streak' = IF blocked THEN streak + 1 ELSE 0
  /\ loop' = IF streak' >= StreakLimit THEN "exit-error" ELSE "sleeping"
  /\ UNCHANGED <<wedged, failures, signal, dirty, drain, channel, shuttingDown>>
  /\ LoopFrame

\* The step stops reacting to cancellation and keeps stepMu.
Wedge ==
  /\ Running /\ loop \in {"stepping", "grace", "joining", "graceJoining", "draining"}
  /\ ~wedged
  /\ wedged' = TRUE
  /\ UNCHANGED <<loop, streak, failures, signal, dirty, drain, channel, shuttingDown>>
  /\ LoopFrame

\* The loop's own deadlines.
Deadline ==
  /\ Running
  /\ \/ loop = "stepping" /\ loop' = "grace"
     \/ loop = "sleeping" /\ loop' = "stepping"
     \/ loop \in {"grace", "graceJoining"} /\ loop' = "exit-error"
  /\ UNCHANGED <<wedged, streak, failures, signal, dirty, drain, channel, shuttingDown>>
  /\ LoopFrame

\* Where a signal takes the loop: a running step is joined first, without a
\* deadline unless the watchdog had already fired.
Serve(request, failed) ==
  /\ Running /\ loop \in Selecting
  /\ signal' = request /\ dirty' = failed
  /\ loop' = IF loop = "stepping" THEN "joining"
             ELSE IF loop = "grace" THEN "graceJoining" ELSE "draining"
  /\ shuttingDown' = (shuttingDown \/ loop = "sleeping")
  /\ UNCHANGED <<wedged, streak, failures, drain>>
  /\ LoopFrame

TakeRequest == channel # None /\ channel' = None /\ Serve(channel, FALSE)
TakeInterrupt == channel' = channel /\ Serve(None, FALSE)
TakeServerExit == server = "failed" /\ channel' = channel /\ Serve(None, TRUE)

\* The joined step returns and reconciler.Shutdown begins.
Join ==
  /\ Running /\ loop \in {"joining", "graceJoining"} /\ ~wedged
  /\ loop' = "draining" /\ shuttingDown' = TRUE
  /\ UNCHANGED <<wedged, streak, failures, signal, dirty, drain, channel>>
  /\ LoopFrame

\* One drain step fails; the third in a row gives the drain up.
DrainError ==
  /\ Running /\ loop = "draining" /\ ~wedged
  /\ failures' = failures + 1
  /\ IF failures' >= DegradedBudget
       THEN loop' = "closing" /\ drain' = [drain EXCEPT ![pid] = "degraded"]
       ELSE UNCHANGED <<loop, drain>>
  /\ UNCHANGED <<wedged, streak, signal, dirty, channel, shuttingDown>>
  /\ LoopFrame

\* A clean drain step that is not drained yet.
DrainWaits ==
  /\ Running /\ loop = "draining" /\ ~wedged
  /\ failures' = 0
  /\ UNCHANGED <<loop, wedged, streak, signal, dirty, drain, channel, shuttingDown>>
  /\ LoopFrame

\* A clean drain step after which shutdownDrained holds.
DrainCompletes ==
  /\ Running /\ loop = "draining" /\ ~wedged /\ load = 0
  /\ failures' = 0 /\ loop' = "closing"
  /\ drain' = [drain EXCEPT ![pid] = "drained"]
  /\ UNCHANGED <<wedged, streak, signal, dirty, channel, shuttingDown>>
  /\ LoopFrame

\* Sessions, runtime and control server are closed; each may report an error,
\* and a server that had failed reports its own.
Close(failed) ==
  /\ Running /\ loop = "closing"
  /\ loop' = "completing" /\ server' = "closed"
  /\ dirty' = (dirty \/ failed \/ server = "failed")
  /\ UNCHANGED <<process, handler, wedged, streak, failures, signal, drain, receipt,
                 load, conn, client>>

\* A completion that reports any finished drain as a clean stop.
CompleteDegradedAsClean(landed, clean) ==
  /\ Running /\ loop = "completing" /\ landed /\ clean
  /\ loop' = IF dirty THEN "exit-error" ELSE "exit-ok"
  /\ UNCHANGED <<process, server, handler, wedged, streak, failures, signal, dirty, drain,
                 receipt, load, conn, client>>

\* completeControllerShutdown: only a restart writes a receipt, and then also
\* for a degraded drain, whatever else failed with it.  The write lands or not,
\* and one that lands may still report an error.
Complete(landed, clean) ==
  LET degraded == drain[pid] = "degraded"
      restart == signal \in Restarters /\ (degraded \/ ~dirty)
  IN /\ Running /\ loop = "completing"
     /\ (clean => landed) /\ (clean \/ restart)
     /\ receipt' = IF restart /\ landed
                     THEN [request |-> signal, pid |-> pid, version |-> version[pid]]
                     ELSE receipt
     /\ loop' = IF restart THEN IF clean THEN "exit-restart" ELSE "exit-error"
                ELSE IF degraded \/ dirty THEN "exit-error" ELSE "exit-ok"
     /\ UNCHANGED <<process, server, handler, wedged, streak, failures, signal, dirty,
                    drain, load, conn, client>>

\* The process is gone, with its memory and every open connection.  A client may
\* still read an answer that was written before.
Gone(code) ==
  /\ Running
  /\ exit' = [exit EXCEPT ![pid] = code]
  /\ server' = "closed"
  /\ conn' = [c \in Clients |->
                IF conn[c] \in {"flushed", "committed", "begun"} THEN "closed"
                ELSE IF conn[c] \in InFlight THEN "aborted" ELSE conn[c]]
  /\ pending' = None /\ committed' = FALSE /\ channel' = None /\ shuttingDown' = FALSE
  /\ loop' = "starting" /\ wedged' = FALSE /\ streak' = 0 /\ failures' = 0
  /\ signal' = None /\ dirty' = FALSE
  /\ UNCHANGED <<pid, version, taskBusy, drain, receipt, load, client>>

Exit ==
  \/ loop = "exit-ok" /\ Gone("ok")
  \/ loop = "exit-restart" /\ Gone("restart")
  \/ loop = "exit-error" /\ Gone("error")

\* An external termination, with an exit code of its own other than 0.
Kill == Gone("killed")

-------------------------------------------------------------------------------
(* Task Scheduler and the jobs on the host.                                    *)

\* A new instance with the next process ID.
Launch ==
  /\ ~taskBusy /\ pid < LastPid
  /\ pid' = pid + 1
  /\ exit' = [exit EXCEPT ![pid + 1] = "running"]
  /\ taskBusy' = TRUE
  /\ UNCHANGED <<version, server, handler, looping, receipt, load, conn>>

\* Task Scheduler notices the exit: until then a start request is ignored.
TaskSettles ==
  /\ taskBusy /\ ~Running
  /\ taskBusy' = FALSE
  /\ UNCHANGED <<pid, version, exit, server, handler, looping, receipt, load, conn, client>>

\* The task's restart-on-failure policy.
TaskRestarts == exit[pid] # "ok" /\ Launch /\ UNCHANGED client

\* Work arrives until the drain has taken the capacity back; it ends by itself.
JobArrives ==
  /\ Running /\ loop \in Selecting \cup {"joining", "graceJoining"} /\ load < MaxLoad
  /\ load' = load + 1
  /\ UNCHANGED <<process, server, handler, looping, receipt, conn, client>>

JobFinishes ==
  /\ load > 0
  /\ load' = load - 1
  /\ UNCHANGED <<process, server, handler, looping, receipt, conn, client>>

-------------------------------------------------------------------------------
(* The commands: stopController and startControllerTaskAndWait.                *)

\* A move of one client.  A command that failed forgets what it knew, unless its
\* request, which carries the status, is still unread.
Move(c, place, status, request) ==
  LET known(value) == IF place = "failed" /\ conn[c] # "sent" THEN None ELSE value
  IN /\ at' = [at EXCEPT ![c] = place]
     /\ seen' = [seen EXCEPT ![c] = known(status)]
     /\ rid' = [rid EXCEPT ![c] = known(request)]
     /\ UNCHANGED <<process, server, handler, looping, receipt, load, attempts>>

Advance(c, place) == Move(c, place, seen[c], rid[c])

\* The first status probe.
Probe(c) ==
  /\ at[c] = "start"
  /\ IF Reachable /\ (c \in Restarters => version[pid] = CliVersion)
       THEN Move(c, "preflight", Status, None)
       ELSE Advance(c, "failed")
  /\ UNCHANGED conn

\* The process is opened; then the drain is requested, or the one in progress
\* is joined.  A restart joins only a drain that names a restart request.
Request(c) ==
  LET join == seen[c].shuttingDown
  IN /\ at[c] = "preflight"
     /\ IF \/ exit[seen[c].pid] # "running"
           \/ c \in Restarters /\ join /\ seen[c].restart = None
           \/ ~join /\ ~Reachable
          THEN Advance(c, "failed") /\ UNCHANGED conn
          ELSE IF join
            THEN Move(c, "waiting", seen[c], seen[c].restart) /\ UNCHANGED conn
            ELSE Advance(c, "requesting") /\ conn' = [conn EXCEPT ![c] = "sent"]

\* The acceptance is read.
Accepted(c) ==
  /\ at[c] = "requesting"
  /\ conn[c] \in {"flushed", "committed", "begun", "closed"}
  /\ Move(c, "waiting", seen[c], IF c \in Restarters THEN c ELSE None)
  /\ UNCHANGED conn

\* A rejection, a lost connection, a timeout or an interrupt ends the command.
GiveUp(c) ==
  /\ at[c] \in {"requesting", "waiting", "starting"}
  /\ Advance(c, "failed")
  /\ UNCHANGED conn

\* A restart that accepts any receipt of the right version.
ReceiptOfAnyProcess(c) == receipt # None /\ receipt.version = seen[c].version

\* receiptVerified.
ReceiptVerified(c) ==
  /\ receipt # None
  /\ receipt.request = rid[c]
  /\ receipt.pid = seen[c].pid
  /\ receipt.version = seen[c].version

\* The exact process has exited.  A stop needs exit code 0; a restart needs the
\* verified receipt, whatever the code.
Exited(c) ==
  /\ at[c] = "waiting" /\ exit[seen[c].pid] # "running"
  /\ IF c \in Stoppers
       THEN Advance(c, IF exit[seen[c].pid] = "ok" THEN "stopped" ELSE "failed")
       ELSE Advance(c, IF ReceiptVerified(c) THEN "starting" ELSE "failed")
  /\ UNCHANGED conn

\* The replacement is probed.
Verify(c) ==
  /\ at[c] = "starting"
  /\ Advance(c, IF ~Reachable \/ (pid # seen[c].pid /\ version[pid] = CliVersion
                                 /\ Status.shuttingDown) THEN "launching"
             ELSE IF pid = seen[c].pid \/ version[pid] # CliVersion THEN "failed"
             ELSE "ok")
  /\ UNCHANGED conn

\* A start attempt, which Task Scheduler ignores while an instance runs and
\* which may fail; none is made before its backoff or after the last one.
StartTask(c, tried, works) ==
  /\ at[c] = "launching"
  /\ at' = [at EXCEPT ![c] = "starting"]
  /\ tried => attempts[c] < MaxAttempts
  /\ works => tried
  /\ attempts' = [attempts EXCEPT ![c] = IF tried THEN @ + 1 ELSE @]
  /\ IF works THEN Launch
              ELSE UNCHANGED <<process, server, handler, looping, receipt, load, conn>>
  /\ UNCHANGED <<seen, rid>>

-------------------------------------------------------------------------------
Connection(c) == \/ CheckRequest(c) \/ Reserve(c) \/ Flush(c) \/ AbortShutdown(c)
                 \/ CommitShutdown(c) \/ BeginShutdown(c) \/ Signal(c)

Command(c) ==
  \/ Probe(c) \/ Request(c) \/ Accepted(c) \/ GiveUp(c) \/ Exited(c) \/ Verify(c)
  \/ \E tried, works \in BOOLEAN : StartTask(c, tried, works)

Loop ==
  \/ \E ok \in BOOLEAN : Startup(ok)
  \/ \E blocked \in BOOLEAN : StepReturns(blocked)
  \/ Deadline
  \/ TakeRequest \/ TakeInterrupt \/ TakeServerExit \/ Join
  \/ DrainError \/ DrainWaits \/ DrainCompletes
  \/ \E failed \in BOOLEAN : Close(failed)
  \/ \E landed, clean \in BOOLEAN : Complete(landed, clean)
  \/ Exit

Next ==
  \/ \E c \in Clients : Connection(c) \/ Command(c)
  \/ Loop
  \/ Wedge \/ ServerFails \/ Kill
  \/ TaskSettles \/ TaskRestarts
  \/ JobArrives \/ JobFinishes

Spec == Init /\ [][Next]_vars

\* What is left of a commit for the handlers to do.
FinishCommit == \E c \in Clients : CommitShutdown(c) \/ BeginShutdown(c) \/ Signal(c)

\* What is left of a shutdown for the loop to do once it serves a signal.
FinishShutdown == \/ Join \/ DrainCompletes
                  \/ \E failed \in BOOLEAN : Close(failed)
                  \/ \E landed, clean \in BOOLEAN : Complete(landed, clean)
                  \/ Exit

\* Goroutines and timers run: a handler finishes its commit, the loop's select
\* takes what is ready, a step that still reacts returns, jobs end.  Nothing is
\* asked of the commands, the scheduler or a step that is wedged.
Fairness == /\ WF_vars(FinishCommit)
            /\ WF_vars(TakeRequest) /\ WF_vars(Deadline) /\ WF_vars(FinishShutdown)
            /\ WF_vars(JobFinishes)

FairSpec == Spec /\ Fairness

-------------------------------------------------------------------------------
(* Properties.                                                                 *)

Starting(c) == at[c] \in {"starting", "launching"}

\* stopController: the scheduled task is only started for a restart whose exact
\* process is gone, after that process had ended a drain: never after a crash,
\* an abandoned step or the stop of another process.
TaskStartAuthorised ==
  \A c \in Restarters : Starting(c) =>
    /\ exit[seen[c].pid] \notin {"unborn", "running"}
    /\ drain[seen[c].pid] # "none"

\* stopController: "Controller stopped safely for update" is only printed when
\* that process verified its drain, whichever signal it served in the end.
StoppedIsDrained ==
  \A c \in Stoppers : at[c] = "stopped" => drain[seen[c].pid] = "drained"

\* AbortShutdown and the server: an uncommitted reservation always belongs to a
\* connection that is about to commit or release it, so none is left behind to
\* refuse every later shutdown request.
ReservationIsHeld ==
  (Running /\ pending # None /\ ~committed) => conn[pending] \in {"reserved", "flushed"}

\* CommitShutdown and AbortShutdown: within one process a committed drain is
\* never taken back or handed to another request.
CommittedIsIrreversible ==
  [][(committed /\ Running') => (committed' /\ pending' = pending)]_vars

\* runControllerLoop and Shutdown: a committed drain ends the process, unless a
\* step that ignores cancellation is being joined or run by the drain.
CommittedDrainEnds ==
  committed ~> (~Running \/ (wedged /\ loop \in {"joining", "draining"}))

\* README.md: the CLI "requires both the exit code and matching durable receipt
\* before it can touch Task Scheduler".
RestartNeedsExactCode ==
  \A c \in Restarters : Starting(c) => exit[seen[c].pid] = "restart"

\* controller_restart.go: "the receipt is written only after a complete drain".
ReceiptMeansDrained == receipt # None => drain[receipt.pid] = "drained"

\* protocol.go, RestartRequestID: it "identifies an accepted authenticated
\* restart", exposed "while that exact drain is in progress": what a command
\* joined is the request its process goes on to serve.
JoinedRestartIsInProgress ==
  \A c \in Restarters :
    (at[c] = "waiting" /\ Running /\ pid = seen[c].pid) => pending = rid[c]
===============================================================================
