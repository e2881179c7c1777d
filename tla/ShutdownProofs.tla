---------------------------- MODULE ShutdownProofs ----------------------------
(* Shutdown and restart are safe for any number of commands, processes and jobs. *)
(* The inductive invariant ties the reservation to its connection, the loop's    *)
(* place to the drain of its process, the exit code and the receipt to that      *)
(* drain, and what a command relies on to a process that has existed.            *)
EXTENDS Shutdown, TLAPS

\* Zenon proves most leaves; a leaf that needs arithmetic or case splits cites SMT.
USE Zenon

\* The handler's reservation: held by a connection until it is committed, gone
\* with its process, and asked for only by a command past its preflight.
Reservation ==
  /\ ReservationIsHeld
  /\ committed => pending \in Clients
  /\ ~Running => pending = None /\ ~committed
  /\ \A c \in Clients : at[c] \in {"start", "preflight"} => conn[c] = "none"

\* What the loop's place says of its counters and of the drain of its process.
LoopPlace ==
  /\ loop \in Selecting \cup {"starting"} => streak < StreakLimit
  /\ loop \in Selecting \cup {"starting", "joining", "graceJoining", "draining"}
       => failures < DegradedBudget
  /\ Running /\ loop \in {"closing", "completing"} => drain[pid] # "none"
  /\ Running /\ loop = "exit-ok" => drain[pid] = "drained"

\* Processes live one after the other, and what is left of one records its drain.
Succession ==
  /\ Running => taskBusy
  /\ ~Running => loop = "starting"
  /\ \A p \in Pids : exit[p] = "unborn" <=> p > pid
  /\ \A p \in Pids : exit[p] = "running" => p = pid
  /\ \A p \in Pids : exit[p] = "ok" => drain[p] = "drained"
  /\ receipt # None => drain[receipt.pid] # "none"

\* What a command relies on: a process that has existed; one that ended well when
\* it reports a safe stop; one that ended a drain when it starts the task.
Relies(c) ==
  /\ at[c] \notin {"start", "failed"} => seen[c] \in Statuses /\ seen[c].pid <= pid
  /\ c \in Stoppers /\ at[c] = "stopped" => exit[seen[c].pid] = "ok"
  /\ c \in Restarters /\ Starting(c) =>
       exit[seen[c].pid] # "running" /\ drain[seen[c].pid] # "none"

Reliance == \A c \in Clients : Relies(c)

IInv == TypeOK /\ Reservation /\ LoopPlace /\ Succession /\ Reliance

-------------------------------------------------------------------------------
(* What each kind of step leaves alone.                                        *)

\* A connection changes the handler and its own place only.
LEMMA ConnectionFrame ==
  ASSUME NEW c \in Clients, Connection(c)
  PROVE  UNCHANGED <<process, server, looping, receipt, load, client>>
  BY DEF Connection, CheckRequest, Reserve, Flush, AbortShutdown, CommitShutdown,
         BeginShutdown, Signal, process, handler, looping, client

\* A command changes nothing of the controller, unless it starts a new one.
LEMMA CommandFrame ==
  ASSUME NEW c \in Clients, Command(c)
  PROVE  /\ UNCHANGED <<server, handler, looping, receipt, load>>
         /\ Launch \/ UNCHANGED process
  BY ZenonT(60) DEF Command, Probe, Request, Accepted, GiveUp, Exited, Verify, StartTask, Launch,
         Advance, Move, process, handler, looping, client

\* A step of the loop within its process leaves the handler's reservation, the
\* connections and the commands alone.
LEMMA LoopFrames ==
  ASSUME Loop, ~Exit
  PROVE  UNCHANGED <<process, pending, committed, load, conn, client>> /\ Running
  BY DEF Loop, Startup, StepReturns, Deadline, TakeRequest, TakeInterrupt, TakeServerExit,
         Serve, Join, DrainError, DrainWaits, DrainCompletes, Close, Complete, LoopFrame,
         process, handler, looping, client

-------------------------------------------------------------------------------
(* Types.                                                                      *)

\* A fresh controller satisfies the invariant.
LEMMA InitInv == Init => IInv
<1> SUFFICES ASSUME Init PROVE IInv
  OBVIOUS
<1> USE ShutdownAssumption DEF Init, Serving, Pids
<1>1. TypeOK
  <2>1. 1 \in Pids /\ 0 \in 0..StreakLimit /\ 0 \in 0..DegradedBudget /\ 0 \in 0..MaxAttempts
    BY SMT
  <2>2. /\ version \in [Pids -> Versions] /\ load \in 0..MaxLoad
        /\ exit \in [Pids -> {"unborn", "running", "ok", "restart", "error", "killed"}]
        /\ drain \in [Pids -> {"none", "drained", "degraded"}]
    OBVIOUS
  <2>3. /\ conn \in [Clients -> InFlight \cup {"none", "rejected", "aborted", "closed"}]
        /\ at \in [Clients -> {"start", "preflight", "requesting", "waiting", "starting",
                               "launching"} \cup Done]
        /\ seen \in [Clients -> Statuses \cup {None}]
        /\ rid \in [Clients -> Restarters \cup {None}]
        /\ attempts \in [Clients -> 0..MaxAttempts]
    BY <2>1
  <2> QED  BY <2>1, <2>2, <2>3 DEF TypeOK, Selecting
<1>2. Reservation
  BY DEF Reservation, ReservationIsHeld, Running
<1>3. LoopPlace
  BY SMT DEF LoopPlace, Running, Selecting
<1>4. Succession
  BY SMT DEF Succession, Running
<1>5. Reliance
  BY DEF Reliance, Relies, Starting
<1> QED  BY <1>1, <1>2, <1>3, <1>4, <1>5 DEF IInv

\* The answer to a status request is a status.
LEMMA StatusType == TypeOK => Status \in Statuses
  BY DEF TypeOK, Status, Statuses

\* A process that ends or starts keeps the types.
LEMMA ProcessType ==
  ASSUME TypeOK, Launch \/ (\E code \in {"ok", "restart", "error", "killed"} : Gone(code)),
         client' = client
  PROVE  TypeOK'
<1> USE DEF TypeOK
<1>1. CASE Launch
  BY SMT, <1>1, ShutdownAssumption DEF Launch, handler, looping, client, Pids
<1>2. CASE \E code \in {"ok", "restart", "error", "killed"} : Gone(code)
  <2>1. /\ conn' \in [Clients -> InFlight \cup {"none", "rejected", "aborted", "closed"}]
        /\ exit' \in [Pids -> {"unborn", "running", "ok", "restart", "error", "killed"}]
    BY SMT, <1>2 DEF Gone, InFlight
  <2>2. streak' \in 0..StreakLimit /\ failures' \in 0..DegradedBudget
    BY SMT, <1>2, ShutdownAssumption DEF Gone
  <2>3. /\ pending' = None /\ channel' = None /\ signal' = None /\ loop' = "starting"
        /\ server' = "closed" /\ committed' = FALSE /\ shuttingDown' = FALSE
        /\ wedged' = FALSE /\ dirty' = FALSE
        /\ UNCHANGED <<pid, version, taskBusy, drain, receipt, load, client>>
    BY <1>2 DEF Gone
  <2> QED  BY <2>1, <2>2, <2>3 DEF client
<1> QED  BY <1>1, <1>2

\* A connection keeps the types.
LEMMA ConnectionType ==
  ASSUME TypeOK, NEW c \in Clients, Connection(c)
  PROVE  TypeOK'
<1>1. /\ pending' \in Clients \cup {None} /\ channel' \in Clients \cup {None}
      /\ committed' \in BOOLEAN /\ shuttingDown' \in BOOLEAN
      /\ conn' \in [Clients -> InFlight \cup {"none", "rejected", "aborted", "closed"}]
  BY ZenonT(60) DEF TypeOK, Connection, CheckRequest, Reserve, Flush, AbortShutdown, CommitShutdown,
         BeginShutdown, Signal, handler, InFlight
<1> QED  BY ZenonT(60), <1>1, ConnectionFrame DEF TypeOK, process, looping, client

\* A step of the loop keeps the types: its counters are tested before they grow.
LEMMA LoopType ==
  ASSUME TypeOK, LoopPlace, Loop, ~Exit
  PROVE  TypeOK'
<1> USE ShutdownAssumption
<1>1. /\ loop' \in Selecting \cup Exiting \cup
                     {"starting", "joining", "graceJoining", "draining", "closing", "completing"}
      /\ signal' \in Clients \cup {None} /\ server' \in {"up", "failed", "closed"}
      /\ channel' \in Clients \cup {None} /\ wedged' \in BOOLEAN
  BY ZenonT(60) DEF TypeOK, Loop, Startup, StepReturns, Deadline, TakeRequest, TakeInterrupt,
         TakeServerExit, Serve, Join, DrainError, DrainWaits, DrainCompletes, Close, Complete,
         LoopFrame, handler, Selecting, Exiting
<1>4. dirty' \in BOOLEAN /\ shuttingDown' \in BOOLEAN
  BY Zenon DEF TypeOK, Loop, Startup, StepReturns, Deadline, TakeRequest, TakeInterrupt,
         TakeServerExit, Serve, Join, DrainError, DrainWaits, DrainCompletes, Close, Complete,
         handler
<1>2. streak' \in 0..StreakLimit /\ failures' \in 0..DegradedBudget
  <2>1. \/ streak' = streak \/ streak' = 0
        \/ loop \in {"stepping", "grace"} /\ streak' = streak + 1
    BY DEF Loop, Startup, StepReturns, Deadline, TakeRequest, TakeInterrupt,
           TakeServerExit, Serve, Join, DrainError, DrainWaits, DrainCompletes, Close, Complete
  <2>2. \/ failures' = failures \/ failures' = 0
        \/ loop = "draining" /\ failures' = failures + 1
    BY DEF Loop, Startup, StepReturns, Deadline, TakeRequest, TakeInterrupt,
           TakeServerExit, Serve, Join, DrainError, DrainWaits, DrainCompletes, Close, Complete
  <2>3. streak' \in 0..StreakLimit
    BY SMT, <2>1 DEF TypeOK, LoopPlace, Selecting
  <2>4. failures' \in 0..DegradedBudget
    BY SMT, <2>2 DEF TypeOK, LoopPlace
  <2> QED  BY <2>3, <2>4
<1>3. drain' \in [Pids -> {"none", "drained", "degraded"}] /\ receipt' \in Receipts \cup {None}
  <2>1. \/ drain' = drain
        \/ drain' = [drain EXCEPT ![pid] = "drained"]
        \/ drain' = [drain EXCEPT ![pid] = "degraded"]
    BY DEF Loop, Startup, StepReturns, Deadline, TakeRequest, TakeInterrupt,
           TakeServerExit, Serve, Join, DrainError, DrainWaits, DrainCompletes, Close, Complete,
           looping
  <2>2. \/ receipt' = receipt
        \/ /\ signal \in Restarters
           /\ receipt' = [request |-> signal, pid |-> pid, version |-> version[pid]]
    BY DEF Loop, Startup, StepReturns, Deadline, TakeRequest, TakeInterrupt,
           TakeServerExit, Serve, Join, DrainError, DrainWaits, DrainCompletes, Close, Complete,
           LoopFrame
  <2> QED  BY SMT, <2>1, <2>2 DEF TypeOK, Receipts, Clients
<1> QED  BY ZenonT(60), <1>1, <1>2, <1>3, <1>4, LoopFrames DEF TypeOK, process, client

\* A command keeps the types.
LEMMA CommandType ==
  ASSUME TypeOK, Reliance, NEW c \in Clients, Command(c)
  PROVE  TypeOK'
<1>1. /\ at' \in [Clients -> {"start", "preflight", "requesting", "waiting", "starting",
                              "launching"} \cup Done]
      /\ attempts' \in [Clients -> 0..MaxAttempts]
      /\ conn' \in [Clients -> InFlight \cup {"none", "rejected", "aborted", "closed"}]
  <2>1. \E place \in {"preflight", "requesting", "waiting", "starting", "launching"} \cup Done :
          at' = [at EXCEPT ![c] = place]
    BY DEF Command, Probe, Request, Accepted, GiveUp, Exited, Verify, StartTask, Advance, Move,
           Done
  <2>2. \/ attempts' = attempts
        \/ \E tried \in BOOLEAN :
             /\ tried => attempts[c] < MaxAttempts
             /\ attempts' = [attempts EXCEPT ![c] = IF tried THEN @ + 1 ELSE @]
    BY DEF Command, Probe, Request, Accepted, GiveUp, Exited, Verify, StartTask, Advance, Move
  <2>3. conn' = conn \/ conn' = [conn EXCEPT ![c] = "sent"]
    BY DEF Command, Probe, Request, Accepted, GiveUp, Exited, Verify, StartTask, Launch
  <2>4. attempts' \in [Clients -> 0..MaxAttempts]
    BY SMT, <2>2, ShutdownAssumption DEF TypeOK
  <2>5. at' \in [Clients -> {"start", "preflight", "requesting", "waiting", "starting",
                             "launching"} \cup Done]
    BY <2>1 DEF TypeOK
  <2> QED  BY <2>3, <2>4, <2>5 DEF TypeOK, InFlight
<1>2. /\ seen' \in [Clients -> Statuses \cup {None}]
      /\ rid' \in [Clients -> Restarters \cup {None}]
  <2>1. \A request \in Restarters \cup {None}, status \in Statuses \cup {None} : \A place :
          Move(c, place, status, request) =>
            /\ seen' \in [Clients -> Statuses \cup {None}]
            /\ rid' \in [Clients -> Restarters \cup {None}]
    BY SMT DEF Move, TypeOK
  <2>2. seen[c] \in Statuses \cup {None} /\ rid[c] \in Restarters \cup {None}
    BY DEF TypeOK
  <2>3. at[c] = "preflight" => seen[c].restart \in Restarters \cup {None}
    BY DEF Reliance, Relies, Statuses
  <2>4. Status \in Statuses
    BY StatusType
  <2> QED  BY <2>1, <2>2, <2>3, <2>4
           DEF Command, Probe, Request, Accepted, GiveUp, Exited, Verify, StartTask, Advance,
               TypeOK
<1>3. CASE UNCHANGED process
  BY ZenonT(60), <1>1, <1>2, <1>3, CommandFrame DEF TypeOK, process, handler, looping
<1>4. CASE Launch
  <2>1. pid' \in Pids /\ taskBusy' = TRUE
        /\ exit' \in [Pids -> {"unborn", "running", "ok", "restart", "error", "killed"}]
        /\ UNCHANGED <<version, server, handler, looping, receipt, load, conn>>
    <3>1. pid \in Pids /\ pid < LastPid /\ pid' = pid + 1
          /\ exit' = [exit EXCEPT ![pid + 1] = "running"]
          /\ taskBusy' = TRUE
          /\ UNCHANGED <<version, server, handler, looping, receipt, load, conn>>
      BY <1>4 DEF TypeOK, Launch
    <3>2. pid' \in Pids
      BY SMT, <3>1, ShutdownAssumption DEF Pids
    <3> QED  BY <3>1, <3>2 DEF TypeOK
  <2>2. /\ version' = version /\ server' = server /\ pending' = pending /\ channel' = channel
        /\ committed' = committed /\ shuttingDown' = shuttingDown /\ loop' = loop
        /\ wedged' = wedged /\ streak' = streak /\ failures' = failures /\ signal' = signal
        /\ dirty' = dirty /\ drain' = drain /\ receipt' = receipt /\ load' = load
    BY <2>1 DEF handler, looping
  <2>3. taskBusy' \in BOOLEAN
    BY <2>1
  <2>4. /\ version' \in [Pids -> Versions] /\ server' \in {"up", "failed", "closed"}
        /\ pending' \in Clients \cup {None} /\ channel' \in Clients \cup {None}
        /\ committed' \in BOOLEAN /\ shuttingDown' \in BOOLEAN
        /\ loop' \in Selecting \cup Exiting \cup {"starting", "joining", "graceJoining",
                                                  "draining", "closing", "completing"}
    BY <2>2 DEF TypeOK
  <2>5. /\ wedged' \in BOOLEAN /\ dirty' \in BOOLEAN
        /\ streak' \in 0..StreakLimit /\ failures' \in 0..DegradedBudget
        /\ signal' \in Clients \cup {None} /\ load' \in 0..MaxLoad
        /\ drain' \in [Pids -> {"none", "drained", "degraded"}]
        /\ receipt' \in Receipts \cup {None}
    BY <2>2 DEF TypeOK
  <2> QED  BY ZenonT(60), <1>1, <1>2, <2>1, <2>3, <2>4, <2>5 DEF TypeOK
<1> QED  BY ZenonT(60), <1>3, <1>4, CommandFrame

-------------------------------------------------------------------------------
(* The kinds of step, with the exits of a process and its starts apart.        *)

Ends == \E code \in {"ok", "restart", "error", "killed"} :
          Gone(code) /\ (code = "ok" => loop = "exit-ok")

Elsewhere == TaskSettles \/ TaskRestarts \/ JobArrives \/ JobFinishes \/ Wedge \/ ServerFails

\* Every step is of one of these kinds.
LEMMA Kinds ==
  ASSUME Next
  PROVE  \/ \E c \in Clients : Connection(c) \/ Command(c)
         \/ Loop /\ ~Exit
         \/ Ends
         \/ Elsewhere
  BY DEF Next, Loop, Exit, Kill, Ends, Elsewhere

\* Every step keeps the types.
LEMMA TypeStep == ASSUME IInv, Next PROVE TypeOK'
<1>1. CASE \E c \in Clients : Connection(c) \/ Command(c)
  BY <1>1, ConnectionType, CommandType DEF IInv
<1>2. CASE Loop /\ ~Exit
  BY <1>2, LoopType DEF IInv
<1>3. CASE Ends
  BY <1>3, ProcessType DEF IInv, Ends, Gone
<1>4. CASE Elsewhere
  <2>1. CASE TaskRestarts
    BY <2>1, ProcessType DEF IInv, TaskRestarts
  <2>2. CASE JobArrives \/ JobFinishes
    <3>1. load' \in 0..MaxLoad
      BY SMT, <2>2, ShutdownAssumption DEF IInv, TypeOK, JobArrives, JobFinishes
    <3> QED  BY SMT, <2>2, <3>1 DEF IInv, TypeOK, JobArrives, JobFinishes, process, handler, looping,
                client
  <2>3. CASE TaskSettles \/ Wedge \/ ServerFails
    BY ZenonT(60), <2>3 DEF IInv, TypeOK, TaskSettles, Wedge, ServerFails, LoopFrame, process, handler,
       looping, client
  <2> QED  BY <1>4, <2>1, <2>2, <2>3 DEF Elsewhere
<1> QED  BY <1>1, <1>2, <1>3, <1>4, Kinds

\* A start gives the next process ID to a process that did not exist.
LEMMA LaunchFacts ==
  ASSUME IInv, Launch
  PROVE  /\ ~Running /\ Running' /\ pid' = pid + 1 /\ pid' \in Pids /\ pid \in Nat /\ taskBusy'
         /\ exit' = [exit EXCEPT ![pid'] = "running"]
         /\ \A p \in Pids : p # pid' => exit'[p] = exit[p]
         /\ UNCHANGED <<handler, looping, receipt, conn>>
  BY SMT, ShutdownAssumption DEF IInv, TypeOK, Succession, Launch, Running, Pids

\* The end of a process takes its memory and its connections with it.
LEMMA EndFacts ==
  ASSUME IInv, Ends
  PROVE  /\ Running /\ ~Running' /\ pending' = None /\ ~committed' /\ loop' = "starting"
         /\ streak' = 0 /\ failures' = 0
         /\ \A p \in Pids : p # pid => exit'[p] = exit[p]
         /\ exit'[pid] \notin {"unborn", "running"}
         /\ exit'[pid] = "ok" => loop = "exit-ok"
         /\ \A c \in Clients : conn[c] = "none" => conn'[c] = "none"
         /\ UNCHANGED <<pid, taskBusy, drain, receipt, client>>
<1> PICK code \in {"ok", "restart", "error", "killed"} :
           Gone(code) /\ (code = "ok" => loop = "exit-ok")
  BY DEF Ends
<1>1. exit' = [exit EXCEPT ![pid] = code] /\ exit \in [Pids -> {"unborn", "running", "ok",
        "restart", "error", "killed"}] /\ pid \in Pids
  BY DEF Gone, IInv, TypeOK
<1>2. \A c \in Clients : conn[c] = "none" => conn'[c] = "none"
  BY DEF Gone, InFlight
<1> QED  BY <1>1, <1>2 DEF Gone, Running

-------------------------------------------------------------------------------
(* The parts of the invariant.                                                 *)

\* Every step keeps the reservation with its connection.
LEMMA ReservationStep == ASSUME IInv, Next PROVE Reservation'
<1> USE DEF IInv, Reservation, ReservationIsHeld
<1>1. CASE \E c \in Clients : Connection(c)
  <2> PICK c \in Clients : Connection(c)
    BY <1>1
  <2>1. Running' = Running /\ at' = at
    BY ConnectionFrame DEF process, client, Running
  <2> QED  BY SMT, <2>1, ShutdownAssumption
           DEF TypeOK, Connection, CheckRequest, Reserve, Flush, AbortShutdown,
               CommitShutdown, BeginShutdown, Signal, handler, Clients, Running, Reachable
<1>2. CASE \E c \in Clients : Command(c)
  <2> PICK c \in Clients : Command(c)
    BY <1>2
  <2>1. pending' = pending /\ committed' = committed /\ (Launch \/ Running' = Running)
    BY CommandFrame DEF process, handler, Running
  <2>2. \A d \in Clients : d # c => conn'[d] = conn[d] /\ at'[d] = at[d]
    BY ZenonT(60) DEF TypeOK, Command, Probe, Request, Accepted, GiveUp, Exited, Verify, StartTask,
           Launch, Advance, Move
  <2>3. conn'[c] # conn[c] => at[c] = "preflight"
    BY DEF TypeOK, Command, Probe, Request, Accepted, GiveUp, Exited, Verify, StartTask,
           Launch, Advance, Move
  <2>4. at'[c] \in {"start", "preflight"} => at[c] = "start" /\ conn'[c] = conn[c]
    <3>1. \/ at[c] = "start" /\ conn' = conn
          \/ \E place \in {"requesting", "waiting", "starting", "launching"} \cup Done :
                at' = [at EXCEPT ![c] = place]
      BY DEF Done, Command, Probe, Request, Accepted, GiveUp, Exited, Verify, StartTask, Advance, Move
    <3> QED  BY <3>1 DEF TypeOK, Done
  <2> QED  BY <2>1, <2>2, <2>3, <2>4, LaunchFacts, ShutdownAssumption DEF TypeOK
<1>3. CASE Loop /\ ~Exit
  BY SMT, <1>3, LoopFrames DEF process, client, Running
<1>4. CASE Ends
  BY <1>4, EndFacts DEF client
<1>5. CASE Elsewhere
  <2>1. pending' = pending /\ committed' = committed /\ conn' = conn /\ at' = at
    BY <1>5 DEF Elsewhere, TaskSettles, TaskRestarts, Launch, JobArrives, JobFinishes, Wedge,
                ServerFails, LoopFrame, handler, client
  <2>2. Launch \/ Running' = Running
    BY <1>5 DEF Elsewhere, TaskSettles, TaskRestarts, JobArrives, JobFinishes, Wedge,
                ServerFails, LoopFrame, process, Running
  <2> QED  BY <2>1, <2>2, LaunchFacts
<1> QED  BY <1>1, <1>2, <1>3, <1>4, <1>5, Kinds

\* Every step keeps the loop's place true of its counters and its drain.
LEMMA LoopPlaceStep == ASSUME IInv, Next PROVE LoopPlace'
<1> USE ShutdownAssumption DEF IInv, LoopPlace
<1>1. CASE UNCHANGED <<process, looping>>
  BY <1>1 DEF process, looping, Running
<1>2. CASE Launch
  BY <1>2, LaunchFacts DEF looping, Succession, Selecting
<1>3. CASE Loop /\ ~Exit
  <2>1. pid' = pid /\ Running' = Running /\ pid \in Pids
    BY <1>3, LoopFrames DEF process, Running, TypeOK
  <2>2. /\ loop' \in Selecting \cup {"starting"} => streak' < StreakLimit
        /\ loop' \in Selecting \cup {"starting", "joining", "graceJoining", "draining"}
             => failures' < DegradedBudget
    <3>1. CASE \E ok \in BOOLEAN : Startup(ok)
      BY SMT, <3>1 DEF TypeOK, Startup, Selecting
    <3>2. CASE \E blocked \in BOOLEAN : StepReturns(blocked)
      BY SMT, <3>2 DEF TypeOK, StepReturns, Selecting
    <3>3. CASE Deadline \/ TakeRequest \/ TakeInterrupt \/ TakeServerExit
      BY SMT, <3>3 DEF TypeOK, Deadline, TakeRequest, TakeInterrupt, TakeServerExit, Serve,
                       Selecting
    <3>4. CASE Join \/ DrainError \/ DrainWaits \/ DrainCompletes
      BY SMT, <3>4 DEF TypeOK, Join, DrainError, DrainWaits, DrainCompletes, Selecting
    <3>5. CASE \/ \E broken \in BOOLEAN : Close(broken)
               \/ \E landed, clean \in BOOLEAN : Complete(landed, clean)
      BY SMT, <3>5 DEF TypeOK, Close, Complete, Selecting
    <3> QED  BY <1>3, <3>1, <3>2, <3>3, <3>4, <3>5 DEF Loop
  <2>3. /\ Running /\ loop' \in {"closing", "completing"} => drain'[pid] # "none"
        /\ Running /\ loop' = "exit-ok" => drain'[pid] = "drained"
    BY <1>3, <2>1 DEF TypeOK, Loop, Startup, StepReturns, Deadline, TakeRequest, TakeInterrupt,
       TakeServerExit, Serve, Join, DrainError, DrainWaits, DrainCompletes, Close, Complete,
       Selecting
  <2> QED  BY <2>1, <2>2, <2>3
<1>4. CASE Ends
  BY SMT, <1>4, EndFacts DEF Selecting
<1>5. CASE Elsewhere
  <2>1. CASE Wedge
    BY <2>1 DEF Wedge, LoopFrame, process, Running
  <2>2. CASE TaskRestarts
    BY <2>2, <1>2 DEF TaskRestarts
  <2>3. CASE TaskSettles \/ JobArrives \/ JobFinishes \/ ServerFails
    BY <2>3 DEF TaskSettles, JobArrives, JobFinishes, ServerFails, process, looping, Running
  <2> QED  BY <1>5, <2>1, <2>2, <2>3 DEF Elsewhere
<1> QED  BY <1>1, <1>2, <1>3, <1>4, <1>5, Kinds, ConnectionFrame, CommandFrame

\* Every step keeps the succession of processes and what is recorded of them.
LEMMA SuccessionStep == ASSUME IInv, Next PROVE Succession'
<1> USE DEF IInv, Succession
<1>1. CASE UNCHANGED <<process, looping, receipt>>
  BY <1>1 DEF process, looping, Running
<1>2. CASE Launch
  <2>1. \A p \in Pids : p > pid' <=> p > pid /\ p # pid'
    BY SMT, <1>2, LaunchFacts DEF Pids
  <2>2. exit'[pid'] = "running"
    BY <1>2, LaunchFacts DEF Running
  <2>3. \A p \in Pids : p # pid' => exit'[p] = exit[p] /\ exit[p] # "running"
    BY <1>2, LaunchFacts DEF Running
  <2>4. drain' = drain /\ receipt' = receipt /\ Running' /\ taskBusy'
    BY <1>2, LaunchFacts DEF looping
  <2>5. \A p \in Pids : exit'[p] = "unborn" <=> p > pid'
    BY <2>1, <2>2, <2>3
  <2> QED  BY <2>2, <2>3, <2>4, <2>5
<1>3. CASE Loop /\ ~Exit
  <2>1. UNCHANGED <<pid, exit, taskBusy>> /\ Running /\ Running' /\ pid \in Pids
    BY <1>3, LoopFrames DEF process, Running, TypeOK
  <2>2. \A p \in Pids : p # pid => drain'[p] = drain[p]
    BY <1>3 DEF TypeOK, Loop, Startup, StepReturns, Deadline, TakeRequest, TakeInterrupt,
       TakeServerExit, Serve, Join, DrainError, DrainWaits, DrainCompletes, Close, Complete
  <2>3. \A p \in Pids : drain[p] # "none" => drain'[p] # "none"
    BY ZenonT(60), <1>3 DEF TypeOK, Loop, Startup, StepReturns, Deadline, TakeRequest, TakeInterrupt,
       TakeServerExit, Serve, Join, DrainError, DrainWaits, DrainCompletes, Close, Complete
  <2>4. CASE receipt' = receipt
    BY <2>1, <2>2, <2>3, <2>4 DEF Running, TypeOK, Receipts
  <2>5. CASE receipt' # receipt
    <3>1. receipt'.pid = pid /\ drain'[pid] # "none"
      <4>1. PICK landed, clean \in BOOLEAN : Complete(landed, clean)
        BY ZenonT(60), <1>3, <2>5 DEF Loop, Startup, StepReturns, Deadline, TakeRequest,
           TakeInterrupt, TakeServerExit, Serve, Join, DrainError, DrainWaits, DrainCompletes,
           Close, LoopFrame
      <4>2. /\ loop = "completing" /\ drain' = drain
            /\ receipt' # receipt
               => receipt' = [request |-> signal, pid |-> pid, version |-> version[pid]]
        BY <4>1 DEF Complete
      <4>3. drain[pid] # "none"
        BY <4>2, <2>1 DEF LoopPlace
      <4> QED  BY SMT, <4>2, <4>3, <2>5
    <3> QED  BY <2>1, <2>2, <3>1 DEF Running
  <2> QED  BY <2>4, <2>5
<1>4. CASE Ends
  <2>1. exit'[pid] = "ok" => drain[pid] = "drained"
    BY <1>4, EndFacts DEF LoopPlace
  <2>2. pid \in Pids /\ exit[pid] = "running"
    BY <1>4, EndFacts DEF TypeOK, Running
  <2> QED  BY <1>4, <2>1, <2>2, EndFacts
<1>5. CASE Elsewhere
  <2>1. CASE TaskRestarts
    BY <2>1, <1>2 DEF TaskRestarts
  <2>2. CASE TaskSettles
    BY <2>2 DEF TaskSettles, looping, Running
  <2>3. CASE Wedge
    BY <2>3 DEF Wedge, LoopFrame, process, Running
  <2>4. CASE JobArrives \/ JobFinishes \/ ServerFails
    BY <2>4, <1>1 DEF JobArrives, JobFinishes, ServerFails
  <2> QED  BY <1>5, <2>1, <2>2, <2>3, <2>4 DEF Elsewhere
<1> QED  BY <1>1, <1>2, <1>3, <1>4, <1>5, Kinds, ConnectionFrame, CommandFrame

\* What has ended stays ended, and a drain that has ended stays so.
LEMMA EndedStays ==
  ASSUME IInv, Next, NEW p \in Pids, p <= pid
  PROVE  /\ pid <= pid'
         /\ exit[p] # "running" => exit'[p] = exit[p]
         /\ drain[p] # "none" => drain'[p] # "none"
<1> USE DEF IInv
<1>1. pid \in Nat /\ p \in Nat
  BY SMT, ShutdownAssumption DEF TypeOK, Pids
<1>2. CASE UNCHANGED <<process, drain>>
  BY SMT, <1>1, <1>2 DEF process
<1>3. CASE Launch
  BY SMT, <1>1, <1>3, LaunchFacts DEF looping
<1>4. CASE Loop /\ ~Exit
  <2>1. UNCHANGED <<pid, exit>>
    BY <1>4, LoopFrames DEF process
  <2>2. drain[p] # "none" => drain'[p] # "none"
    BY <1>4 DEF TypeOK, Loop, Startup, StepReturns, Deadline, TakeRequest, TakeInterrupt,
       TakeServerExit, Serve, Join, DrainError, DrainWaits, DrainCompletes, Close, Complete
  <2> QED  BY SMT, <1>1, <2>1, <2>2
<1>5. CASE Ends
  BY SMT, <1>1, <1>5, EndFacts DEF Running
<1>6. CASE Elsewhere
  <2>1. CASE TaskRestarts
    BY <2>1, <1>3 DEF TaskRestarts
  <2>2. CASE TaskSettles
    BY SMT, <1>1, <2>2 DEF TaskSettles, looping
  <2>3. CASE Wedge \/ JobArrives \/ JobFinishes \/ ServerFails
    BY <2>3, <1>2 DEF Wedge, LoopFrame, JobArrives, JobFinishes, ServerFails, looping
  <2> QED  BY <1>6, <2>1, <2>2, <2>3 DEF Elsewhere
<1> QED  BY <1>2, <1>3, <1>4, <1>5, <1>6, Kinds, ConnectionFrame, CommandFrame DEF looping

\* Every step keeps what the commands rely on.
LEMMA RelianceStep == ASSUME IInv, Next PROVE Reliance'
<1> USE DEF IInv, Reliance, Relies
<1>0. pid \in Nat /\ pid' \in Nat /\ \A status \in Statuses : status.pid \in Pids /\ status.pid \in Nat
  <2>1. pid \in Pids /\ pid' \in Pids
    BY TypeStep DEF TypeOK
  <2>2. Pids \subseteq Nat
    BY SMT, ShutdownAssumption DEF Pids
  <2>3. \A status \in Statuses : status.pid \in Pids
    BY DEF Statuses
  <2> QED  BY <2>1, <2>2, <2>3
<1>1. ASSUME NEW d \in Clients, at'[d] = at[d], seen'[d] = seen[d]
      PROVE  Relies(d)'
  <2>1. CASE at[d] \in {"start", "failed"}
    BY <1>1, <2>1 DEF Starting
  <2>2. CASE at[d] \notin {"start", "failed"}
    <3>1. seen[d].pid \in Pids /\ seen[d].pid \in Nat /\ seen[d].pid <= pid
      BY <1>0, <2>2
    <3>2. /\ seen[d].pid <= pid'
          /\ exit[seen[d].pid] # "running" => exit'[seen[d].pid] = exit[seen[d].pid]
          /\ drain[seen[d].pid] # "none" => drain'[seen[d].pid] # "none"
      BY SMT, <1>0, <3>1, EndedStays
    <3> QED  BY <1>1, <2>2, <3>2 DEF Starting
  <2> QED  BY <2>1, <2>2
<1>2. ASSUME NEW c \in Clients, Command(c)
      PROVE  Relies(c)'
  <2>1. /\ at \in [Clients -> {"start", "preflight", "requesting", "waiting", "starting",
                               "launching"} \cup Done]
        /\ seen \in [Clients -> Statuses \cup {None}]
    BY DEF TypeOK
  <2>2. CASE Probe(c)
    <3>1. Status \in Statuses /\ Status.pid = pid /\ pid' = pid
      BY <2>2, StatusType DEF Probe, Advance, Move, process, Status
    <3> QED  BY SMT, <1>0, <2>1, <2>2, <3>1 DEF Probe, Advance, Move, Starting
  <2>3. CASE ~Probe(c)
    <3>1. at'[c] # "failed" => /\ at[c] \notin {"start", "failed"} /\ seen'[c] = seen[c]
                               /\ at'[c] # "start"
      BY <1>2, <2>1, <2>3 DEF Command, Request, Accepted, GiveUp, Exited, Verify,
         StartTask, Advance, Move
    <3>2. at'[c] = "stopped" => exit[seen[c].pid] = "ok"
      BY <1>2, <2>1, <2>3 DEF Command, Request, Accepted, GiveUp, Exited, Verify,
         StartTask, Advance, Move
    <3>3. at'[c] \in {"starting", "launching"} /\ c \in Restarters =>
             \/ Starting(c)
             \/ exit[seen[c].pid] # "running" /\ ReceiptVerified(c)
      BY <1>2, <2>1, <2>3, ShutdownAssumption
         DEF Command, Request, Accepted, GiveUp, Exited, Verify, StartTask, Advance, Move,
             Starting
    <3>4. CASE at'[c] = "failed"
      BY <3>4 DEF Starting
    <3>5. CASE at'[c] # "failed"
      <4>1. seen[c] \in Statuses /\ seen[c].pid \in Pids /\ seen[c].pid <= pid
        BY <1>0, <3>1, <3>5
      <4>2. /\ seen[c].pid <= pid'
            /\ exit[seen[c].pid] # "running" => exit'[seen[c].pid] = exit[seen[c].pid]
            /\ drain[seen[c].pid] # "none" => drain'[seen[c].pid] # "none"
        BY SMT, <1>0, <4>1, EndedStays
      <4>3. c \in Restarters /\ at'[c] \in {"starting", "launching"} =>
              exit[seen[c].pid] # "running" /\ drain[seen[c].pid] # "none"
        BY ZenonT(60), <3>3 DEF ReceiptVerified, Succession
      <4> QED  BY <3>1, <3>2, <3>5, <4>1, <4>2, <4>3 DEF Starting
    <3> QED  BY <3>4, <3>5
  <2> QED  BY <2>2, <2>3
<1>3. ASSUME NEW c \in Clients, Command(c), NEW d \in Clients, d # c
      PROVE  at'[d] = at[d] /\ seen'[d] = seen[d]
  <2>1. /\ \E place : at' = [at EXCEPT ![c] = place]
        /\ seen' = seen \/ \E status : seen' = [seen EXCEPT ![c] = status]
    BY ZenonT(60), <1>3 DEF Command, Probe, Request, Accepted, GiveUp, Exited, Verify, StartTask,
       Advance, Move
  <2> QED  BY <2>1, <1>3 DEF TypeOK
<1>4. CASE \E c \in Clients : Command(c)
  BY <1>1, <1>2, <1>3, <1>4
<1>5. CASE at' = at /\ seen' = seen
  BY <1>1, <1>5
<1>6. Elsewhere => at' = at /\ seen' = seen
  BY DEF Elsewhere, TaskSettles, TaskRestarts, JobArrives, JobFinishes, Wedge, ServerFails,
         LoopFrame, client
<1> QED  BY <1>4, <1>5, <1>6, Kinds, ConnectionFrame, LoopFrames, EndFacts DEF client

\* The invariant is inductive.
LEMMA InvStep == IInv /\ [Next]_vars => IInv'
<1> SUFFICES ASSUME IInv, [Next]_vars PROVE IInv'
  OBVIOUS
<1>1. CASE Next
  BY <1>1, TypeStep, ReservationStep, LoopPlaceStep, SuccessionStep, RelianceStep DEF IInv
<1>2. CASE UNCHANGED vars
  BY SMT, <1>2 DEF vars, process, handler, looping, client, IInv, TypeOK, Reservation,
     ReservationIsHeld, LoopPlace, Succession, Reliance, Relies, Starting, Running
<1> QED  BY <1>1, <1>2

-------------------------------------------------------------------------------
(* What follows for every behaviour.                                           *)

\* The invariant holds throughout.
THEOREM Invariance == Spec => []IInv
  BY InitInv, InvStep, PTL DEF Spec

\* The control handler, for any number of connections: a reservation that is not
\* committed is held by a connection that will commit or release it.
THEOREM ReservationsNeverLeak == Spec => []ReservationIsHeld
<1>1. IInv => ReservationIsHeld
  BY DEF IInv, Reservation
<1> QED  BY <1>1, Invariance, PTL

\* stopController, for any number of commands and processes: a safe stop is only
\* reported of a process that verified its drain.
THEOREM SafeStopIsDrained == Spec => []StoppedIsDrained
<1>1. IInv => StoppedIsDrained
  <2> SUFFICES ASSUME IInv, NEW c \in Stoppers, at[c] = "stopped"
               PROVE  drain[seen[c].pid] = "drained"
    BY DEF StoppedIsDrained
  <2>1. exit[seen[c].pid] = "ok" /\ seen[c] \in Statuses
    BY DEF IInv, Reliance, Relies, Clients
  <2>2. seen[c].pid \in Pids
    BY <2>1 DEF Statuses
  <2> QED  BY <2>1, <2>2 DEF IInv, Succession
<1> QED  BY <1>1, Invariance, PTL

\* startControllerTaskAndWait, for any number of commands and processes: the task is
\* started only for a process that is gone and had ended a drain.
THEOREM TaskStartSound == Spec => []TaskStartAuthorised
<1>1. IInv => TaskStartAuthorised
  <2> SUFFICES ASSUME IInv, NEW c \in Restarters, Starting(c)
               PROVE  /\ exit[seen[c].pid] \notin {"unborn", "running"}
                      /\ drain[seen[c].pid] # "none"
    BY DEF TaskStartAuthorised
  <2>1. /\ seen[c] \in Statuses /\ seen[c].pid <= pid
        /\ exit[seen[c].pid] # "running" /\ drain[seen[c].pid] # "none"
    BY DEF IInv, Reliance, Relies, Clients, Starting
  <2>2. seen[c].pid \in Pids /\ pid \in Pids
    BY <2>1 DEF Statuses, IInv, TypeOK
  <2>3. ~(seen[c].pid > pid)
    BY SMT, <2>1, <2>2, ShutdownAssumption DEF Pids
  <2> QED  BY <2>1, <2>2, <2>3 DEF IInv, Succession
<1> QED  BY <1>1, Invariance, PTL

\* CommitShutdown and AbortShutdown, for any number of connections: within one
\* process a committed drain is never taken back or handed to another request.
THEOREM CommitmentIsFinal == Spec => CommittedIsIrreversible
<1>1. IInv /\ [Next]_vars => [(committed /\ Running') => (committed' /\ pending' = pending)]_vars
  <2> SUFFICES ASSUME IInv, Next, committed, Running'
               PROVE  committed' /\ pending' = pending
    BY DEF vars
  <2>1. pending \in Clients /\ pending # None
    BY ShutdownAssumption DEF IInv, Reservation, Clients
  <2>2. CASE \E c \in Clients : Connection(c)
    BY <2>1, <2>2 DEF Connection, CheckRequest, Reserve, Flush, AbortShutdown,
       CommitShutdown, BeginShutdown, Signal, handler
  <2>3. CASE \E c \in Clients : Command(c)
    BY <2>3, CommandFrame DEF handler
  <2>4. CASE Loop /\ ~Exit
    BY <2>4, LoopFrames
  <2>5. CASE Ends
    BY <2>5, EndFacts
  <2>6. CASE Elsewhere
    BY <2>6 DEF Elsewhere, TaskSettles, TaskRestarts, Launch, JobArrives, JobFinishes, Wedge,
       ServerFails, LoopFrame, handler
  <2> QED  BY <2>2, <2>3, <2>4, <2>5, <2>6, Kinds
<1> QED  BY <1>1, Invariance, PTL DEF Spec, CommittedIsIrreversible
===============================================================================
