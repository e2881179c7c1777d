--------------------------- MODULE ListenerCapacity ---------------------------
(* The capacity handshake between one reconcile step and the scale-set         *)
(* listeners (internal/controller: reconciler.go, poll_cadence.go and          *)
(* capacity_transition.go).                                                    *)
(*                                                                             *)
(* A step loads the observed state, plans a capacity per pool, sequences it    *)
(* against the last recorded capacities, writes a checkpoint, polls every      *)
(* ready listener concurrently, applies the answers, acts on them and saves.   *)
(* While the polls are open a cadence watcher rewrites the checkpoint and may  *)
(* supersede them.  Any write may fail and the process may die at any point.   *)
(*                                                                             *)
(* Abstractions:                                                               *)
(*  - BuildPlan is any member of Plans (the allocations that fit the host      *)
(*    limit), zero wherever a listener is not ready and everywhere when the    *)
(*    step may not serve;                                                      *)
(*  - a listener identity is only "the loaded one" or not (same), a free choice *)
(*    of every step: sessions are renewed by restarts and re-registration;     *)
(*  - GitHub keeps, per pool, the capacity of the last poll that reached it,   *)
(*    and handles the polls of one listener in the order they are issued;      *)
(*  - a retried poll carries the same capacity, so retries are one poll;       *)
(*  - times, problems and log lines are left out.                              *)
EXTENDS Naturals, FiniteSets, Functions

CONSTANTS Pools,      \* the configured GitHub targets
          HostLimit,  \* hostWorkerLimit: slots the host may advertise in total
          Counts,     \* values GitHub may report for TotalAssignedJobs
          NoLimit     \* "no entry" in pendingCapacity

Zero == [p \in Pools |-> 0]

\* What BuildPlan may advertise: all pools share one host-wide budget.
Plans == {f \in [Pools -> 0..HostLimit] : SumFunction(f) <= HostLimit}

ASSUME HostLimitAssumption == HostLimit \in Nat
ASSUME CountsAssumption == Counts \subseteq Nat /\ 0 \in Counts
ASSUME NoLimitAssumption == NoLimit \notin Nat
ASSUME ZeroPlanAssumption == Zero \in Plans

VARIABLES
  observed,   \* observed.json: one PoolObservation per pool
  pc,         \* "idle", "polling" (polls open) or "acting" (answers applied)
  previous,   \* the observations this step loaded
  cadence,    \* the checkpoint the cadence watcher holds in memory
  sent,       \* pollPlan.AdvertisedCapacity of this step
  same,       \* pools whose ensured identity is the loaded one
  forced,     \* cadence forcedZero: this step only heartbeats while it polls
  poll,       \* state of each pool's Statistics call
  count,      \* TotalAssignedJobs of each answered poll
  cancelled,  \* why the step context was cancelled: "no", "inputs", "stop"
  confirmed,  \* zeroConfirmations of this step
  pending,    \* Reconciler.pendingCapacity
  capacity,   \* GitHub: the capacity of the last poll that reached it
  zeroPolls,  \* history: answered zero polls since a nonzero one reached GitHub
  drifted,    \* history: some step ended with a record that differs from GitHub
  saveFailed  \* history: some write of observed.json was lost

step == <<previous, cadence, sent, same, forced, poll, count, cancelled, confirmed>>
github == <<capacity, zeroPolls>>
vars == <<observed, pc, step, pending, github, drifted, saveFailed>>

Observation == [maxCapacity : Nat, acknowledged : BOOLEAN,
                confirmations : 0..2, assigned : Counts]

\* The zero PoolObservation: no record of the pool.
Blank == [maxCapacity |-> 0, acknowledged |-> FALSE, confirmations |-> 0, assigned |-> 0]
NoRecord == [p \in Pools |-> Blank]

PollStates == {"none", "open", "reached", "answered", "failed"}

\* The record, the polls and the capacities of a step have the types the code gives them.
TypeOK ==
  /\ observed \in [Pools -> Observation]
  /\ pc \in {"idle", "polling", "acting"}
  /\ previous \in [Pools -> Observation]
  /\ cadence \in [Pools -> Observation]
  /\ sent \in [Pools -> Nat]
  /\ same \subseteq Pools
  /\ forced \in BOOLEAN
  /\ poll \in [Pools -> PollStates]
  /\ count \in [Pools -> Counts]
  /\ cancelled \in {"no", "inputs", "stop"}
  /\ confirmed \in [Pools -> 0..2]
  /\ pending \in [Pools -> Nat \cup {NoLimit}]
  /\ capacity \in [Pools -> Nat]
  /\ zeroPolls \in [Pools -> 0..2]
  /\ drifted \in BOOLEAN
  /\ saveFailed \in BOOLEAN

-------------------------------------------------------------------------------
(* Pure helpers of the step.                                                   *)

AtMost(n, bound) == IF n > bound THEN bound ELSE n

\* A transfer that sends increases together with decreases.
TransferAtOnce(recorded, planned) == planned

\* Decreases go out first: while any pool shrinks, every other is held.
SequenceCapacityTransfer(recorded, planned) ==
  LET hasDecrease == \E p \in Pools : planned[p] < recorded[p].maxCapacity
  IN [p \in Pools |-> IF hasDecrease THEN AtMost(planned[p], recorded[p].maxCapacity)
                                     ELSE planned[p]]

\* A rerun never advertises more than the remainder a superseded poll held.
CapByPending(planned) ==
  [p \in Pools |-> IF pending[p] = NoLimit THEN planned[p]
                                           ELSE AtMost(planned[p], pending[p])]

\* A checkpoint that keeps claiming the acknowledgement it started from.
CheckpointKeepsClaim(recorded, advertised, assigned, sameIdentity) ==
  [p \in Pools |-> [recorded[p] EXCEPT !.assigned = assigned[p]]]

\* The observation written while polls are in flight: it keeps the recorded
\* capacity and claims an acknowledgement only where nothing is changing.
PollCheckpoint(recorded, advertised, assigned, sameIdentity) ==
  [p \in Pools |->
     LET acked == /\ recorded[p].acknowledged
                  /\ recorded[p].maxCapacity = advertised[p]
                  /\ p \in sameIdentity
     IN [maxCapacity   |-> recorded[p].maxCapacity,
         acknowledged  |-> acked,
         confirmations |-> IF acked /\ recorded[p].maxCapacity = 0
                             THEN recorded[p].confirmations ELSE 0,
         assigned      |-> assigned[p]]]

\* poolAcknowledgementTransitionAt: an acknowledged pool has nothing pending.
PendingAfter(checkpoint, advertised) ==
  [p \in Pools |-> IF checkpoint[p].acknowledged THEN NoLimit ELSE advertised[p]]

\* A recorded zero that counts as the first confirmation, answered or not.
PriorZeroConfirms(p) ==
  IF poll[p] = "answered" /\ sent[p] = 0 /\ count[p] = 0
    THEN IF previous[p].maxCapacity = 0 /\ previous[p].assigned = 0 THEN 2 ELSE 1
    ELSE 0

\* Two zero polls with nothing assigned, counted across steps.
ZeroConfirmations(p) ==
  IF poll[p] = "answered" /\ sent[p] = 0 /\ count[p] = 0
    THEN IF /\ previous[p].acknowledged
            /\ previous[p].maxCapacity = 0
            /\ previous[p].assigned = 0
            /\ previous[p].confirmations > 0
           THEN AtMost(previous[p].confirmations + 1, 2)
           ELSE 1
    ELSE 0

\* The observation the step saves at its end.
FinalObservation(p) ==
  [maxCapacity   |-> IF poll[p] = "answered" THEN sent[p] ELSE cadence[p].maxCapacity,
   acknowledged  |-> poll[p] = "answered",
   confirmations |-> confirmed[p],
   assigned      |-> IF poll[p] = "answered" THEN count[p]
                   ELSE IF poll[p] = "none" THEN 0
                   ELSE previous[p].assigned]

\* memoryAffordableAdvertisedCapacity: the slots are handed out greedily in the
\* iteration order of a Go map, so at most one pool is cut rather than zeroed.
MemoryAffordable(advertised, slots) ==
  {f \in [Pools -> 0..HostLimit] :
     /\ \A p \in Pools : f[p] <= advertised[p]
     /\ SumFunction(f) = AtMost(SumFunction(advertised), slots)
     /\ Cardinality({p \in Pools : f[p] \notin {0, advertised[p]}}) <= 1}

\* SaveObserved replaces the file atomically: the write lands or it does not.  One
\* that lands may still report an error (a later ACL or directory pass failed).
Persist(ok, state) ==
  /\ observed' = IF ok THEN state ELSE observed
  /\ saveFailed' = (saveFailed \/ ~ok)

\* The step is over and leaves this record on disk: its locals are gone, and a
\* record that does not say what GitHub was last told is remembered.
EndStep(record) ==
  /\ pc' = "idle"
  /\ previous' = NoRecord /\ cadence' = NoRecord
  /\ sent' = Zero /\ same' = {} /\ forced' = FALSE
  /\ poll' = [p \in Pools |-> "none"] /\ count' = Zero
  /\ cancelled' = "no" /\ confirmed' = Zero
  /\ drifted' = (drifted \/ \E p \in Pools : capacity[p] # record[p].maxCapacity)

-------------------------------------------------------------------------------
Init ==
  /\ observed = NoRecord
  /\ pc = "idle"
  /\ previous = NoRecord /\ cadence = NoRecord
  /\ sent = Zero /\ same = {} /\ forced = FALSE
  /\ poll = [p \in Pools |-> "none"] /\ count = Zero
  /\ cancelled = "no" /\ confirmed = Zero
  /\ pending = [p \in Pools |-> NoLimit]
  /\ capacity = Zero
  /\ zeroPolls = Zero
  /\ drifted = FALSE /\ saveFailed = FALSE

\* The step up to its open polls.  serving is false for a mode other than
\* enabled, an unreadable desired or observed state and a failed observation
\* (a failed refresh after pre-poll starts included): all fail closed at zero.
\* kept are the ensured listeners that still have the loaded identity.
Begin(serving, readable, ready, kept, plan, ok) ==
  LET loaded == IF readable THEN observed ELSE NoRecord
      advertised == CapByPending(SequenceCapacityTransfer(loaded, plan))
      assigned == [p \in Pools |-> IF p \in ready THEN loaded[p].assigned ELSE 0]
      checkpoint == PollCheckpoint(loaded, advertised, assigned, kept)
  IN /\ pc = "idle"
     /\ serving => readable
     /\ plan = Zero \/ serving
     /\ \A p \in Pools \ ready : plan[p] = 0
     /\ kept \subseteq ready
     /\ readable \/ kept = {}
     /\ IF ready = {} THEN UNCHANGED <<observed, saveFailed>> ELSE Persist(ok, checkpoint)
     /\ pc' = "polling"
     /\ previous' = loaded /\ cadence' = checkpoint
     /\ sent' = advertised /\ same' = kept /\ forced' = ~serving
     /\ poll' = [p \in Pools |-> IF p \in ready THEN "open" ELSE "none"]
     /\ pending' = PendingAfter(checkpoint, advertised)
     /\ UNCHANGED <<count, cancelled, confirmed, github, drifted>>

\* GitHub receives the poll: from now on it may assign up to this capacity.
Reach(p) ==
  /\ pc = "polling" /\ poll[p] = "open"
  /\ poll' = [poll EXCEPT ![p] = "reached"]
  /\ capacity' = [capacity EXCEPT ![p] = sent[p]]
  /\ zeroPolls' = [zeroPolls EXCEPT ![p] = IF sent[p] = 0 THEN @ ELSE 0]
  /\ UNCHANGED <<observed, pc, previous, cadence, sent, same, forced,
                 count, cancelled, confirmed, pending, drifted, saveFailed>>

\* The long poll returns its statistics.  When the scale set had been deleted
\* externally it was recreated and polled again: the identity is then renewed.
Answer(p, n, renewed) ==
  /\ pc = "polling" /\ poll[p] = "reached"
  /\ poll' = [poll EXCEPT ![p] = "answered"]
  /\ count' = [count EXCEPT ![p] = n]
  /\ same' = IF renewed THEN same \ {p} ELSE same
  /\ zeroPolls' = [zeroPolls EXCEPT ![p] = IF sent[p] = 0 THEN AtMost(@ + 1, 2) ELSE 0]
  /\ UNCHANGED <<observed, pc, previous, cadence, sent, forced,
                 cancelled, confirmed, pending, capacity, drifted, saveFailed>>

\* The call gives up, whether or not GitHub has seen it.
Fail(p) ==
  /\ pc = "polling" /\ poll[p] \in {"open", "reached"}
  /\ poll' = [poll EXCEPT ![p] = "failed"]
  /\ UNCHANGED <<observed, pc, previous, cadence, sent, same, forced,
                 count, cancelled, confirmed, pending, github, drifted, saveFailed>>

\* Changed desired state, power or worker inventory supersedes the polls, or a
\* shutdown request or the step's watchdog stops it.  The first cause is kept.
Cancel(cause) ==
  /\ pc = "polling" /\ cancelled = "no"
  /\ cancelled' = cause
  /\ UNCHANGED <<observed, pc, previous, cadence, sent, same, forced, poll,
                 count, confirmed, pending, github, drifted, saveFailed>>

\* A cadence tick with good observations: replan, checkpoint, and supersede the
\* polls when capacity must be withdrawn, or leaves zero and the write reported
\* no error.
CadenceTick(plan, slots, affordable, ok) ==
  LET advertised == SequenceCapacityTransfer(cadence, plan)
      assigned == [p \in Pools |-> cadence[p].assigned]
      checkpoint == PollCheckpoint(cadence, advertised, assigned, Pools)
      withdrawn == \/ \E p \in Pools : advertised[p] < sent[p]
                   \/ slots < SumFunction(sent)
      restored == \E p \in Pools : advertised[p] > 0 /\ sent[p] = 0
  IN /\ pc = "polling" /\ cancelled = "no" /\ ~forced
     /\ \E p \in Pools : poll[p] # "none"
     /\ \A p \in Pools : poll[p] = "none" => plan[p] = 0
     /\ Persist(ok, checkpoint)
     /\ cadence' = checkpoint
     /\ IF withdrawn
          THEN /\ affordable \in MemoryAffordable(sent, slots)
               /\ pending' = affordable
          ELSE /\ affordable = Zero
               /\ pending' = PendingAfter(checkpoint, advertised)
     /\ cancelled' \in IF withdrawn THEN {"inputs"}
                     ELSE IF restored /\ ok THEN {"inputs", "no"} ELSE {"no"}
     /\ UNCHANGED <<pc, previous, sent, same, forced, poll, count, confirmed,
                    github, drifted>>

\* A cadence tick that only rewrites the checkpoint: forced to zero, or an
\* observation failed, which also supersedes the polls.
Heartbeat(ok) ==
  /\ pc = "polling" /\ cancelled = "no"
  /\ \E p \in Pools : poll[p] # "none"
  /\ Persist(ok, cadence)
  /\ cancelled' = IF forced THEN "no" ELSE "inputs"
  /\ UNCHANGED <<pc, previous, cadence, sent, same, forced, poll, count, confirmed,
                 pending, github, drifted>>

PollsDone == \A p \in Pools : poll[p] \notin {"open", "reached"}

\* A superseded step reruns at once and saves nothing: answers already received
\* are dropped with it.
Rerun ==
  /\ pc = "polling" /\ cancelled = "inputs" /\ PollsDone
  /\ EndStep(observed)
  /\ UNCHANGED <<observed, pending, github, saveFailed>>

\* A step that was stopped records a degraded checkpoint.
Timeout(ok) ==
  LET assigned == [p \in Pools |-> FinalObservation(p).assigned]
      checkpoint == PollCheckpoint(previous, sent, assigned, same)
  IN /\ pc = "polling" /\ cancelled = "stop" /\ PollsDone
     /\ Persist(ok, checkpoint)
     /\ pending' = PendingAfter(checkpoint, sent)
     /\ EndStep(IF ok THEN checkpoint ELSE observed)
     /\ UNCHANGED <<github>>

\* All polls returned and nothing superseded them: the answers are applied.
Apply ==
  /\ pc = "polling" /\ cancelled = "no" /\ PollsDone
  /\ pc' = "acting"
  /\ confirmed' = [p \in Pools |-> ZeroConfirmations(p)]
  /\ UNCHANGED <<observed, previous, cadence, sent, same, forced, poll, count,
                 cancelled, pending, github, drifted, saveFailed>>

\* The closing save.
Save(ok) ==
  LET final == [p \in Pools |-> FinalObservation(p)]
  IN /\ pc = "acting"
     /\ Persist(ok, final)
     /\ pending' = PendingAfter(final, sent)
     /\ EndStep(IF ok THEN final ELSE observed)
     /\ UNCHANGED <<github>>

\* A start whose admission inputs changed ends the step without its save.
Abandon ==
  /\ pc = "acting"
  /\ EndStep(observed)
  /\ UNCHANGED <<observed, pending, github, saveFailed>>

\* The controller process dies and is started again.
Crash ==
  /\ pending' = [p \in Pools |-> NoLimit]
  /\ EndStep(observed)
  /\ UNCHANGED <<observed, github, saveFailed>>

BeginSome ==
  \E serving, readable, ok \in BOOLEAN, ready \in SUBSET Pools, plan \in Plans :
    \E kept \in SUBSET ready : Begin(serving, readable, ready, kept, plan, ok)

TickSome ==
  \E plan, affordable \in Plans, slots \in 0..HostLimit, ok \in BOOLEAN :
    CadenceTick(plan, slots, affordable, ok)

Next ==
  \/ BeginSome
  \/ \E p \in Pools : Reach(p)
  \/ \E p \in Pools, n \in Counts, renewed \in BOOLEAN : Answer(p, n, renewed)
  \/ \E p \in Pools : Fail(p)
  \/ \E cause \in {"inputs", "stop"} : Cancel(cause)
  \/ TickSome
  \/ \E ok \in BOOLEAN : Heartbeat(ok)
  \/ Rerun
  \/ \E ok \in BOOLEAN : Timeout(ok)
  \/ Apply
  \/ \E ok \in BOOLEAN : Save(ok)
  \/ Abandon
  \/ Crash

Spec == Init /\ [][Next]_vars

-------------------------------------------------------------------------------
(* Properties.                                                                 *)

\* Guards of the retirement loop that concern the listener: the pool answered
\* this step's poll, at zero, with nothing assigned, for the second time.
RetirementAllowed(p) ==
  /\ pc = "acting"
  /\ poll[p] = "answered" /\ sent[p] = 0
  /\ count[p] = 0 /\ confirmed[p] >= 2

\* An acknowledgement on disk (model.go, CapacityAcknowledged: "true only when
\* the most recent listener poll successfully reported MaxCapacity") is true of
\* GitHub, across supersession, lost answers, stopped steps and crashes, as long as
\* no checkpoint write was lost.
AcknowledgedIsTrue ==
  ~saveFailed => \A p \in Pools :
    observed[p].acknowledged => capacity[p] = observed[p].maxCapacity

\* Idle workers are only retired from a pool whose listener holds zero and has
\* answered two polls at zero since it last offered a slot, so a statistic from
\* before the drain cannot authorise a stop.
QuiescenceIsReal ==
  ~saveFailed => \A p \in Pools :
    RetirementAllowed(p) => capacity[p] = 0 /\ zeroPolls[p] = 2

\* While every step so far ended with a record that agrees with GitHub, one
\* allocation that fits the host covers what all the listeners offer together:
\* no reallocation exposes a slot twice, in whatever order the polls land.
NoSlotExposedTwice ==
  ~drifted => \E f \in Plans : \A p \in Pools : capacity[p] <= f[p]

\* capacity_transition.go: "a cross-pool reallocation never exposes one slot to
\* two independent listeners", whatever became of earlier polls.
NeverExposesOneSlotTwice ==
  \E f \in Plans : \A p \in Pools : capacity[p] <= f[p]

\* model.go, ZeroCapacityConfirmations: "retirement requires two confirmations so
\* a stale pre-drain statistic can never authorize SIGTERM", also when a
\* checkpoint write was lost.
NeverRetiresOnOneZeroPoll ==
  \A p \in Pools : RetirementAllowed(p) => zeroPolls[p] = 2
===============================================================================
