-------------------------------- MODULE Plan --------------------------------
(***************************************************************************)
(* BuildPlan: the policy that turns one observation of the host into       *)
(* worker starts, worker removals and the capacity each pool advertises.   *)
(* The function is pure and works in passes over the pools; an action is   *)
(* one iteration of a pass, or the straight code between two passes, and   *)
(* the variables are the function's locals.                                *)
(*                                                                         *)
(* A pool is its place in the priority order.  The plan tells workers of a *)
(* pool apart only by their state, so a pool has a number of busy workers  *)
(* and of spare ones (starting or idle); those that have exited or lost    *)
(* their registration are always removed and not counted.  in.orphan       *)
(* counts the workers of pools that are no longer configured.  A worker    *)
(* reserves the memory limit it reports; in.profiled counts those that     *)
(* report none, and in.limits is the sum of what the others report.        *)
(* Memory is counted in units and kept modulo Word; in.budget is the       *)
(* worker memory budget, 0 for the host's headroom.                        *)
(***************************************************************************)
EXTENDS Integers

CONSTANTS PoolCount, MaxCapacity, WarmIdle, Memory, IncreaseMargin,
          MaximumWorkers, InteractiveWorkers, \* InteractiveWorkers = 0: no such cap
          DefaultMemory, Floor, Word,
          Inputs                              \* the observations planned for

VARIABLES in,         \* the observation
          pass, turn, \* where BuildPlan is, and the pool of that iteration
          advertised, desired, start,   \* AdvertisedCapacity, DesiredWorkers, Start
          remove,     \* spare workers to retire
          clamped,    \* MemoryClamped
          plan,       \* the plan's other fields
          slots,      \* remaining, later serviceSlots
          memory,     \* memoryRemaining
          budget,     \* advertisedBudget
          counted,    \* countedNonbusy
          open,       \* advertisable
          kept,       \* burst candidates still to be looked at
          last        \* the plan made before this one

planned   == <<advertised, desired, start, remove, clamped, plan>>
remaining == <<slots, memory, budget, counted, open, kept>>
planVars  == <<in, pass, turn, planned, remaining, last>>

Targets == 1..PoolCount
Zero    == [t \in Targets |-> 0]

Total(f) == LET upTo[n \in 0..PoolCount] == IF n = 0 THEN 0 ELSE upTo[n - 1] + f[n]
            IN  upTo[PoolCount]

Smaller(a, b) == IF a <= b THEN a ELSE b
Larger(a, b)  == IF a >= b THEN a ELSE b

Subtract(a, b) == (a - b) % Word
-----------------------------------------------------------------------------
Counts       == [Targets -> Nat]
Observations ==
    [mode : {"enabled", "disabled", "gaming", "invalid"}, override : BOOLEAN, limit : Int,
     present : BOOLEAN, power : BOOLEAN, healthy : BOOLEAN, observed : BOOLEAN,
     desktop : BOOLEAN, engineUp : BOOLEAN, wsl : BOOLEAN,
     total : 0..(Word - 1), available : 0..(Word - 1), engine : 0..(Word - 1),
     budget : 0..(Word - 1), ready : [Targets -> BOOLEAN], busy : Counts, spare : Counts,
     assigned : [Targets -> Int], drain : Counts, previous : Counts,
     profiled : Counts, limits : Nat, orphan : [busy : Nat, spare : Nat, profiled : Nat]]

ASSUME PlanAssumption ==
    /\ PoolCount \in Nat \ {0} /\ Word \in Nat \ {0} /\ Floor \in Nat
    /\ MaxCapacity \in Counts /\ WarmIdle \in Counts /\ Memory \in Counts
    /\ IncreaseMargin \in Counts /\ DefaultMemory \in Nat
    /\ MaximumWorkers \in Nat /\ InteractiveWorkers \in Nat
    /\ Inputs \subseteq Observations
-----------------------------------------------------------------------------
(* The observation. *)
InteractiveCapActive == InteractiveWorkers > 0 /\ ~in.override /\ in.present

EffectiveMaximumConcurrentWorkers == IF in.override THEN in.limit ELSE MaximumWorkers

HostWorkerLimit == IF InteractiveCapActive THEN InteractiveWorkers
                   ELSE EffectiveMaximumConcurrentWorkers

BusyWorkers   == Total(in.busy) + in.orphan.busy
ActiveWorkers == BusyWorkers + Total(in.spare) + in.orphan.spare

ActiveWorkerReservations ==
    Total([t \in Targets |-> in.profiled[t] * Memory[t]])
    + in.orphan.profiled * DefaultMemory + in.limits

\* An observation with more memory available than there is carries none.
ValidMemory == in.total > 0 /\ in.available <= in.total

HostMemoryAtFloor == ValidMemory /\ in.available <= Floor

AvailableMemoryHeadroom ==
    IF ValidMemory /\ in.available > Floor THEN in.available - Floor ELSE 0

BudgetActive   == in.budget > 0
BudgetClamped  == BudgetActive /\ in.engine > 0 /\ in.budget > in.engine
FloorBlocked   == BudgetActive /\ HostMemoryAtFloor
MemoryBasis    ==
    LET whole == IF BudgetClamped THEN in.engine ELSE in.budget
    IN  CASE ~BudgetActive -> AvailableMemoryHeadroom
          [] BudgetActive  -> Larger(whole - ActiveWorkerReservations, 0)

RoundsUp(left, worker) == IF worker = 0 THEN 0 ELSE (left + worker - 1) \div worker

AffordableWorkerCount(left, worker) == IF worker = 0 THEN 0 ELSE left \div worker

AffordableWorkerCountWithMargin(left, worker, margin) ==
    IF left <= margin THEN 0 ELSE AffordableWorkerCount(left - margin, worker)

Affordable(t) == IF FloorBlocked THEN 0 ELSE AffordableWorkerCount(memory, Memory[t])

\* Assigned jobs no busy worker accounts for yet.
Uncovered(t) == IF in.ready[t] /\ in.assigned[t] > 0 THEN Larger(in.assigned[t] - in.busy[t], 0)
                ELSE 0

Outstanding == \E t \in Targets : Uncovered(t) > 0
Starts      == \E t \in Targets : start[t] > 0
-----------------------------------------------------------------------------
(* A plan begins empty, but for what the observation itself has wrong. *)
Empty(input) ==
    [phase |-> "starting", reason |-> "none", left |-> 0,
     startDesktop |-> FALSE, stopDesktop |-> FALSE, shutdownWSL |-> FALSE,
     problems |-> (IF input.observed THEN {} ELSE {"invalid-resource-observation"})
         \cup (IF input.orphan.busy > 0 THEN {"orphaned-busy-worker"} ELSE {})
         \cup (IF input.orphan.spare > 0 THEN {"orphaned-worker-retirement-deferred"} ELSE {})]

Quiesce(p, reason) == [p EXCEPT !.reason = IF @ = "none" THEN reason ELSE @]

AddProblem(p, code) == [p EXCEPT !.problems = @ \cup {code}]

NoPlan == [available |-> -1]
Made   == [advertised |-> advertised, desired |-> desired, start |-> start,
           remove |-> remove, clamped |-> clamped, plan |-> plan,
           available |-> in.available]

PlanInit ==
    /\ in \in Inputs /\ pass = "begin" /\ turn = 1 /\ plan = Empty(in) /\ last = NoPlan
    /\ advertised = Zero /\ desired = Zero /\ start = Zero /\ remove = Zero /\ clamped = {}
    /\ slots = 0 /\ memory = 0 /\ budget = 0 /\ counted = Zero /\ open = {} /\ kept = {}

NextTurn(next) ==
    IF turn < PoolCount THEN turn' = turn + 1 /\ pass' = pass
                        ELSE turn' = 1 /\ pass' = next
-----------------------------------------------------------------------------
(* Drains: spare workers stay for the jobs GitHub has already assigned, and
   missing ones are started up to the capacity GitHub last acknowledged. *)
RemovesAllSpare(keep) == in.spare

SafeRemovals(keep) == [t \in Targets |-> Larger(in.spare[t] - keep[t], 0)]

CountsBusyOnly == Larger(HostWorkerLimit - BusyWorkers, 0)

DrainSlots == Larger(HostWorkerLimit - ActiveWorkers, 0)

EngineReady == in.desktop /\ in.engineUp

MustDrain == \/ in.mode # "enabled" \/ ~in.power
             \/ EngineReady /\ ~in.healthy

BeginDrain ==
    /\ pass = "begin" /\ MustDrain
    /\ remove' = SafeRemovals([t \in Targets |-> Uncovered(t)])
    /\ slots' = DrainSlots /\ memory' = MemoryBasis
    /\ pass' = "drain"
    /\ UNCHANGED <<in, turn, advertised, desired, start, clamped, plan, budget, counted, open,
                   kept, last>>

\* Invalid telemetry does not hold back work GitHub already assigned.
MemoryKnown == BudgetActive \/ ValidMemory

DrainStart(t) ==
    LET serviceable == Smaller(Smaller(Uncovered(t), in.drain[t]), MaxCapacity[t])
        wanted      == Smaller(Larger(0, serviceable - in.spare[t]), slots)
    IN  IF MemoryKnown THEN Smaller(wanted, Affordable(t)) ELSE wanted

ApplyOutstandingAssignments ==
    /\ pass = "drain" /\ NextTurn("settle")
    /\ LET more  == DrainStart(turn)
           short == Uncovered(turn) > in.spare[turn] + more
       IN /\ start' = [start EXCEPT ![turn] = more]
          /\ desired' = [desired EXCEPT ![turn] =
                in.busy[turn] + Smaller(Uncovered(turn), in.spare[turn] + more)]
          /\ slots' = slots - more
          /\ memory' = IF MemoryKnown THEN Subtract(memory, more * Memory[turn]) ELSE memory
          /\ plan' = [plan EXCEPT
                !.startDesktop = @ \/ (more > 0 /\ ~EngineReady),
                !.problems = IF short THEN @ \cup {"assigned-job-capacity-unavailable"} ELSE @]
    /\ UNCHANGED <<in, advertised, remove, clamped, budget, counted, open, kept, last>>

DisabledPlan ==
    IF ActiveWorkers > 0 \/ Outstanding \/ Starts
    THEN Quiesce([plan EXCEPT !.phase = "draining"], "operator-disabled")
    ELSE [plan EXCEPT !.phase = "disabled"]

TearsDownOverOutstanding ==
    IF BusyWorkers > 0 \/ Starts THEN [plan EXCEPT !.phase = "draining"]
    ELSE [plan EXCEPT !.stopDesktop = in.desktop \/ in.engineUp, !.phase = "draining"]

GamingPlan ==
    LET down == [plan EXCEPT !.stopDesktop = in.desktop \/ in.engineUp, !.shutdownWSL = in.wsl]
    IN  IF BusyWorkers > 0 \/ Outstanding \/ Starts
        THEN Quiesce([plan EXCEPT !.phase = "draining"], "gaming-active-work")
        ELSE IF in.desktop \/ in.engineUp \/ in.wsl \/ ActiveWorkers > 0
             THEN Quiesce([down EXCEPT !.phase = "draining"], "gaming-host-teardown")
             ELSE [down EXCEPT !.phase = "gaming"]

EndDrain ==
    /\ pass = "settle" /\ pass' = "done"
    /\ plan' = CASE in.mode = "invalid" ->
                      AddProblem([plan EXCEPT !.phase = "degraded"], "invalid-desired-mode")
                 [] in.mode = "disabled" -> DisabledPlan
                 [] in.mode = "gaming" -> GamingPlan
                 [] in.mode = "enabled" /\ ~in.power -> [plan EXCEPT !.phase = "power-suspended"]
                 [] in.mode = "enabled" /\ in.power ->
                      [plan EXCEPT !.phase = "resource-constrained"]
    /\ UNCHANGED <<in, turn, advertised, desired, start, remove, clamped, remaining, last>>
-----------------------------------------------------------------------------
(* The enabled host. *)
StartDesktop ==
    /\ pass = "begin" /\ ~MustDrain /\ ~EngineReady /\ pass' = "done"
    /\ plan' = [plan EXCEPT !.startDesktop = TRUE, !.phase = "starting"]
    /\ UNCHANGED <<in, turn, advertised, desired, start, remove, clamped, remaining, last>>

RefuseOverride ==
    /\ pass = "begin" /\ ~MustDrain /\ EngineReady /\ HostWorkerLimit < 0 /\ pass' = "done"
    /\ remove' = SafeRemovals(Zero)
    /\ plan' = AddProblem([plan EXCEPT !.phase = "degraded"], "invalid-capacity-override")
    /\ UNCHANGED <<in, turn, advertised, desired, start, clamped, remaining, last>>

CapacityDebt == BusyWorkers > HostWorkerLimit

Reserved(t) == Smaller(Larger(in.assigned[t], 0), MaxCapacity[t])

OverCap(t) == in.assigned[t] > MaxCapacity[t]

ProblemsFound ==
       (IF BudgetClamped THEN {"worker-memory-budget-exceeds-engine-memory"} ELSE {})
  \cup (IF CapacityDebt THEN {"capacity-below-busy-count"} ELSE {})
  \cup (IF \E t \in Targets : ~in.ready[t] THEN {"pool-unavailable"} ELSE {})
  \cup (IF \E t \in Targets : in.ready[t] /\ in.assigned[t] < 0
        THEN {"invalid-assigned-job-count"} ELSE {})
  \cup (IF \E t \in Targets : in.ready[t] /\ OverCap(t)
        THEN {"assigned-job-count-exceeds-pool-cap"} ELSE {})

\* Busy workers are reservations that come before any allocation.
BeginServing ==
    /\ pass = "begin" /\ ~MustDrain /\ EngineReady /\ HostWorkerLimit >= 0
    /\ desired' = in.busy
    /\ slots' = Larger(HostWorkerLimit - BusyWorkers, 0) /\ memory' = MemoryBasis
    /\ plan' = [plan EXCEPT !.problems = @ \cup ProblemsFound]
    /\ pass' = "assigned"
    /\ UNCHANGED <<in, turn, advertised, start, remove, clamped, budget, counted, open, kept,
                   last>>

Requested(t) == Larger(Reserved(t), in.busy[t])

WithWarmIdle(t) == Larger(Smaller(MaxCapacity[t], Reserved(t) + WarmIdle[t]), Requested(t))

WarmIdleFirst(t) == IF pass = "assigned" THEN WithWarmIdle(t) ELSE Requested(t)

\* First every assignment, then warm idle workers.
Request(t) == IF pass = "assigned" THEN Requested(t) ELSE WithWarmIdle(t)

\* A pool that needs no more takes no slot and no memory.
Allocate ==
    /\ pass \in {"assigned", "warm"}
    /\ NextTurn(IF pass = "assigned" THEN "warm" ELSE "place")
    /\ LET need     == IF in.ready[turn] THEN Larger(Request(turn) - desired[turn], 0) ELSE 0
           existing == Smaller(Smaller(need, in.spare[turn] - counted[turn]), slots)
           wanted   == Smaller(need - existing, slots - existing)
           starts   == Smaller(wanted, Affordable(turn))
       IN /\ desired' = [desired EXCEPT ![turn] = @ + existing + starts]
          /\ counted' = [counted EXCEPT ![turn] = @ + existing]
          /\ slots' = slots - existing - starts
          /\ memory' = Subtract(memory, starts * Memory[turn])
          /\ clamped' = IF starts < wanted THEN clamped \cup {turn} ELSE clamped
          /\ plan' = IF pass = "assigned" /\ existing + starts < need
                     THEN AddProblem(plan, "assigned-job-capacity-unavailable") ELSE plan
    /\ UNCHANGED <<in, advertised, start, remove, budget, open, kept, last>>

Excess(t) == in.busy[t] + in.spare[t] - desired[t]

Advertisable(t) == ~CapacityDebt /\ in.ready[t] /\ ~OverCap(t)

\* One worker too many stays as burst inventory instead of quiescing its pool.
Burst(t) == /\ Excess(t) = 1 /\ HostWorkerLimit > 0 /\ MaxCapacity[t] > 0
            /\ Advertisable(t)

Ended(t) == Excess(t) > 0 /\ ~Burst(t)

BudgetBeforeDemand(demand) == Larger(HostWorkerLimit, 0)

AdvertisedBudget(demand) == Larger(HostWorkerLimit - Total(demand), 0)

Place ==
    /\ pass = "place" /\ pass' = "burst"
    /\ start' = [t \in Targets |-> Larger(-Excess(t), 0)]
    /\ open' = {t \in Targets : Advertisable(t) /\ ~Ended(t)}
    /\ kept' = {t \in Targets : Burst(t)}
    /\ advertised' = [t \in Targets |-> IF t \in open' THEN desired[t] ELSE 0]
    /\ remove' = [t \in Targets |-> IF Ended(t) THEN Smaller(Excess(t), in.spare[t]) ELSE 0]
    /\ plan' = IF \E t \in Targets : Ended(t) THEN Quiesce(plan, "excess-workers") ELSE plan
    /\ budget' = AdvertisedBudget(advertised')
    /\ UNCHANGED <<in, turn, desired, clamped, slots, memory, counted, last>>

\* Pools that would advertise nothing come first.
BurstOrder(t, u) == \/ advertised[t] = 0 /\ advertised[u] # 0
                    \/ (advertised[t] = 0 <=> advertised[u] = 0) /\ t <= u

\* Burst workers share what the host still has to advertise; a pool that would
\* advertise nothing and gets none is quiesced.
GrantBurst ==
    /\ pass = "burst"
    /\ \E t \in kept :
         /\ \A u \in kept : BurstOrder(t, u)
         /\ kept' = kept \ {t}
         /\ LET more  == advertised[t] < MaxCapacity[t] /\ budget > 0
                ended == ~more /\ advertised[t] = 0
            IN /\ advertised' = IF more THEN [advertised EXCEPT ![t] = @ + 1] ELSE advertised
               /\ budget' = IF more THEN budget - 1 ELSE budget
               /\ open' = IF ended THEN open \ {t} ELSE open
               /\ remove' = IF ended THEN [remove EXCEPT ![t] = Smaller(1, in.spare[t])]
                            ELSE remove
               /\ plan' = IF ended THEN Quiesce(plan, "advertisement-budget-exhausted")
                          ELSE plan
    /\ UNCHANGED <<in, pass, turn, desired, start, clamped, slots, memory, counted, last>>

BeginService ==
    /\ pass = "burst" /\ kept = {}
    /\ slots' = Larger(HostWorkerLimit - ActiveWorkers - Total(start), 0)
    /\ pass' = IF CapacityDebt THEN "finish" ELSE "service"
    /\ UNCHANGED <<in, turn, planned, memory, budget, counted, open, kept, last>>

HoldsWholePrevious(limit, t) == Smaller(limit, in.previous[t])

WithoutHold(limit, t) == 0

\* Capacity advertised before is held inside the memory margin; growth needs it.
Held(limit, t) == Smaller(limit, Larger(in.previous[t] - advertised[t], 0))

Growth(limit, held, t) ==
    IF FloorBlocked THEN 0
    ELSE Smaller(limit - held,
                 AffordableWorkerCountWithMargin(Subtract(memory, held * Memory[t]),
                                                 Memory[t], IncreaseMargin[t]))

\* Slots that need no worker yet are advertised as far as host and memory allow.
OfferService ==
    /\ pass = "service" /\ NextTurn("finish")
    /\ LET limit  == Smaller(Smaller(MaxCapacity[turn] - advertised[turn], slots), budget)
           held   == Smaller(Held(limit, turn), AffordableWorkerCount(memory, Memory[turn]))
           more   == held + Growth(limit, held, turn)
           looked == turn \in open /\ slots # 0
           given  == IF looked /\ more > 0 THEN more ELSE 0
       IN /\ advertised' = [advertised EXCEPT ![turn] = @ + given]
          /\ slots' = slots - given /\ budget' = budget - given
          /\ memory' = Subtract(memory, given * Memory[turn])
          /\ clamped' = IF looked /\ more < limit THEN clamped \cup {turn} ELSE clamped
    /\ UNCHANGED <<in, desired, start, remove, plan, counted, open, kept, last>>

Finish ==
    /\ pass = "finish" /\ pass' = "done"
    /\ plan' = [plan EXCEPT !.left = memory,
                  !.phase = CASE plan.problems # {} -> "degraded"
                              [] plan.problems = {} /\ plan.reason # "none" -> "draining"
                              [] OTHER -> "ready"]
    /\ UNCHANGED <<in, turn, advertised, desired, start, remove, clamped, remaining, last>>
-----------------------------------------------------------------------------
(* The next step plans again from what this plan told the listeners; with the
   memory it had, or with a little less. *)
Again(available) ==
    /\ pass = "done" /\ pass' = "begin" /\ turn' = 1 /\ last' = Made
    /\ in' = [in EXCEPT !.previous = advertised, !.available = available]
    /\ plan' = Empty(in')
    /\ advertised' = Zero /\ desired' = Zero /\ start' = Zero /\ remove' = Zero /\ clamped' = {}
    /\ slots' = 0 /\ memory' = 0 /\ budget' = 0 /\ counted' = Zero /\ open' = {} /\ kept' = {}

Replan == Again(in.available)

Dip == in.previous = Zero /\ advertised # Zero /\ in.available > 0 /\ Again(in.available - 1)

BuildPlan == \/ BeginDrain \/ ApplyOutstandingAssignments \/ EndDrain
             \/ StartDesktop \/ RefuseOverride \/ BeginServing \/ Allocate \/ Place
             \/ GrantBurst \/ BeginService \/ OfferService \/ Finish

PlanNext == BuildPlan \/ Replan \/ Dip

PlanSpec == PlanInit /\ [][PlanNext]_planVars
-----------------------------------------------------------------------------
(* All pools together advertise no more than the host limit, whatever burst
   inventory, held capacity and growth add, and a pool advertises more than its
   maximum only for workers that are already busy. *)
AdvertisedWithinLimit ==
    /\ Total(advertised) <= Larger(HostWorkerLimit, 0)
    /\ \A t \in Targets : advertised[t] <= Larger(MaxCapacity[t], in.busy[t])

(* The starts of a drain never take the host over its limit, count the idle
   workers, and stay within what the listener was last told. *)
DrainStartsWithinLimit ==
    pass \in {"drain", "settle", "done"} /\ MustDrain /\ Starts
    => /\ ActiveWorkers + Total(start) <= HostWorkerLimit
       /\ \A t \in Targets : start[t] > 0 => in.spare[t] + start[t] <= in.drain[t]

(* The host limit bounds what is offered to GitHub and what a drain still starts. *)
LimitsHeld == AdvertisedWithinLimit /\ DrainStartsWithinLimit

(* The memory the plan starts and advertises for was there: no unsigned
   difference wraps, also when a pool runs more workers than its maximum and
   the additional limit is negative. *)
MemoryNeverWraps == pass # "begin" => memory <= MemoryBasis

(* A warm idle worker never takes a slot assigned to another ready pool: while
   some pool lacks workers for its assignments for want of slots, no pool has
   workers beyond its own assignments. *)
AssignedBeforeWarm ==
    pass = "done" /\ ~MustDrain
    /\ (\E t \in Targets : in.ready[t] /\ t \notin clamped /\ desired[t] < Reserved(t))
    => \A u \in Targets : desired[u] <= Requested(u)

(* A host that drains keeps, in every mode, a worker for each assigned job that
   no busy worker accounts for yet, as far as it has any. *)
DrainKeepsAssigned ==
    MustDrain => \A t \in Targets :
                    in.spare[t] - remove[t] >= Smaller(in.spare[t], Uncovered(t))

(* Docker and WSL are only taken down with no busy worker, no assigned job
   without a worker, nothing about to start and nothing advertised. *)
TeardownIsIdle ==
    plan.stopDesktop \/ plan.shutdownWSL
    => BusyWorkers = 0 /\ ~Outstanding /\ ~Starts /\ Total(advertised) = 0

(* A drain gives up no assigned job: it keeps its workers, and the engine under
   them while there is work. *)
DrainIsSafe == DrainKeepsAssigned /\ TeardownIsIdle

(* Planning again from the capacities just advertised changes nothing: what
   the memory margin let through is held by the next plan. *)
PlanIsStable == last.available = in.available => Made = last

(* Capacity that grew with the memory margin survives a dip of at most that
   margin: listeners do not flap around a slot boundary. *)
CapacityHeldThroughDip ==
    in.available < last.available /\ ~Starts /\ (\A t \in Targets : last.start[t] = 0)
    => \A t \in Targets : advertised[t] >= last.advertised[t]

(* Each plan feeds the next one and capacity stays put: neither planning again nor
   a dip inside the margin moves what the listeners are told. *)
CapacityIsSteady ==
    pass = "done" /\ last # NoPlan => PlanIsStable /\ CapacityHeldThroughDip
=============================================================================
