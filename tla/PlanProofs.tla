----------------------------- MODULE PlanProofs -----------------------------
(* BuildPlan keeps its limits, spends memory once, serves assigned jobs before
   warm capacity and drains safely, for any number of pools, any sizes and every
   observation of the host. *)
EXTENDS Plan, WellFoundedInduction, TLAPS

\* Zenon proves most leaves; a leaf that needs arithmetic or case splits cites SMT.
USE Zenon
-----------------------------------------------------------------------------
(* The inductive invariant, the operators it is made of, and the steps before any
   worker is allocated: the start, the drain, the refusals. *)
\* The order of the naturals, as the relation a least counterexample is taken in.
Less == {ss \in Nat \X Nat : ss[1] < ss[2]}

\* A non-empty set of naturals has a least member: the induction over pools below takes
\* the first pool at which a claim fails.
LEMMA LeastNat ==
  ASSUME NEW T, T \subseteq Nat, T # {}
  PROVE  \E m \in T : \A k \in T : m <= k
<1>0. IsWellFoundedOn(Less, Nat)
  BY NatLessThanWellFounded DEF OpToRel, Less
<1>1. PICK m \in T : \A k \in T : ~(<<k, m>> \in Less)
  BY WFMin, <1>0
<1>2. ASSUME NEW k \in T PROVE m <= k
  <2>1. ~(<<k, m>> \in Less) BY <1>1
  <2>2. <<k, m>> \in Nat \X Nat OBVIOUS
  <2>3. ~(k < m) BY <2>1, <2>2 DEF Less
  <2> QED BY SMT, <2>3
<1> QED BY <1>2

\* Totals are taken of these, and are the last of their running sums.
Numbers == [Targets -> Int]

Sums(f, s, n) == /\ s \in [0..n -> Int] /\ s[0] = 0
                 /\ \A i \in 1..n : s[i] = s[i-1] + f[i]

\* Every function of the pools has running sums, up to any pool.
LEMMA SumsExist ==
  ASSUME NEW f \in Numbers PROVE \E s : Sums(f, s, PoolCount)
<1> DEFINE T == {n \in Targets : ~\E s : Sums(f, s, n)}
<1>0. PoolCount \in Nat /\ PoolCount >= 1 BY SMT, PlanAssumption
<1> SUFFICES ASSUME T # {} PROVE FALSE
  BY SMT, <1>0 DEF Targets
<1>1. T \subseteq Nat BY SMT, <1>0 DEF Targets
<1>2. PICK n \in T : \A k \in T : n <= k
  <2> HIDE DEF T
  <2> QED BY <1>1, LeastNat
<1>3. n \in 1..PoolCount BY DEF Targets
<1>4. \E s : Sums(f, s, n - 1)
  <2>1. CASE n = 1
    <3> DEFINE z == [i \in 0..0 |-> 0]
    <3>1. Sums(f, z, 0) BY SMT DEF Sums
    <3> QED BY SMT, <3>1, <2>1
  <2>2. CASE n # 1
    <3>1. n - 1 \in Targets /\ ~(n <= n - 1) BY SMT, <1>3, <1>0, <2>2 DEF Targets
    <3>2. n - 1 \notin T BY <3>1, <1>2
    <3> QED BY <3>1, <3>2
  <2> QED BY <2>1, <2>2
<1>5. PICK s : Sums(f, s, n - 1) BY <1>4
<1> DEFINE e == [i \in 0..n |-> IF i = n THEN s[n-1] + f[n] ELSE s[i]]
<1>6. f[n] \in Int /\ s \in [0..(n-1) -> Int] BY <1>3, <1>5 DEF Sums, Numbers, Targets
<1>7. e \in [0..n -> Int] BY SMT, <1>6, <1>3
<1>8. e[0] = 0 BY SMT, <1>3, <1>5 DEF Sums
<1>9. ASSUME NEW i \in 1..n PROVE e[i] = e[i-1] + f[i]
  <2>1. CASE i = n BY SMT, <2>1, <1>3
  <2>2. CASE i # n
    <3>1. i \in 1..(n-1) /\ i - 1 \in 0..n /\ i \in 0..n /\ i - 1 # n BY SMT, <2>2, <1>3
    <3> QED BY <3>1, <1>5, <2>2 DEF Sums
  <2> QED BY <2>1, <2>2
<1>10. Sums(f, e, n) BY <1>7, <1>8, <1>9 DEF Sums
<1> QED BY <1>10

\* Total, by which BuildPlan adds up a per-pool count, ends the running sums of its argument.
LEMMA TotalSums ==
  ASSUME NEW f \in Numbers
  PROVE  \E s : Sums(f, s, PoolCount) /\ Total(f) = s[PoolCount]
<1>0. PoolCount \in Nat /\ PoolCount >= 1 BY SMT, PlanAssumption
<1> DEFINE IsTotal(s) == s = [n \in 0..PoolCount |-> IF n = 0 THEN 0 ELSE s[n - 1] + f[n]]
           u == CHOOSE s : IsTotal(s)
<1>1. Total(f) = u[PoolCount] BY DEF Total
<1>2. PICK s : Sums(f, s, PoolCount) BY SumsExist
<1>3. IsTotal(s)
  <2>1. s \in [0..PoolCount -> Int] BY <1>2 DEF Sums
  <2>2. ASSUME NEW n \in 0..PoolCount PROVE s[n] = IF n = 0 THEN 0 ELSE s[n - 1] + f[n]
    <3>1. n = 0 \/ n \in 1..PoolCount BY SMT, <1>0
    <3> QED BY <3>1, <1>2 DEF Sums
  <2> QED BY <2>1, <2>2
<1>4. IsTotal(u) BY <1>3
<1> HIDE DEF u
<1>5. u[PoolCount] = s[PoolCount]
  <2> DEFINE T == {n \in 0..PoolCount : u[n] # s[n]}
  <2> SUFFICES ASSUME T # {} PROVE FALSE
    BY SMT, <1>0
  <2>1. T \subseteq Nat BY SMT, <1>0
  <2>2. PICK n \in T : \A k \in T : n <= k
    <3> HIDE DEF T
    <3> QED BY <2>1, LeastNat
  <2>3. n \in 0..PoolCount /\ u[n] # s[n] OBVIOUS
  <2>4. u[n] = IF n = 0 THEN 0 ELSE u[n - 1] + f[n]
    BY <1>4, <2>3
  <2>5. s[n] = IF n = 0 THEN 0 ELSE s[n - 1] + f[n]
    BY <1>3, <2>3
  <2>6. n # 0 /\ n - 1 \in 0..PoolCount /\ ~(n <= n - 1) BY SMT, <2>3, <2>4, <2>5, <1>0
  <2>7. u[n - 1] = s[n - 1] BY <2>2, <2>6
  <2> QED BY <2>3, <2>4, <2>5, <2>6, <2>7
<1> QED BY <1>1, <1>2, <1>5

\* A total of integers is an integer.
LEMMA TotalType == ASSUME NEW f \in Numbers PROVE Total(f) \in Int
<1>1. PICK s : Sums(f, s, PoolCount) /\ Total(f) = s[PoolCount] BY TotalSums
<1> QED BY SMT, <1>1, PlanAssumption DEF Sums

\* Nothing counted in any pool adds up to nothing.
LEMMA TotalZero == Total(Zero) = 0
<1>0. PoolCount \in Nat /\ PoolCount >= 1 BY SMT, PlanAssumption
<1>1. Zero \in Numbers /\ \A t \in Targets : Zero[t] = 0 BY SMT DEF Zero, Numbers
<1>2. PICK s : Sums(Zero, s, PoolCount) /\ Total(Zero) = s[PoolCount] BY <1>1, TotalSums
<1> DEFINE T == {n \in 0..PoolCount : s[n] # 0}
<1> SUFFICES ASSUME T # {} PROVE FALSE
  BY SMT, <1>0, <1>2
<1>3. T \subseteq Nat BY SMT, <1>0
<1>4. PICK n \in T : \A k \in T : n <= k
  <2> HIDE DEF T
  <2> QED BY <1>3, LeastNat
<1>5. n \in 1..PoolCount BY SMT, <1>0, <1>2 DEF Sums
<1>6. n - 1 \in 0..PoolCount /\ ~(n <= n - 1) BY SMT, <1>5, <1>0
<1>7. s[n - 1] = 0 BY <1>4, <1>6
<1>8. s[n] = s[n - 1] + Zero[n] BY <1>2, <1>5 DEF Sums
<1> QED BY SMT, <1>1, <1>5, <1>7, <1>8 DEF Targets

\* Larger counts in every pool add up to a larger total.
LEMMA TotalMonotone ==
  ASSUME NEW f \in Numbers, NEW g \in Numbers, \A t \in Targets : f[t] <= g[t]
  PROVE  Total(f) <= Total(g)
<1>0. PoolCount \in Nat /\ PoolCount >= 1 BY SMT, PlanAssumption
<1>1. PICK s : Sums(f, s, PoolCount) /\ Total(f) = s[PoolCount] BY TotalSums
<1>2. PICK r : Sums(g, r, PoolCount) /\ Total(g) = r[PoolCount] BY TotalSums
<1> DEFINE T == {n \in 0..PoolCount : ~(s[n] <= r[n])}
<1> SUFFICES ASSUME T # {} PROVE FALSE
  BY SMT, <1>0, <1>1, <1>2
<1>3. T \subseteq Nat BY SMT, <1>0
<1>4. PICK n \in T : \A k \in T : n <= k
  <2> HIDE DEF T
  <2> QED BY <1>3, LeastNat
<1>5. n \in 1..PoolCount BY SMT, <1>0, <1>1, <1>2 DEF Sums
<1>6. n - 1 \in 0..PoolCount /\ ~(n <= n - 1) /\ n \in 0..PoolCount BY SMT, <1>5, <1>0
<1>7. s[n - 1] <= r[n - 1] BY <1>4, <1>6
<1>8. s[n] = s[n - 1] + f[n] /\ r[n] = r[n - 1] + g[n] BY <1>1, <1>2, <1>5 DEF Sums
<1>9. f[n] <= g[n] /\ f[n] \in Int /\ g[n] \in Int BY <1>5 DEF Targets, Numbers
<1>10. s[n - 1] \in Int /\ r[n - 1] \in Int BY <1>6, <1>1, <1>2 DEF Sums
<1> QED BY SMT, <1>7, <1>8, <1>9, <1>10

\* Changing the count of one pool, as each turn of BuildPlan's loops does, changes the total
\* by as much.
LEMMA TotalBump ==
  ASSUME NEW f \in Numbers, NEW t \in Targets, NEW d \in Int
  PROVE  /\ [f EXCEPT ![t] = @ + d] \in Numbers
         /\ Total([f EXCEPT ![t] = @ + d]) = Total(f) + d
<1> DEFINE g == [f EXCEPT ![t] = @ + d]
           Shift(n) == IF t <= n THEN d ELSE 0
<1>0. PoolCount \in Nat /\ PoolCount >= 1 /\ t \in 1..PoolCount BY SMT, PlanAssumption DEF Targets
<1>g. g \in Numbers /\ \A n \in Targets : g[n] = f[n] + (IF n = t THEN d ELSE 0)
  BY SMT DEF Numbers
<1> HIDE DEF g
<1>1. PICK s : Sums(f, s, PoolCount) /\ Total(f) = s[PoolCount] BY TotalSums
<1>2. PICK r : Sums(g, r, PoolCount) /\ Total(g) = r[PoolCount] BY TotalSums, <1>g
<1> DEFINE T == {n \in 0..PoolCount : r[n] # s[n] + Shift(n)}
<1>3. T = {}
  <2> SUFFICES ASSUME T # {} PROVE FALSE
    OBVIOUS
  <2>3. T \subseteq Nat BY SMT, <1>0
  <2>4. PICK n \in T : \A k \in T : n <= k
    <3> HIDE DEF T
    <3> QED BY <2>3, LeastNat
  <2>5. n \in 1..PoolCount BY SMT, <1>0, <1>1, <1>2 DEF Sums
  <2>6. n - 1 \in 0..PoolCount /\ ~(n <= n - 1) /\ n \in 0..PoolCount BY SMT, <2>5, <1>0
  <2>7. r[n - 1] = s[n - 1] + Shift(n - 1) BY <2>4, <2>6
  <2>8. s[n] = s[n - 1] + f[n] /\ r[n] = r[n - 1] + g[n] BY <1>1, <1>2, <2>5 DEF Sums
  <2>9. g[n] = f[n] + (IF n = t THEN d ELSE 0) /\ f[n] \in Int
    BY <2>5, <1>g DEF Targets, Numbers
  <2>10. s[n - 1] \in Int /\ r[n - 1] \in Int BY <2>6, <1>1, <1>2 DEF Sums
  <2>11. Shift(n) = Shift(n - 1) + (IF n = t THEN d ELSE 0) BY SMT, <2>5, <1>0
  <2> QED BY SMT, <2>4, <2>7, <2>8, <2>9, <2>10, <2>11
<1>4. r[PoolCount] = s[PoolCount] + Shift(PoolCount) BY SMT, <1>0, <1>3
<1>5. Shift(PoolCount) = d BY SMT, <1>0
<1> QED BY <1>1, <1>2, <1>4, <1>5, <1>g DEF g
-----------------------------------------------------------------------------
\* The passes of BuildPlan, and what a plan can say.
Serving == {"assigned", "warm", "place", "burst", "service", "finish"}
Passes  == {"begin", "drain", "settle", "done"} \cup Serving

Phases  == {"starting", "draining", "disabled", "gaming", "degraded", "power-suspended",
            "resource-constrained", "ready"}
Reasons == {"none", "operator-disabled", "gaming-active-work", "gaming-host-teardown",
            "excess-workers", "advertisement-budget-exhausted"}
Codes   == {"invalid-resource-observation", "orphaned-busy-worker",
            "orphaned-worker-retirement-deferred", "invalid-desired-mode",
            "assigned-job-capacity-unavailable", "invalid-capacity-override",
            "worker-memory-budget-exceeds-engine-memory", "capacity-below-busy-count",
            "pool-unavailable", "invalid-assigned-job-count",
            "assigned-job-count-exceeds-pool-cap"}
Plans   == [phase : Phases, reason : Reasons, left : Nat, startDesktop : BOOLEAN,
            stopDesktop : BOOLEAN, shutdownWSL : BOOLEAN, problems : SUBSET Codes]

\* Every pool has its part of every count, and the memory fits its word.
PlanTypeOK ==
    /\ in \in Observations /\ pass \in Passes /\ turn \in Targets
    /\ advertised \in Counts /\ desired \in Counts /\ start \in Counts /\ remove \in Counts
    /\ counted \in Counts /\ clamped \subseteq Targets
    /\ slots \in Nat /\ memory \in 0..(Word - 1) /\ budget \in Nat
    /\ open \subseteq Targets /\ kept \subseteq Targets
    /\ plan \in Plans

\* Where BuildPlan can be for this observation, and what is still untouched there.
Course ==
    /\ pass \in {"drain", "settle"} => MustDrain
    /\ pass \in Serving => ~MustDrain /\ HostWorkerLimit >= 0
    /\ pass = "begin" => turn = 1 /\ start = Zero /\ desired = Zero /\ remove = Zero /\ clamped = {}
                         /\ counted = Zero
    /\ MustDrain \/ pass \in {"begin", "assigned", "warm", "place"} => advertised = Zero
    /\ MustDrain /\ pass # "begin" => remove = SafeRemovals([t \in Targets |-> Uncovered(t)])

\* A drain starts workers from the free slots only.
DrainInv ==
    /\ pass = "drain" => \A t \in Targets : t >= turn => start[t] = 0
    /\ MustDrain /\ pass # "begin" =>
         /\ Total(start) <= DrainSlots
         /\ pass \in {"drain", "settle"} => slots + Total(start) = DrainSlots
         /\ \A t \in Targets :
              start[t] > 0 => DrainSlots > 0 /\ in.spare[t] + start[t] <= in.drain[t]

\* Nothing is taken down before a plan is complete, nor then with work about.
TeardownInv ==
    plan.stopDesktop \/ plan.shutdownWSL
    => pass = "done" /\ MustDrain /\ BusyWorkers = 0 /\ ~Outstanding /\ ~Starts

\* Slots become workers; advertisements come out of one budget.
SlotsInv ==
    /\ pass \in {"assigned", "warm", "place"} =>
         slots + Total(desired) = Larger(HostWorkerLimit - BusyWorkers, 0) + Total(in.busy)
    /\ pass \in {"burst", "service", "finish"} => Total(advertised) + budget = HostWorkerLimit
    /\ pass = "done" => Total(advertised) <= Larger(HostWorkerLimit, 0)
    /\ \A t \in Targets : /\ counted[t] <= in.spare[t]
                          /\ desired[t] <= Larger(MaxCapacity[t], in.busy[t]) \/ MustDrain
                          /\ advertised[t] <= Larger(MaxCapacity[t], in.busy[t])

\* A pool short of workers for its assigned jobs; no pool with more than those.
Lacking(t) == in.ready[t] /\ t \notin clamped /\ desired[t] < Requested(t)
NoWarm     == \A u \in Targets : desired[u] <= Requested(u)

\* An assignment that lacks workers, and not for want of memory, met no free slot.
PriorityInv ==
    /\ pass = "assigned" => NoWarm /\ \A t \in Targets : t < turn /\ Lacking(t) => slots = 0
    /\ pass = "warm" => \A t \in Targets : Lacking(t) => slots = 0 /\ NoWarm
    /\ pass \in {"place", "burst", "service", "finish", "done"} /\ ~MustDrain =>
         \A t \in Targets : Lacking(t) => NoWarm

\* Memory is only spent.
MemoryInv == IF pass = "begin" THEN memory = 0 ELSE memory <= MemoryBasis

IInv == /\ PlanTypeOK /\ Course /\ DrainInv /\ TeardownInv /\ SlotsInv /\ PriorityInv
        /\ MemoryInv

-----------------------------------------------------------------------------
\* affordableWorkerCount divides: the workers it affords fit into the memory it was given.
LEMMA Division ==
  ASSUME NEW a \in Nat, NEW w \in Nat, NEW k \in Nat, k <= AffordableWorkerCount(a, w)
  PROVE  k * w \in Nat /\ k * w <= a
<1>1. k * w \in Nat BY SMT
<1>2. CASE w = 0 BY SMT, <1>2
<1>3. CASE w # 0
  <2> DEFINE q == a \div w
  <2>1. q \in Nat /\ q * w <= a BY SMT, <1>3
  <2>2. k <= q BY <1>3 DEF AffordableWorkerCount
  <2> HIDE DEF q
  <2>3. k * w <= q * w BY SMT, <2>1, <2>2
  <2> QED BY SMT, <1>1, <2>1, <2>3
<1> QED BY <1>2, <1>3

\* Taking affordable workers out of the remaining memory never wraps the unsigned counter.
LEMMA Spending ==
  ASSUME NEW a \in 0..(Word - 1), NEW w \in Nat, NEW k \in Nat,
         k <= AffordableWorkerCount(a, w)
  PROVE  Subtract(a, k * w) \in 0..(Word - 1) /\ Subtract(a, k * w) <= a
<1>0. Word \in Nat /\ Word > 0 BY SMT, PlanAssumption
<1> DEFINE p == k * w
<1>1. p \in Nat /\ p <= a BY SMT, Division
<1> HIDE DEF p
<1>2. a - p \in 0..(Word - 1) /\ a - p <= a BY SMT, <1>0, <1>1
<1>3. (a - p) % Word = a - p BY SMT, <1>0, <1>2
<1> QED BY <1>2, <1>3 DEF Subtract, p

\* What BuildPlan computes of a whole observation: the limit may be negative, as an override
\* may, but the counts are naturals and the memory to share fits the word.
LEMMA InputTypes ==
  ASSUME in \in Observations
  PROVE  /\ HostWorkerLimit \in Int /\ BusyWorkers \in Nat /\ ActiveWorkers \in Nat
         /\ Total(in.busy) \in Nat /\ Total(in.busy) <= BusyWorkers
         /\ MemoryBasis \in 0..(Word - 1)
         /\ DrainSlots \in Nat /\ (DrainSlots > 0 => DrainSlots = HostWorkerLimit - ActiveWorkers)
<1> USE PlanAssumption
<1>1. /\ in.busy \in Counts /\ in.spare \in Counts /\ in.profiled \in Counts
      /\ in.orphan \in [busy : Nat, spare : Nat, profiled : Nat] /\ in.limits \in Nat
      /\ in.limit \in Int /\ in.override \in BOOLEAN /\ in.present \in BOOLEAN
      /\ in.total \in 0..(Word - 1) /\ in.available \in 0..(Word - 1)
      /\ in.engine \in 0..(Word - 1) /\ in.budget \in 0..(Word - 1)
  BY DEF Observations
<1>2. in.orphan.busy \in Nat /\ in.orphan.spare \in Nat /\ in.orphan.profiled \in Nat BY <1>1
<1>3. ASSUME NEW f \in Counts PROVE f \in Numbers /\ Total(f) \in Nat
  <2>1. f \in Numbers /\ Zero \in Numbers /\ \A t \in Targets : Zero[t] <= f[t]
    BY SMT DEF Numbers, Counts, Zero
  <2>2. Total(f) \in Int /\ 0 <= Total(f) BY <2>1, TotalType, TotalMonotone, TotalZero
  <2> QED BY SMT, <2>1, <2>2
<1>4. Total(in.busy) \in Nat /\ Total(in.spare) \in Nat BY <1>1, <1>3
<1>5. BusyWorkers \in Nat /\ Total(in.busy) <= BusyWorkers BY SMT, <1>2, <1>4 DEF BusyWorkers
<1>6. ActiveWorkers \in Nat BY SMT, <1>2, <1>4, <1>5 DEF ActiveWorkers
<1>7. HostWorkerLimit \in Int
  BY SMT, <1>1 DEF HostWorkerLimit, EffectiveMaximumConcurrentWorkers
<1>8. DrainSlots \in Nat /\ (DrainSlots > 0 => DrainSlots = HostWorkerLimit - ActiveWorkers)
  BY SMT, <1>6, <1>7 DEF DrainSlots, Larger
<1>9. ActiveWorkerReservations \in Nat
  <2> DEFINE held == [t \in Targets |-> in.profiled[t] * Memory[t]]
  <2>1. ASSUME NEW t \in Targets PROVE in.profiled[t] * Memory[t] \in Nat
    <3>1. in.profiled[t] \in Nat /\ Memory[t] \in Nat BY <1>1 DEF Counts
    <3> QED BY SMT, <3>1
  <2>2. held \in Counts BY <2>1 DEF Counts
  <2>3. Total(held) \in Nat BY <2>2, <1>3
  <2>4. in.orphan.profiled * DefaultMemory \in Nat BY SMT, <1>2
  <2> QED BY SMT, <1>1, <2>3, <2>4 DEF ActiveWorkerReservations
<1>10. MemoryBasis \in 0..(Word - 1)
  <2>1. AvailableMemoryHeadroom \in 0..(Word - 1) BY SMT, <1>1 DEF AvailableMemoryHeadroom
  <2>2. ASSUME NEW whole \in 0..(Word - 1)
        PROVE  Larger(whole - ActiveWorkerReservations, 0) \in 0..(Word - 1)
    BY SMT, <1>9 DEF Larger
  <2>3. (IF BudgetClamped THEN in.engine ELSE in.budget) \in 0..(Word - 1) BY <1>1
  <2> QED BY <2>1, <2>2, <2>3 DEF MemoryBasis
<1> QED BY <1>4, <1>5, <1>6, <1>7, <1>8, <1>10

\* What BuildPlan computes of one pool's observation, and how its three requests are ordered.
LEMMA PoolTypes ==
  ASSUME in \in Observations, NEW t \in Targets
  PROVE  /\ in.busy[t] \in Nat /\ in.spare[t] \in Nat /\ in.assigned[t] \in Int
         /\ in.drain[t] \in Nat /\ in.previous[t] \in Nat /\ in.ready[t] \in BOOLEAN
         /\ MaxCapacity[t] \in Nat /\ WarmIdle[t] \in Nat /\ Memory[t] \in Nat
         /\ IncreaseMargin[t] \in Nat
         /\ Uncovered(t) \in Nat
         /\ Reserved(t) \in Nat /\ Requested(t) \in Nat /\ WithWarmIdle(t) \in Nat
         /\ Reserved(t) <= Requested(t) /\ in.busy[t] <= Requested(t)
         /\ Requested(t) <= WithWarmIdle(t)
         /\ WithWarmIdle(t) <= Larger(MaxCapacity[t], in.busy[t])
<1>1. /\ in.busy[t] \in Nat /\ in.spare[t] \in Nat /\ in.assigned[t] \in Int
      /\ in.drain[t] \in Nat /\ in.previous[t] \in Nat /\ in.ready[t] \in BOOLEAN
  BY DEF Observations, Counts
<1>2. /\ MaxCapacity[t] \in Nat /\ WarmIdle[t] \in Nat /\ Memory[t] \in Nat
      /\ IncreaseMargin[t] \in Nat
  BY PlanAssumption DEF Counts
<1>3. Uncovered(t) \in Nat BY SMT, <1>1 DEF Uncovered, Larger
<1>4. Reserved(t) \in Nat /\ Reserved(t) <= MaxCapacity[t]
  BY SMT, <1>1, <1>2 DEF Reserved, Larger, Smaller
<1>5. /\ Requested(t) \in Nat /\ Reserved(t) <= Requested(t) /\ in.busy[t] <= Requested(t)
      /\ Requested(t) <= Larger(MaxCapacity[t], in.busy[t])
  BY SMT, <1>1, <1>2, <1>4 DEF Requested, Larger
<1>6. /\ WithWarmIdle(t) \in Nat /\ Requested(t) <= WithWarmIdle(t)
      /\ WithWarmIdle(t) <= Larger(MaxCapacity[t], in.busy[t])
  BY SMT, <1>1, <1>2, <1>4, <1>5 DEF WithWarmIdle, Larger, Smaller
<1> QED BY <1>1, <1>2, <1>3, <1>4, <1>5, <1>6

\* BuildPlan computes the same of the same observation.
LEMMA SameInput ==
  ASSUME in' = in
  PROVE  /\ HostWorkerLimit' = HostWorkerLimit /\ BusyWorkers' = BusyWorkers
         /\ ActiveWorkers' = ActiveWorkers /\ MemoryBasis' = MemoryBasis
         /\ DrainSlots' = DrainSlots /\ MustDrain' = MustDrain /\ Outstanding' = Outstanding
         /\ \A t : Requested(t)' = Requested(t) /\ Uncovered(t)' = Uncovered(t)
         /\ SafeRemovals([t \in Targets |-> Uncovered(t)])'
              = SafeRemovals([t \in Targets |-> Uncovered(t)])
<1>1. HostWorkerLimit' = HostWorkerLimit
  BY DEF HostWorkerLimit, InteractiveCapActive, EffectiveMaximumConcurrentWorkers
<1>2. BusyWorkers' = BusyWorkers BY DEF BusyWorkers
<1>3. ActiveWorkers' = ActiveWorkers BY <1>2 DEF ActiveWorkers
<1>4. MemoryBasis' = MemoryBasis
  <2>1. ActiveWorkerReservations' = ActiveWorkerReservations BY DEF ActiveWorkerReservations
  <2>2. AvailableMemoryHeadroom' = AvailableMemoryHeadroom
    BY DEF AvailableMemoryHeadroom, ValidMemory
  <2>3. BudgetActive' = BudgetActive /\ BudgetClamped' = BudgetClamped
    BY DEF BudgetActive, BudgetClamped
  <2> QED BY <2>1, <2>2, <2>3 DEF MemoryBasis
<1>5. DrainSlots' = DrainSlots BY <1>1, <1>3 DEF DrainSlots
<1>6. MustDrain' = MustDrain BY DEF MustDrain, EngineReady
<1>7. \A t : Uncovered(t)' = Uncovered(t) BY DEF Uncovered
<1>8. \A t : Requested(t)' = Requested(t) BY DEF Requested, Reserved
<1>9. Outstanding' = Outstanding BY <1>7 DEF Outstanding
<1>10. SafeRemovals([t \in Targets |-> Uncovered(t)])'
              = SafeRemovals([t \in Targets |-> Uncovered(t)])
  BY <1>7 DEF SafeRemovals
<1> QED BY <1>1, <1>2, <1>3, <1>4, <1>5, <1>6, <1>7, <1>8, <1>9, <1>10

\* emptyPlan takes nothing down.
LEMMA EmptyType ==
  \A input : /\ Empty(input) \in Plans
             /\ ~Empty(input).stopDesktop /\ ~Empty(input).shutdownWSL
<1> SUFFICES ASSUME NEW input
             PROVE  /\ Empty(input) \in Plans
                    /\ ~Empty(input).stopDesktop /\ ~Empty(input).shutdownWSL
  OBVIOUS
<1> DEFINE seen == IF input.observed THEN {} ELSE {"invalid-resource-observation"}
           busy == IF input.orphan.busy > 0 THEN {"orphaned-busy-worker"} ELSE {}
           idle == IF input.orphan.spare > 0 THEN {"orphaned-worker-retirement-deferred"} ELSE {}
           found == seen \cup busy \cup idle
<1>1. seen \subseteq Codes /\ busy \subseteq Codes /\ idle \subseteq Codes BY DEF Codes
<1>2. found \in SUBSET Codes
  <2> HIDE DEF seen, busy, idle
  <2> QED BY <1>1
<1>3. Empty(input) = [phase |-> "starting", reason |-> "none", left |-> 0,
                      startDesktop |-> FALSE, stopDesktop |-> FALSE, shutdownWSL |-> FALSE,
                      problems |-> found]
  BY DEF Empty
<1>4. "starting" \in Phases BY DEF Phases
<1>5. "none" \in Reasons BY DEF Reasons
<1> HIDE DEF found
<1>6. ~Empty(input).stopDesktop /\ ~Empty(input).shutdownWSL BY SMT, <1>3
<1>7. Empty(input) \in Plans BY SMT, <1>2, <1>3, <1>4, <1>5 DEF Plans
<1> QED BY <1>6, <1>7

\* The invariant holds when BuildPlan is called for the first time.
LEMMA InitInv == PlanInit => IInv
<1> SUFFICES ASSUME PlanInit PROVE IInv
  OBVIOUS
<1> USE PlanAssumption
<1>0. Zero \in Counts /\ in \in Observations /\ 1 \in Targets
  BY SMT DEF PlanInit, Zero, Counts, Targets
<1>1. PlanTypeOK
  <2>1. Empty(in) \in Plans BY EmptyType
  <2> QED BY SMT, <1>0, <2>1 DEF PlanInit, PlanTypeOK, Passes
<1>2. Course /\ DrainInv /\ PriorityInv /\ MemoryInv
  BY DEF PlanInit, Course, DrainInv, PriorityInv, MemoryInv, Serving
<1>3. TeardownInv BY DEF PlanInit, TeardownInv, Empty
<1>4. SlotsInv
  <2>1. ASSUME NEW t \in Targets
        PROVE  /\ counted[t] <= in.spare[t]
               /\ desired[t] <= Larger(MaxCapacity[t], in.busy[t])
               /\ advertised[t] <= Larger(MaxCapacity[t], in.busy[t])
    BY SMT, <1>0, PoolTypes DEF PlanInit, Zero, Larger
  <2> QED BY <2>1 DEF PlanInit, SlotsInv
<1> QED BY <1>1, <1>2, <1>3, <1>4 DEF IInv

\* safeRemovals counts workers.
LEMMA RemovalsType ==
  ASSUME in \in Observations, NEW keep \in Counts PROVE SafeRemovals(keep) \in Counts
<1>1. ASSUME NEW t \in Targets PROVE Larger(in.spare[t] - keep[t], 0) \in Nat
  BY SMT, PoolTypes DEF Larger, Counts
<1> QED BY <1>1 DEF SafeRemovals, Counts

\* A drain begins with the removals of the spare workers no assignment needs.
LEMMA BeginDrainInv == ASSUME IInv, BeginDrain PROVE IInv'
<1>0. in \in Observations /\ in' = in BY DEF IInv, PlanTypeOK, BeginDrain
<1> USE <1>0
<1>s. /\ start = Zero /\ desired = Zero /\ counted = Zero /\ clamped = {} /\ advertised = Zero
      /\ pass = "begin" /\ pass' = "drain" /\ MustDrain /\ slots' = DrainSlots
      /\ memory' = MemoryBasis
      /\ UNCHANGED <<turn, start, desired, counted, clamped, advertised, plan>>
  BY DEF IInv, Course, BeginDrain
<1>z. Zero \in Counts /\ \A t \in Targets : Zero[t] = 0 BY DEF Zero, Counts
<1>1. PlanTypeOK'
  <2>1. [t \in Targets |-> Uncovered(t)] \in Counts BY PoolTypes DEF Counts
  <2>2. remove' \in Counts BY <2>1, RemovalsType DEF BeginDrain
  <2> QED BY <1>s, <2>2, InputTypes DEF IInv, PlanTypeOK, BeginDrain, Passes
<1>2. Course'
  BY <1>s, SameInput DEF IInv, Course, BeginDrain, Serving
<1>3. DrainInv'
  <2>1. Total(start') = 0 /\ DrainSlots \in Nat BY <1>s, TotalZero, InputTypes
  <2> QED BY SMT, <1>s, <1>z, <2>1, SameInput DEF DrainInv
<1>4. TeardownInv' BY <1>s, SameInput DEF IInv, TeardownInv
<1>5. SlotsInv'
  <2>1. ASSUME NEW t \in Targets
        PROVE  /\ counted'[t] <= in'.spare[t]
               /\ advertised'[t] <= Larger(MaxCapacity[t], in'.busy[t])
    BY SMT, <1>s, <1>z, PoolTypes DEF Larger
  <2> QED BY <2>1, <1>s, SameInput DEF SlotsInv
<1>6. PriorityInv' BY <1>s DEF PriorityInv
<1>7. MemoryInv' BY SMT, <1>s, SameInput, InputTypes DEF MemoryInv
<1> QED BY <1>1, <1>2, <1>3, <1>4, <1>5, <1>6, <1>7 DEF IInv

\* A loop over the pools takes the next pool, or goes on to the next loop after the last one.
LEMMA Turns ==
  ASSUME NEW next \in Passes, NextTurn(next), turn \in Targets, pass \in Passes
  PROVE  /\ turn' \in Targets /\ pass' \in Passes
         /\ \/ pass' = pass /\ turn' = turn + 1
            \/ pass' = next /\ turn' = 1 /\ turn = PoolCount
BY SMT, PlanAssumption DEF NextTurn, Targets

\* A drain starts a pool's workers from the free slots, and only up to its assignments.
LEMMA DrainStartType ==
  ASSUME PlanTypeOK, NEW t \in Targets
  PROVE  /\ DrainStart(t) \in Nat /\ DrainStart(t) <= slots
         /\ DrainStart(t) > 0 => in.spare[t] + DrainStart(t) <= in.drain[t]
         /\ MemoryKnown => DrainStart(t) <= AffordableWorkerCount(memory, Memory[t])
<1>0. slots \in Nat /\ memory \in Nat /\ in \in Observations
  BY SMT, PlanAssumption DEF PlanTypeOK
<1>1. /\ in.spare[t] \in Nat /\ in.drain[t] \in Nat /\ MaxCapacity[t] \in Nat
      /\ Memory[t] \in Nat /\ Uncovered(t) \in Nat
  BY <1>0, PoolTypes
<1>2. AffordableWorkerCount(memory, Memory[t]) \in Nat
  BY SMT, <1>0, <1>1 DEF AffordableWorkerCount
<1>3. Affordable(t) \in Nat /\ Affordable(t) <= AffordableWorkerCount(memory, Memory[t])
  BY SMT, <1>2 DEF Affordable
<1> DEFINE serviceable == Smaller(Smaller(Uncovered(t), in.drain[t]), MaxCapacity[t])
           wanted == Smaller(Larger(0, serviceable - in.spare[t]), slots)
<1>4. serviceable \in Nat /\ serviceable <= in.drain[t] BY SMT, <1>1 DEF Smaller
<1> HIDE DEF serviceable
<1>5. /\ wanted \in Nat /\ wanted <= slots
      /\ wanted > 0 => in.spare[t] + wanted <= in.drain[t]
  BY SMT, <1>0, <1>1, <1>4 DEF Smaller, Larger
<1>6. DrainStart(t) = IF MemoryKnown THEN Smaller(wanted, Affordable(t)) ELSE wanted
  BY DEF DrainStart, serviceable
<1> HIDE DEF wanted
<1> QED BY SMT, <1>0, <1>1, <1>2, <1>3, <1>5, <1>6 DEF Smaller

\* Counts can be totalled.
LEMMA CountsAreNumbers == Counts \subseteq Numbers
BY SMT DEF Counts, Numbers

\* applyOutstandingAssignments moves slots into starts, one pool at a time.
LEMMA ApplyInv == ASSUME IInv, ApplyOutstandingAssignments PROVE IInv'
<1>0. PlanTypeOK /\ in \in Observations /\ in' = in /\ turn \in Targets
  BY DEF IInv, PlanTypeOK, ApplyOutstandingAssignments
<1> USE <1>0
<1> DEFINE more == DrainStart(turn)
<1>s. /\ pass = "drain" /\ NextTurn("settle") /\ MustDrain
      /\ start' = [start EXCEPT ![turn] = more] /\ slots' = slots - more
      /\ UNCHANGED <<counted, clamped, advertised, remove, budget, open, kept>>
      /\ advertised = Zero
  BY DEF IInv, Course, ApplyOutstandingAssignments
<1>m. more \in Nat /\ more <= slots
      /\ (more > 0 => in.spare[turn] + more <= in.drain[turn])
      /\ (MemoryKnown => more <= AffordableWorkerCount(memory, Memory[turn]))
  BY DrainStartType
<1>d. desired' = [desired EXCEPT ![turn] =
                    in.busy[turn] + Smaller(Uncovered(turn), in.spare[turn] + more)]
  BY DEF ApplyOutstandingAssignments
<1>y. memory' \in 0..(Word - 1) /\ memory' <= memory
  <2>1. Memory[turn] \in Nat /\ memory \in 0..(Word - 1) /\ memory \in Nat
    BY SMT, PoolTypes, PlanAssumption DEF PlanTypeOK
  <2>2. memory' = IF MemoryKnown THEN Subtract(memory, more * Memory[turn]) ELSE memory
    BY DEF ApplyOutstandingAssignments
  <2>3. CASE MemoryKnown
    <3> HIDE DEF more
    <3> QED BY <2>1, <2>2, <2>3, <1>m, Spending
  <2>4. CASE ~MemoryKnown BY SMT, <2>1, <2>2, <2>4
  <2> QED BY <2>3, <2>4
<1>p. /\ plan' \in Plans /\ plan'.stopDesktop = plan.stopDesktop
      /\ plan'.shutdownWSL = plan.shutdownWSL
  <2> DEFINE short == Uncovered(turn) > in.spare[turn] + more
             up == plan.startDesktop \/ (more > 0 /\ ~EngineReady)
             found == IF short THEN plan.problems \cup {"assigned-job-capacity-unavailable"}
                      ELSE plan.problems
  <2>1. plan' = [plan EXCEPT !.startDesktop = up, !.problems = found]
    BY DEF ApplyOutstandingAssignments
  <2>2. plan \in Plans BY DEF PlanTypeOK
  <2>3. found \subseteq Codes BY <2>2 DEF Plans, Codes
  <2>4. up \in BOOLEAN BY <2>2 DEF Plans
  <2> HIDE DEF up, found
  <2> QED BY <2>1, <2>2, <2>3, <2>4 DEF Plans
<1>n. /\ turn' \in Targets /\ pass' \in {"drain", "settle"}
      /\ pass' = "drain" => turn' = turn + 1
  BY SMT, <1>s, Turns DEF PlanTypeOK, Passes
<1> HIDE DEF more
<1>1. PlanTypeOK'
  <2>1. slots' \in Nat BY SMT, <1>s, <1>m DEF PlanTypeOK
  <2>2. start' \in Counts BY <1>s, <1>m DEF PlanTypeOK, Counts
  <2>3. in.busy[turn] + Smaller(Uncovered(turn), in.spare[turn] + more) \in Nat
    BY SMT, <1>m, PoolTypes DEF Smaller
  <2>4. desired' \in Counts BY <1>d, <2>3 DEF PlanTypeOK, Counts
  <2> QED BY <1>s, <1>n, <1>y, <1>p, <2>1, <2>2, <2>4 DEF PlanTypeOK, Passes
<1>2. Course' BY <1>s, <1>n, SameInput DEF IInv, Course, Serving
<1>3. DrainInv'
  <2>1. start \in Counts /\ start[turn] = 0 BY SMT, <1>s DEF IInv, DrainInv, PlanTypeOK, Targets
  <2>e. start[turn] + more = more BY SMT, <2>1, <1>m
  <2>2. start' = [start EXCEPT ![turn] = @ + more] BY <2>e, <1>s
  <2>3. Total(start') = Total(start) + more /\ Total(start) \in Int
    <3>1. start \in Numbers /\ more \in Int BY SMT, <2>1, <1>m, CountsAreNumbers
    <3>2. Total([start EXCEPT ![turn] = @ + more]) = Total(start) + more BY <3>1, TotalBump
    <3> QED BY <2>2, <3>1, <3>2, TotalType
  <2>4. slots + Total(start) = DrainSlots /\ DrainSlots \in Nat /\ slots \in Nat
    BY <1>s, InputTypes DEF IInv, DrainInv, PlanTypeOK
  <2>5. slots' + Total(start') = DrainSlots /\ Total(start') <= DrainSlots
    BY SMT, <1>s, <1>m, <2>3, <2>4
  <2>6. ASSUME NEW t \in Targets, start'[t] > 0
        PROVE  DrainSlots > 0 /\ in.spare[t] + start'[t] <= in.drain[t]
    <3>1. CASE t = turn
      <4>1. start'[t] = more BY <3>1, <2>1, <1>s DEF Counts
      <4>2. slots <= DrainSlots
        <5>1. Zero \in Numbers /\ start \in Numbers /\ \A u \in Targets : Zero[u] <= start[u]
          BY SMT, <2>1, CountsAreNumbers DEF Zero, Numbers, Counts
        <5>2. 0 <= Total(start) BY <5>1, TotalMonotone, TotalZero
        <5> QED BY SMT, <5>2, <2>3, <2>4
      <4> QED BY SMT, <4>1, <4>2, <2>4, <2>6, <1>m, <3>1
    <3>2. CASE t # turn
      <4>1. start'[t] = start[t] BY <3>2, <2>1, <1>s DEF Counts
      <4> QED BY <4>1, <2>6, <1>s DEF IInv, DrainInv
    <3> QED BY <3>1, <3>2
  <2>7. pass' = "drain" => \A t \in Targets : t >= turn' => start'[t] = 0
    <3> SUFFICES ASSUME pass' = "drain", NEW t \in Targets, t >= turn' PROVE start'[t] = 0
      OBVIOUS
    <3>1. t >= turn /\ t # turn BY SMT, <1>n, PlanAssumption DEF Targets
    <3>2. start'[t] = start[t] BY <3>1, <2>1, <1>s DEF Counts
    <3> QED BY <3>1, <3>2, <1>s DEF IInv, DrainInv
  <2> QED BY <2>5, <2>6, <2>7, SameInput DEF DrainInv
<1>4. TeardownInv'
  BY <1>s, <1>p DEF IInv, TeardownInv
<1>5. SlotsInv'
  <2>1. \A t \in Targets : counted'[t] <= in'.spare[t]
                           /\ advertised'[t] <= Larger(MaxCapacity[t], in'.busy[t])
    BY <1>s DEF IInv, SlotsInv
  <2> QED BY <2>1, <1>s, <1>n, SameInput DEF SlotsInv
<1>6. PriorityInv' BY <1>n DEF PriorityInv
<1>7. MemoryInv'
  <2>1. memory <= MemoryBasis /\ memory \in Int /\ memory' \in Int /\ MemoryBasis \in Int
    BY SMT, <1>s, <1>y, InputTypes DEF IInv, MemoryInv, PlanTypeOK
  <2>2. memory' <= MemoryBasis BY SMT, <2>1, <1>y
  <2> QED BY <2>2, <1>n, SameInput DEF MemoryInv
<1> QED BY <1>1, <1>2, <1>3, <1>4, <1>5, <1>6, <1>7 DEF IInv

\* A plan that takes down what the other one does.
SameDown(p, q) == q \in Plans /\ q.stopDesktop = p.stopDesktop /\ q.shutdownWSL = p.shutdownWSL

\* Setting the phase of a plan takes nothing down.
LEMMA PhaseSet ==
  ASSUME NEW p \in Plans, NEW phase \in Phases PROVE SameDown(p, [p EXCEPT !.phase = phase])
BY DEF Plans, SameDown

\* quiesce takes nothing down.
LEMMA Quieted ==
  ASSUME NEW p \in Plans, NEW reason \in Reasons PROVE SameDown(p, Quiesce(p, reason))
<1>1. (IF p.reason = "none" THEN reason ELSE p.reason) \in Reasons BY DEF Plans
<1> QED BY <1>1 DEF Plans, SameDown, Quiesce

\* addProblem takes nothing down.
LEMMA ProblemAdded ==
  ASSUME NEW p \in Plans, NEW code \in Codes PROVE SameDown(p, AddProblem(p, code))
<1>1. p.problems \cup {code} \in SUBSET Codes BY DEF Plans
<1> QED BY <1>1 DEF Plans, SameDown, AddProblem

\* Reporting a drain takes nothing down.
LEMMA Draining ==
  ASSUME NEW p \in Plans, NEW reason \in Reasons
  PROVE  SameDown(p, Quiesce([p EXCEPT !.phase = "draining"], reason))
<1> DEFINE q == [p EXCEPT !.phase = "draining"]
<1>1. SameDown(p, q) BY PhaseSet DEF Phases
<1> HIDE DEF q
<1>2. SameDown(q, Quiesce(q, reason)) BY <1>1, Quieted DEF SameDown
<1> QED BY <1>1, <1>2 DEF SameDown, q

\* Reporting a degraded host takes nothing down.
LEMMA Degrading ==
  ASSUME NEW p \in Plans, NEW code \in Codes
  PROVE  SameDown(p, AddProblem([p EXCEPT !.phase = "degraded"], code))
<1> DEFINE q == [p EXCEPT !.phase = "degraded"]
<1>1. SameDown(p, q) BY PhaseSet DEF Phases
<1> HIDE DEF q
<1>2. SameDown(q, AddProblem(q, code)) BY <1>1, ProblemAdded DEF SameDown
<1> QED BY <1>1, <1>2 DEF SameDown, q

\* The gaming plan takes Desktop and WSL down only with no worker busy, no assignment
\* outstanding and no start planned.
LEMMA GamingPlanType ==
  ASSUME in \in Observations, plan \in Plans
  PROVE  /\ GamingPlan \in Plans
         /\ GamingPlan.stopDesktop \/ GamingPlan.shutdownWSL
            => plan.stopDesktop \/ plan.shutdownWSL \/ ~(BusyWorkers > 0 \/ Outstanding \/ Starts)
<1> DEFINE stop == in.desktop \/ in.engineUp
           down == [plan EXCEPT !.stopDesktop = stop, !.shutdownWSL = in.wsl]
           work == BusyWorkers > 0 \/ Outstanding \/ Starts
           busy == Quiesce([plan EXCEPT !.phase = "draining"], "gaming-active-work")
           tear == Quiesce([down EXCEPT !.phase = "draining"], "gaming-host-teardown")
           idle == [down EXCEPT !.phase = "gaming"]
<1>1. stop \in BOOLEAN /\ in.wsl \in BOOLEAN BY DEF Observations
<1>2. down \in Plans BY <1>1 DEF Plans
<1>3. /\ work => GamingPlan = busy
      /\ ~work => GamingPlan = tear \/ GamingPlan = idle
  <2> DEFINE gone == in.desktop \/ in.engineUp \/ in.wsl \/ ActiveWorkers > 0
  <2>1. GamingPlan = IF work THEN busy ELSE IF gone THEN tear ELSE idle BY DEF GamingPlan
  <2> HIDE DEF work, busy, gone, tear, idle
  <2> QED BY <2>1
<1>4. SameDown(plan, busy) BY Draining DEF Reasons
<1> HIDE DEF down
<1>5. SameDown(down, tear) BY <1>2, Draining DEF Reasons
<1>6. SameDown(down, idle) BY <1>2, PhaseSet DEF Phases
<1> HIDE DEF busy, tear, idle
<1>7. CASE work BY <1>3, <1>4, <1>7 DEF SameDown
<1>8. CASE ~work
  <2>1. GamingPlan \in Plans BY <1>3, <1>5, <1>6, <1>8 DEF SameDown
  <2> QED BY <2>1, <1>8 DEF work
<1> QED BY <1>7, <1>8

\* The end of a drain is the only step that may take Desktop or WSL down.
LEMMA EndDrainInv == ASSUME IInv, EndDrain PROVE IInv'
<1>0. PlanTypeOK /\ in \in Observations /\ in' = in /\ plan \in Plans
  BY DEF IInv, PlanTypeOK, EndDrain
<1> USE <1>0
<1>s. /\ pass = "settle" /\ pass' = "done" /\ MustDrain /\ advertised = Zero
      /\ UNCHANGED <<turn, advertised, desired, start, remove, clamped, slots, memory, budget,
                     counted, open, kept>>
  BY DEF IInv, Course, EndDrain, remaining
<1>p. /\ plan' \in Plans
      /\ plan'.stopDesktop \/ plan'.shutdownWSL
         => plan.stopDesktop \/ plan.shutdownWSL \/ ~(BusyWorkers > 0 \/ Outstanding \/ Starts)
  <2>1. CASE in.mode = "invalid"
    <3>1. plan' = AddProblem([plan EXCEPT !.phase = "degraded"], "invalid-desired-mode")
      BY <2>1 DEF EndDrain
    <3> QED BY <3>1, Degrading DEF Codes, SameDown
  <2>2. CASE in.mode = "disabled"
    <3>1. plan' = DisabledPlan BY <2>2 DEF EndDrain
    <3>2. \/ plan' = Quiesce([plan EXCEPT !.phase = "draining"], "operator-disabled")
          \/ plan' = [plan EXCEPT !.phase = "disabled"]
      BY <3>1 DEF DisabledPlan
    <3>3. CASE plan' = Quiesce([plan EXCEPT !.phase = "draining"], "operator-disabled")
      BY <3>3, Draining DEF Reasons, SameDown
    <3>4. CASE plan' = [plan EXCEPT !.phase = "disabled"]
      BY <3>4, PhaseSet DEF Phases, SameDown
    <3> QED BY <3>2, <3>3, <3>4
  <2>3. CASE in.mode = "gaming"
    <3>1. plan' = GamingPlan BY <2>3 DEF EndDrain
    <3> QED BY <3>1, GamingPlanType
  <2>4. CASE in.mode = "enabled"
    <3>1. in.power \in BOOLEAN BY DEF Observations
    <3>2. \/ plan' = [plan EXCEPT !.phase = "power-suspended"]
          \/ plan' = [plan EXCEPT !.phase = "resource-constrained"]
      BY <3>1, <2>4 DEF EndDrain
    <3> QED BY ZenonT(60), <3>2, PhaseSet DEF Phases, SameDown
  <2> QED BY <2>1, <2>2, <2>3, <2>4 DEF Observations
<1>1. PlanTypeOK' BY <1>s, <1>p DEF PlanTypeOK, Passes
<1>2. Course' BY <1>s, SameInput DEF IInv, Course, Serving
<1>3. DrainInv' BY <1>s, SameInput DEF IInv, DrainInv
<1>4. TeardownInv'
  <2>1. ~plan.stopDesktop /\ ~plan.shutdownWSL BY <1>s DEF IInv, TeardownInv
  <2>2. Starts' = Starts BY <1>s DEF Starts
  <2>3. BusyWorkers \in Nat BY InputTypes
  <2> QED BY SMT, <2>1, <2>2, <2>3, <1>s, <1>p, SameInput DEF TeardownInv
<1>5. SlotsInv'
  <2>1. Total(advertised') = 0 /\ HostWorkerLimit \in Int BY <1>s, TotalZero, InputTypes
  <2>2. Total(advertised') <= Larger(HostWorkerLimit, 0) BY SMT, <2>1 DEF Larger
  <2> QED BY <1>s, <2>2, SameInput DEF IInv, SlotsInv
<1>6. PriorityInv' BY <1>s, SameInput DEF PriorityInv
<1>7. MemoryInv' BY <1>s, SameInput DEF IInv, MemoryInv
<1> QED BY <1>1, <1>2, <1>3, <1>4, <1>5, <1>6, <1>7 DEF IInv

\* Starting Desktop ends the plan with nothing advertised.
LEMMA StartDesktopInv == ASSUME IInv, StartDesktop PROVE IInv'
<1>0. PlanTypeOK /\ in \in Observations /\ in' = in /\ plan \in Plans
  BY DEF IInv, PlanTypeOK, StartDesktop
<1> USE <1>0
<1>s. /\ pass = "begin" /\ pass' = "done" /\ ~MustDrain /\ advertised = Zero /\ desired = Zero
      /\ plan' = [plan EXCEPT !.startDesktop = TRUE, !.phase = "starting"]
      /\ UNCHANGED <<turn, advertised, desired, start, remove, clamped, slots, memory, budget,
                     counted, open, kept>>
  BY DEF IInv, Course, StartDesktop, remaining
<1>p. plan' \in Plans /\ plan'.stopDesktop = plan.stopDesktop
      /\ plan'.shutdownWSL = plan.shutdownWSL
  <2>1. "starting" \in Phases BY DEF Phases
  <2> QED BY <2>1, <1>s DEF Plans
<1>1. PlanTypeOK' BY <1>s, <1>p DEF PlanTypeOK, Passes
<1>2. Course' BY SMT, <1>s, SameInput DEF IInv, Course, Serving
<1>3. DrainInv' BY SMT, <1>s, SameInput DEF IInv, DrainInv
<1>4. TeardownInv' BY <1>s, <1>p, SameInput DEF IInv, TeardownInv
<1>5. SlotsInv'
  <2>1. Total(advertised') = 0 /\ HostWorkerLimit \in Int BY <1>s, TotalZero, InputTypes
  <2>2. Total(advertised') <= Larger(HostWorkerLimit, 0) BY SMT, <2>1 DEF Larger
  <2> QED BY <1>s, <2>2, SameInput DEF IInv, SlotsInv
<1>6. PriorityInv'
  <2>1. \A u \in Targets : desired'[u] <= Requested(u)' BY SMT, <1>s, PoolTypes, SameInput DEF Zero
  <2> QED BY <2>1, <1>s DEF PriorityInv, NoWarm
<1>7. MemoryInv'
  <2>1. memory' = 0 BY <1>s DEF IInv, MemoryInv
  <2>2. 0 <= MemoryBasis BY SMT, InputTypes, PlanAssumption
  <2> QED BY <1>s, <2>1, <2>2, SameInput DEF MemoryInv
<1> QED BY <1>1, <1>2, <1>3, <1>4, <1>5, <1>6, <1>7 DEF IInv

\* A negative override ends the plan with nothing advertised.
LEMMA RefuseOverrideInv == ASSUME IInv, RefuseOverride PROVE IInv'
<1>0. PlanTypeOK /\ in \in Observations /\ in' = in /\ plan \in Plans
  BY DEF IInv, PlanTypeOK, RefuseOverride
<1> USE <1>0
<1>s. /\ pass = "begin" /\ pass' = "done" /\ ~MustDrain /\ advertised = Zero /\ desired = Zero
      /\ remove' = SafeRemovals(Zero)
      /\ plan' = AddProblem([plan EXCEPT !.phase = "degraded"], "invalid-capacity-override")
      /\ UNCHANGED <<turn, advertised, desired, start, clamped, slots, memory, budget,
                     counted, open, kept>>
  BY DEF IInv, Course, RefuseOverride, remaining
<1>p. plan' \in Plans /\ plan'.stopDesktop = plan.stopDesktop
      /\ plan'.shutdownWSL = plan.shutdownWSL
  BY <1>s, Degrading DEF Codes, SameDown
<1>1. PlanTypeOK'
  <2>1. Zero \in Counts BY DEF Zero, Counts
  <2>2. remove' \in Counts BY <1>s, <2>1, RemovalsType
  <2> QED BY <1>s, <1>p, <2>2 DEF PlanTypeOK, Passes
<1>2. Course' BY SMT, <1>s, SameInput DEF IInv, Course, Serving
<1>3. DrainInv' BY SMT, <1>s, SameInput DEF IInv, DrainInv
<1>4. TeardownInv' BY <1>s, <1>p, SameInput DEF IInv, TeardownInv
<1>5. SlotsInv'
  <2>1. Total(advertised') = 0 /\ HostWorkerLimit \in Int BY <1>s, TotalZero, InputTypes
  <2>2. Total(advertised') <= Larger(HostWorkerLimit, 0) BY SMT, <2>1 DEF Larger
  <2> QED BY <1>s, <2>2, SameInput DEF IInv, SlotsInv
<1>6. PriorityInv'
  <2>1. \A u \in Targets : desired'[u] <= Requested(u)' BY SMT, <1>s, PoolTypes, SameInput DEF Zero
  <2> QED BY <2>1, <1>s DEF PriorityInv, NoWarm
<1>7. MemoryInv'
  <2>1. memory' = 0 BY <1>s DEF IInv, MemoryInv
  <2>2. 0 <= MemoryBasis BY SMT, InputTypes, PlanAssumption
  <2> QED BY <1>s, <2>1, <2>2, SameInput DEF MemoryInv
<1> QED BY <1>1, <1>2, <1>3, <1>4, <1>5, <1>6, <1>7 DEF IInv

\* Serving begins with the busy workers placed, and the slots and memory they leave.
LEMMA BeginServingInv == ASSUME IInv, BeginServing PROVE IInv'
<1>0. PlanTypeOK /\ in \in Observations /\ in' = in /\ plan \in Plans
  BY DEF IInv, PlanTypeOK, BeginServing
<1> USE <1>0
<1>s. /\ pass = "begin" /\ pass' = "assigned" /\ ~MustDrain /\ HostWorkerLimit >= 0
      /\ advertised = Zero /\ counted = Zero /\ desired' = in.busy
      /\ slots' = Larger(HostWorkerLimit - BusyWorkers, 0) /\ memory' = MemoryBasis
      /\ plan' = [plan EXCEPT !.problems = @ \cup ProblemsFound]
      /\ UNCHANGED <<turn, advertised, start, remove, clamped, budget, counted, open, kept>>
      /\ turn' = 1
  BY DEF IInv, Course, BeginServing
<1>p. plan' \in Plans /\ plan'.stopDesktop = plan.stopDesktop
      /\ plan'.shutdownWSL = plan.shutdownWSL
  <2>1. ProblemsFound \subseteq Codes BY DEF ProblemsFound, Codes
  <2>2. plan.problems \cup ProblemsFound \in SUBSET Codes BY <2>1 DEF Plans
  <2> QED BY <2>2, <1>s DEF Plans
<1>b. in.busy \in Counts BY DEF Observations
<1>1. PlanTypeOK'
  <2>1. slots' \in Nat BY SMT, <1>s, InputTypes DEF Larger
  <2> QED BY <1>s, <1>p, <1>b, <2>1, InputTypes DEF PlanTypeOK, Passes, Serving
<1>2. Course' BY SMT, <1>s, SameInput DEF IInv, Course, Serving
<1>3. DrainInv' BY SMT, <1>s, SameInput DEF IInv, DrainInv
<1>4. TeardownInv' BY <1>s, <1>p, SameInput DEF IInv, TeardownInv
<1>5. SlotsInv'
  <2>1. ASSUME NEW t \in Targets
        PROVE  /\ counted'[t] <= in'.spare[t]
               /\ desired'[t] <= Larger(MaxCapacity[t], in'.busy[t])
               /\ advertised'[t] <= Larger(MaxCapacity[t], in'.busy[t])
    BY SMT, <1>s, PoolTypes DEF Larger, Zero
  <2>2. slots' + Total(desired') = Larger(HostWorkerLimit - BusyWorkers, 0) + Total(in.busy)
    BY <1>s
  <2> QED BY <1>s, <2>1, <2>2, SameInput DEF SlotsInv
<1>6. PriorityInv'
  <2>1. \A u \in Targets : desired'[u] <= Requested(u)' BY <1>s, PoolTypes, SameInput
  <2>2. \A t \in Targets : ~(t < turn') BY SMT, <1>s, PlanAssumption DEF Targets
  <2> QED BY <2>1, <2>2, <1>s DEF PriorityInv, NoWarm
<1>7. MemoryInv'
  <2>1. MemoryBasis <= MemoryBasis BY SMT, InputTypes, PlanAssumption
  <2> QED BY <2>1, <1>s, SameInput DEF MemoryInv
<1> QED BY <1>1, <1>2, <1>3, <1>4, <1>5, <1>6, <1>7 DEF IInv
-----------------------------------------------------------------------------
(* The steps that allocate workers, and the theorems. *)
\* allocate gives a pool's request existing workers first, then starts, out of the free slots
\* and the remaining memory.
LEMMA AllocateInv == ASSUME IInv, Allocate PROVE IInv'
<1>0. PlanTypeOK /\ in \in Observations /\ in' = in /\ plan \in Plans /\ turn \in Targets
      /\ desired \in Counts /\ counted \in Counts /\ slots \in Nat
  BY DEF IInv, PlanTypeOK, Allocate
<1> USE <1>0
<1> DEFINE need     == IF in.ready[turn] THEN Larger(Request(turn) - desired[turn], 0) ELSE 0
           existing == Smaller(Smaller(need, in.spare[turn] - counted[turn]), slots)
           wanted   == Smaller(need - existing, slots - existing)
           starts   == Smaller(wanted, Affordable(turn))
           taken    == existing + starts
<1>s. /\ pass \in {"assigned", "warm"} /\ ~MustDrain /\ HostWorkerLimit >= 0
      /\ NextTurn(IF pass = "assigned" THEN "warm" ELSE "place")
      /\ desired' = [desired EXCEPT ![turn] = @ + existing + starts]
      /\ counted' = [counted EXCEPT ![turn] = @ + existing]
      /\ slots' = slots - existing - starts
      /\ memory' = Subtract(memory, starts * Memory[turn])
      /\ clamped' = IF starts < wanted THEN clamped \cup {turn} ELSE clamped
      /\ plan' = IF pass = "assigned" /\ existing + starts < need
                 THEN AddProblem(plan, "assigned-job-capacity-unavailable") ELSE plan
      /\ UNCHANGED <<advertised, start, remove, budget, open, kept>>
      /\ advertised = Zero
  BY DEF IInv, Course, Serving, Allocate
<1>t. /\ desired[turn] \in Nat /\ counted[turn] \in Nat /\ counted[turn] <= in.spare[turn]
      /\ in.spare[turn] \in Nat /\ Request(turn) \in Nat
      /\ Request(turn) <= Larger(MaxCapacity[turn], in.busy[turn])
      /\ pass = "assigned" => Request(turn) = Requested(turn)
      /\ MaxCapacity[turn] \in Nat /\ in.busy[turn] \in Nat
  <2>1. counted[turn] <= in.spare[turn] BY DEF IInv, SlotsInv
  <2>2. desired[turn] \in Nat /\ counted[turn] \in Nat BY DEF Counts
  <2>3. Request(turn) = Requested(turn) \/ Request(turn) = WithWarmIdle(turn) BY DEF Request
  <2>4. /\ Requested(turn) \in Nat /\ WithWarmIdle(turn) \in Nat
        /\ Requested(turn) <= WithWarmIdle(turn)
        /\ WithWarmIdle(turn) <= Larger(MaxCapacity[turn], in.busy[turn])
        /\ MaxCapacity[turn] \in Nat /\ in.busy[turn] \in Nat /\ in.spare[turn] \in Nat
    BY PoolTypes
  <2>5. Larger(MaxCapacity[turn], in.busy[turn]) \in Nat BY <2>4 DEF Larger
  <2>6. Request(turn) <= Larger(MaxCapacity[turn], in.busy[turn]) BY SMT, <2>3, <2>4, <2>5
  <2>7. pass = "assigned" => Request(turn) = Requested(turn) BY DEF Request
  <2> QED BY <2>1, <2>2, <2>3, <2>4, <2>6, <2>7
<1>a. /\ Affordable(turn) \in Nat
      /\ Affordable(turn) <= AffordableWorkerCount(memory, Memory[turn])
      /\ Memory[turn] \in Nat /\ memory \in 0..(Word - 1)
  <2>1. memory \in Nat /\ memory \in 0..(Word - 1) BY SMT, PlanAssumption DEF PlanTypeOK
  <2>2. Memory[turn] \in Nat BY PoolTypes
  <2>3. AffordableWorkerCount(memory, Memory[turn]) \in Nat
    BY SMT, <2>1, <2>2 DEF AffordableWorkerCount
  <2> QED BY SMT, <2>1, <2>2, <2>3 DEF Affordable
<1>b. /\ need \in Nat
      /\ need > 0 => desired[turn] + need = Request(turn)
      /\ in.ready[turn] /\ desired[turn] <= Request(turn) => desired[turn] + need = Request(turn)
  BY SMT, <1>t DEF Larger
<1> HIDE DEF need
<1>c. /\ existing \in Nat /\ existing <= need /\ existing <= slots
      /\ counted[turn] + existing <= in.spare[turn]
  BY SMT, <1>t, <1>b DEF Smaller
<1> HIDE DEF existing
<1>d. /\ wanted \in Nat /\ existing + wanted <= need /\ existing + wanted <= slots
      /\ existing + wanted < need => existing + wanted = slots
  BY SMT, <1>b, <1>c DEF Smaller
<1> HIDE DEF wanted
<1>e. starts \in Nat /\ starts <= wanted
      /\ starts <= AffordableWorkerCount(memory, Memory[turn])
  <2>1. AffordableWorkerCount(memory, Memory[turn]) \in Nat
    BY SMT, <1>a, PlanAssumption DEF AffordableWorkerCount
  <2> QED BY SMT, <1>a, <1>d, <2>1 DEF Smaller
<1> HIDE DEF starts
<1>f. /\ taken \in Nat /\ taken <= need /\ taken <= slots /\ slots' = slots - taken
      /\ taken < need /\ ~(starts < wanted) => slots' = 0
  <2>1. slots' = slots - taken BY SMT, <1>s, <1>c, <1>e
  <2>2. taken < need /\ ~(starts < wanted) => slots' = 0
    <3> SUFFICES ASSUME taken < need, ~(starts < wanted) PROVE slots' = 0
      OBVIOUS
    <3>1. starts = wanted BY SMT, <1>d, <1>e
    <3> QED BY SMT, <3>1, <2>1, <1>c, <1>d, <1>e
  <2>3. taken \in Nat /\ taken <= need /\ taken <= slots BY SMT, <1>b, <1>c, <1>d, <1>e
  <2> QED BY <2>1, <2>2, <2>3
<1>v. desired' = [desired EXCEPT ![turn] = @ + taken]
  <2>1. desired[turn] + existing + starts = desired[turn] + taken BY SMT, <1>c, <1>e, <1>t
  <2> QED BY <1>s, <2>1
<1> HIDE DEF taken
<1>z. slots = 0 => taken = 0 /\ slots' = 0
  BY SMT, <1>f
<1>g. /\ desired' \in Counts /\ desired'[turn] = desired[turn] + taken
      /\ \A t \in Targets : t # turn => desired'[t] = desired[t]
      /\ \A t \in Targets : desired'[t] >= desired[t]
  <2>1. desired' \in Counts /\ desired'[turn] = desired[turn] + taken
        /\ \A t \in Targets : t # turn => desired'[t] = desired[t]
    BY SMT, <1>f, <1>v, <1>t DEF Counts
  <2>2. ASSUME NEW t \in Targets PROVE desired'[t] >= desired[t]
    <3>1. desired[t] \in Nat BY DEF Counts
    <3> QED BY SMT, <3>1, <2>1, <1>f
  <2> QED BY <2>1, <2>2
<1>h. counted' \in Counts /\ \A t \in Targets : counted'[t] <= in.spare[t]
  <2>1. counted' \in Counts BY SMT, <1>s, <1>c, <1>t DEF Counts
  <2>2. ASSUME NEW t \in Targets PROVE counted'[t] <= in.spare[t]
    <3>1. CASE t = turn BY <3>1, <1>s, <1>c DEF Counts
    <3>2. CASE t # turn
      <4>1. counted'[t] = counted[t] BY <3>2, <1>s DEF Counts
      <4> QED BY <4>1 DEF IInv, SlotsInv
    <3> QED BY <3>1, <3>2
  <2> QED BY <2>1, <2>2
<1>y. memory' \in 0..(Word - 1) /\ memory' <= memory
  BY <1>s, <1>a, <1>e, Spending
<1>p. SameDown(plan, plan')
  <2>1. SameDown(plan, plan) BY DEF SameDown
  <2>2. SameDown(plan, AddProblem(plan, "assigned-job-capacity-unavailable"))
    BY ProblemAdded DEF Codes
  <2> QED BY <1>s, <2>1, <2>2
<1>n. /\ turn' \in Targets /\ pass' \in {"assigned", "warm", "place"}
      /\ \/ pass' = pass /\ turn' = turn + 1
         \/ pass = "assigned" /\ pass' = "warm" /\ turn = PoolCount
         \/ pass = "warm" /\ pass' = "place" /\ turn = PoolCount
  <2>1. CASE pass = "assigned"
    <3>1. NextTurn("warm") BY <1>s, <2>1
    <3> QED BY <3>1, <2>1, Turns DEF PlanTypeOK, Passes, Serving
  <2>2. CASE pass = "warm"
    <3>1. NextTurn("place") BY <1>s, <2>2
    <3> QED BY <3>1, <2>2, Turns DEF PlanTypeOK, Passes, Serving
  <2> QED BY <2>1, <2>2, <1>s
<1>1. PlanTypeOK'
  <2>1. slots' \in Nat BY SMT, <1>f
  <2>2. clamped' \subseteq Targets BY <1>s DEF PlanTypeOK
  <2> QED BY <1>s, <1>n, <1>y, <1>p, <1>g, <1>h, <2>1, <2>2
      DEF PlanTypeOK, Passes, Serving, SameDown
<1>k. /\ ~MustDrain' /\ HostWorkerLimit' >= 0 /\ advertised' = Zero
      /\ pass' \notin {"begin", "drain", "settle"}
  <2>1. HostWorkerLimit >= 0 /\ advertised = Zero BY ZenonT(60), <1>s DEF IInv, Course, Serving
  <2>2. MustDrain' = MustDrain /\ HostWorkerLimit' = HostWorkerLimit BY SameInput
  <2>3. pass' \notin {"begin", "drain", "settle"} BY <1>n
  <2> QED BY <2>1, <2>2, <2>3, <1>s
<1>2. Course' BY <1>k DEF Course
<1>3. DrainInv' BY <1>k DEF DrainInv
<1>4. TeardownInv'
  <2>1. ~plan.stopDesktop /\ ~plan.shutdownWSL BY <1>s DEF IInv, TeardownInv
  <2> QED BY <2>1, <1>p DEF TeardownInv, SameDown
<1>5. SlotsInv'
  <2>1. Total(desired') = Total(desired) + taken /\ Total(desired) \in Int
    <3>1. desired \in Numbers /\ taken \in Int BY SMT, <1>f, CountsAreNumbers
    <3>2. Total([desired EXCEPT ![turn] = @ + taken]) = Total(desired) + taken
      BY <3>1, TotalBump
    <3> QED BY <1>v, <3>1, <3>2, TotalType
  <2>2. slots + Total(desired) = Larger(HostWorkerLimit - BusyWorkers, 0) + Total(in.busy)
    BY <1>s DEF IInv, SlotsInv
  <2>3. slots' + Total(desired') = Larger(HostWorkerLimit - BusyWorkers, 0) + Total(in.busy)
    BY SMT, <1>f, <2>1, <2>2
  <2>4. ASSUME NEW t \in Targets PROVE desired'[t] <= Larger(MaxCapacity[t], in.busy[t])
    <3>1. desired[t] <= Larger(MaxCapacity[t], in.busy[t]) BY <1>s DEF IInv, SlotsInv
    <3>2. CASE t = turn
      <4>1. CASE need > 0
        <5>1. Larger(MaxCapacity[turn], in.busy[turn]) \in Nat BY <1>t DEF Larger
        <5>2. desired[turn] + taken <= Request(turn) BY SMT, <1>b, <1>f, <1>t, <4>1
        <5> QED BY SMT, <5>1, <5>2, <1>g, <1>t, <3>2, <1>f
      <4>2. CASE need = 0
        <5>1. desired'[turn] = desired[turn] BY SMT, <4>2, <1>f, <1>g, <1>t
        <5> QED BY <5>1, <3>1, <3>2
      <4> QED BY SMT, <4>1, <4>2, <1>b
    <3>3. CASE t # turn BY <3>1, <3>3, <1>g
    <3> QED BY <3>2, <3>3
  <2>5. \A t \in Targets : advertised'[t] <= Larger(MaxCapacity[t], in.busy[t])
    BY <1>s DEF IInv, SlotsInv
  <2> QED BY <1>n, <1>h, <2>3, <2>4, <2>5, SameInput DEF SlotsInv
<1>6. PriorityInv'
  <2>1. ASSUME NEW t \in Targets, Lacking(t)', t # turn \/ pass = "warm"
        PROVE  Lacking(t)
    <3>1. in.ready[t] /\ t \notin clamped' /\ desired'[t] < Requested(t)
      BY <2>1, SameInput DEF Lacking
    <3>2. t \notin clamped BY <3>1, <1>s
    <3>3. desired[t] \in Nat /\ desired'[t] \in Nat /\ Requested(t) \in Nat
      BY <1>g, PoolTypes DEF Counts
    <3>4. desired[t] < Requested(t) BY SMT, <3>1, <3>3, <1>g
    <3> QED BY <3>1, <3>2, <3>4 DEF Lacking
  <2>2. CASE pass = "assigned"
    <3>1. ASSUME NEW t \in Targets PROVE desired'[t] <= Requested(t)
      <4>1. desired[t] <= Requested(t) BY <2>2 DEF IInv, PriorityInv, NoWarm
      <4>2. CASE t # turn BY <4>1, <4>2, <1>g
      <4>3. CASE t = turn /\ need = 0 BY SMT, <4>1, <4>3, <1>f, <1>g, <1>t
      <4>4. CASE t = turn /\ need > 0
        BY SMT, <4>4, <2>2, <1>b, <1>f, <1>g, <1>t
      <4> QED BY SMT, <4>2, <4>3, <4>4, <1>b
    <3>2. NoWarm' BY <3>1, SameInput DEF NoWarm
    <3>3. ASSUME NEW t \in Targets, t <= turn, Lacking(t)' PROVE slots' = 0
      <4>1. CASE t = turn
        <5>1. in.ready[turn] /\ turn \notin clamped' /\ desired'[turn] < Requested(turn)
          BY <3>3, <4>1, SameInput DEF Lacking
        <5>2. ~(starts < wanted) BY <5>1, <1>s
        <5>3. desired[turn] <= Requested(turn) BY <2>2 DEF IInv, PriorityInv, NoWarm
        <5>4. desired[turn] + need = Requested(turn) BY <5>1, <5>3, <2>2, <1>b, <1>t
        <5>5. taken < need BY SMT, <5>1, <5>4, <1>b, <1>f, <1>g, <1>t
        <5> QED BY <5>2, <5>5, <1>f
      <4>2. CASE t # turn
        <5>1. Lacking(t) BY <2>1, <3>3, <4>2
        <5>2. t < turn BY SMT, <3>3, <4>2, PlanAssumption DEF Targets
        <5>3. slots = 0 BY <5>1, <5>2, <2>2 DEF IInv, PriorityInv
        <5> QED BY <5>3, <1>z
      <4> QED BY <4>1, <4>2
    <3>4. CASE pass' = "assigned"
      <4>1. turn' = turn + 1 BY <1>n, <2>2, <3>4
      <4>2. \A t \in Targets : t < turn' => t <= turn BY SMT, <4>1, PlanAssumption DEF Targets
      <4> QED BY <3>2, <3>3, <3>4, <4>2 DEF PriorityInv
    <3>5. CASE pass' = "warm"
      <4>1. turn = PoolCount BY <1>n, <2>2, <3>5
      <4>2. \A t \in Targets : t <= turn BY SMT, <4>1, PlanAssumption DEF Targets
      <4> QED BY <3>2, <3>3, <3>5, <4>2 DEF PriorityInv
    <3> QED BY <3>4, <3>5, <1>n, <2>2
  <2>3. CASE pass = "warm"
    <3>1. ASSUME NEW t \in Targets, Lacking(t)' PROVE slots' = 0 /\ NoWarm'
      <4>1. Lacking(t) BY <2>1, <3>1, <2>3
      <4>2. slots = 0 /\ NoWarm BY <4>1, <2>3 DEF IInv, PriorityInv
      <4>3. slots' = 0 /\ taken = 0 BY <4>2, <1>z
      <4>4. \A u \in Targets : desired'[u] = desired[u] BY SMT, <4>3, <1>g, <1>t
      <4> QED BY <4>2, <4>3, <4>4, SameInput DEF NoWarm
    <3>2. pass' \in {"warm", "place"} BY <1>n, <2>3
    <3> QED BY <3>1, <3>2 DEF PriorityInv
  <2> QED BY <2>2, <2>3, <1>s
<1>7. MemoryInv'
  <2>1. memory <= MemoryBasis /\ memory \in Int /\ memory' \in Int /\ MemoryBasis \in Int
    BY SMT, <1>s, <1>y, InputTypes DEF IInv, MemoryInv, PlanTypeOK
  <2>2. memory' <= MemoryBasis BY SMT, <2>1, <1>y
  <2> QED BY ZenonT(60), <2>2, <1>n, SameInput DEF MemoryInv
<1> QED BY <1>1, <1>2, <1>3, <1>4, <1>5, <1>6, <1>7 DEF IInv

\* What the steps after the allocation have in common.
LateStep == /\ pass \in {"place", "burst", "service", "finish"}
            /\ pass' \in {"burst", "service", "finish", "done"}
            /\ in' = in /\ desired' = desired /\ clamped \subseteq clamped'
            /\ memory' \in Int /\ memory' <= memory /\ SameDown(plan, plan')

\* Nothing after the allocation changes a pool's workers, takes memory back or takes the host
\* down.
LEMMA LateStepInv ==
  ASSUME IInv, LateStep PROVE Course' /\ DrainInv' /\ TeardownInv' /\ PriorityInv' /\ MemoryInv'
<1>0. PlanTypeOK /\ in \in Observations /\ in' = in BY DEF IInv, PlanTypeOK, LateStep
<1> USE <1>0
<1>s. ~MustDrain /\ HostWorkerLimit >= 0 /\ ~MustDrain' /\ HostWorkerLimit' >= 0
  BY SMT, SameInput DEF IInv, Course, Serving, LateStep
<1>2. Course' BY <1>s DEF Course, Serving, LateStep
<1>3. DrainInv' BY <1>s DEF DrainInv, LateStep
<1>4. TeardownInv'
  <2>1. ~plan.stopDesktop /\ ~plan.shutdownWSL BY <1>s DEF IInv, TeardownInv
  <2> QED BY <2>1 DEF TeardownInv, SameDown, LateStep
<1>6. PriorityInv'
  <2>1. ASSUME NEW t \in Targets, Lacking(t)' PROVE NoWarm'
    <3>1. Lacking(t) BY <2>1, SameInput DEF Lacking, LateStep
    <3>2. NoWarm BY <3>1, <1>s DEF IInv, PriorityInv, LateStep
    <3> QED BY <3>2, SameInput DEF NoWarm, LateStep
  <2> QED BY <2>1 DEF PriorityInv, LateStep
<1>7. MemoryInv'
  <2>1. memory <= MemoryBasis /\ memory \in Int /\ memory' \in Int /\ MemoryBasis \in Int
    BY SMT, InputTypes DEF IInv, MemoryInv, PlanTypeOK, LateStep
  <2>2. memory' <= MemoryBasis BY SMT, <2>1 DEF LateStep
  <2> QED BY <2>2, SameInput DEF MemoryInv, LateStep
<1> QED BY <1>2, <1>3, <1>4, <1>6, <1>7

\* What was placed is advertised out of one budget, the host's limit.
LEMMA PlaceInv == ASSUME IInv, Place PROVE IInv'
<1>0. PlanTypeOK /\ in \in Observations /\ in' = in /\ plan \in Plans /\ desired \in Counts
      /\ memory \in Int
  <2>1. PlanTypeOK /\ in' = in BY DEF IInv, Place
  <2>2. \A m \in 0..(Word - 1) : m \in Int BY SMT, PlanAssumption
  <2> QED BY <2>1, <2>2 DEF PlanTypeOK
<1> USE <1>0
<1>s. /\ pass = "place" /\ pass' = "burst" /\ ~MustDrain /\ HostWorkerLimit >= 0
      /\ start' = [t \in Targets |-> Larger(-Excess(t), 0)]
      /\ open' = {t \in Targets : Advertisable(t) /\ ~Ended(t)}
      /\ kept' = {t \in Targets : Burst(t)}
      /\ advertised' = [t \in Targets |-> IF t \in open' THEN desired[t] ELSE 0]
      /\ remove' = [t \in Targets |-> IF Ended(t) THEN Smaller(Excess(t), in.spare[t]) ELSE 0]
      /\ plan' = IF \E t \in Targets : Ended(t) THEN Quiesce(plan, "excess-workers") ELSE plan
      /\ budget' = Larger(HostWorkerLimit - Total(advertised'), 0)
      /\ UNCHANGED <<turn, desired, clamped, slots, memory, counted>>
  BY DEF IInv, Course, Serving, Place, AdvertisedBudget
<1>p. SameDown(plan, plan')
  <2>1. SameDown(plan, plan) BY DEF SameDown
  <2>2. SameDown(plan, Quiesce(plan, "excess-workers")) BY ZenonT(60), Quieted DEF Reasons
  <2> QED BY <1>s, <2>1, <2>2
<1>e. \A t \in Targets : Excess(t) \in Int /\ desired[t] \in Nat
  BY SMT, PoolTypes DEF Excess, Counts
<1>a. start' \in Counts /\ remove' \in Counts /\ advertised' \in Counts
  <2>1. ASSUME NEW t \in Targets
        PROVE  /\ Larger(-Excess(t), 0) \in Nat
               /\ (IF Ended(t) THEN Smaller(Excess(t), in.spare[t]) ELSE 0) \in Nat
               /\ (IF t \in open' THEN desired[t] ELSE 0) \in Nat
    <3>1. Excess(t) \in Int /\ desired[t] \in Nat /\ in.spare[t] \in Nat BY <1>e, PoolTypes
    <3>2. Ended(t) => Excess(t) > 0 BY DEF Ended
    <3> QED BY SMT, <3>1, <3>2 DEF Larger, Smaller
  <2> QED BY ZenonT(60), <1>s, <2>1 DEF Counts
<1>b. /\ Total(advertised') \in Nat /\ Total(advertised') <= HostWorkerLimit
      /\ HostWorkerLimit \in Int
  <2>1. advertised' \in Numbers /\ desired \in Numbers /\ Zero \in Numbers
    <3>1. Zero \in Counts BY SMT DEF Zero, Counts
    <3> QED BY <3>1, <1>a, CountsAreNumbers
  <2>2. \A t \in Targets : Zero[t] <= advertised'[t] /\ advertised'[t] <= desired[t]
    <3> SUFFICES ASSUME NEW t \in Targets
                 PROVE  Zero[t] <= advertised'[t] /\ advertised'[t] <= desired[t]
      OBVIOUS
    <3>1. Zero[t] = 0 /\ advertised'[t] = IF t \in open' THEN desired[t] ELSE 0
      BY <1>s DEF Zero
    <3>2. desired[t] \in Nat BY <1>e
    <3> QED BY SMT, <3>1, <3>2
  <2>3. /\ Total(advertised') \in Int /\ Total(desired) \in Int
        /\ 0 <= Total(advertised') /\ Total(advertised') <= Total(desired)
    BY <2>1, <2>2, TotalType, TotalMonotone, TotalZero
  <2>4. /\ HostWorkerLimit \in Int /\ BusyWorkers \in Nat /\ slots \in Nat
        /\ Total(in.busy) \in Nat /\ Total(in.busy) <= BusyWorkers
    BY ZenonT(60), InputTypes DEF PlanTypeOK
  <2>5. CASE CapacityDebt
    <3>1. open' = {} BY <1>s, <2>5 DEF Advertisable
    <3>2. advertised' = Zero BY <1>s, <3>1 DEF Zero
    <3>3. Total(advertised') = 0 BY <3>2, TotalZero
    <3>4. HostWorkerLimit >= 0 BY <1>s
    <3> QED BY SMT, <3>3, <3>4, <2>4
  <2>6. CASE ~CapacityDebt
    <3>1. BusyWorkers <= HostWorkerLimit BY SMT, <2>6, <2>4 DEF CapacityDebt
    <3>2. slots + Total(desired) = Larger(HostWorkerLimit - BusyWorkers, 0) + Total(in.busy)
      BY <1>s DEF IInv, SlotsInv
    <3>3. Larger(HostWorkerLimit - BusyWorkers, 0) = HostWorkerLimit - BusyWorkers
      BY SMT, <3>1, <2>4 DEF Larger
    <3> QED BY SMT, <3>1, <3>2, <3>3, <2>3, <2>4
  <2> QED BY <2>3, <2>4, <2>5, <2>6
<1>c. budget' \in Nat /\ Total(advertised') + budget' = HostWorkerLimit
  BY SMT, <1>s, <1>b DEF Larger
<1>1. PlanTypeOK' BY <1>s, <1>p, <1>a, <1>c DEF PlanTypeOK, Passes, Serving, SameDown
<1>2. Course' /\ DrainInv' /\ TeardownInv' /\ PriorityInv' /\ MemoryInv'
  <2>1. LateStep BY SMT, <1>s, <1>p DEF LateStep
  <2> QED BY <2>1, LateStepInv
<1>5. SlotsInv'
  <2>1. ASSUME NEW t \in Targets
        PROVE  /\ counted'[t] <= in'.spare[t]
               /\ desired'[t] <= Larger(MaxCapacity[t], in'.busy[t])
               /\ advertised'[t] <= Larger(MaxCapacity[t], in'.busy[t])
    <3>1. counted[t] <= in.spare[t] /\ desired[t] <= Larger(MaxCapacity[t], in.busy[t])
      BY <1>s DEF IInv, SlotsInv
    <3>2. 0 <= Larger(MaxCapacity[t], in.busy[t]) BY SMT, PoolTypes DEF Larger
    <3> QED BY <3>1, <3>2, <1>s
  <2> QED BY <1>s, <1>c, <2>1, SameInput DEF SlotsInv
<1> QED BY ZenonT(60), <1>1, <1>2, <1>5 DEF IInv

\* A burst candidate is advertised one more, out of the same budget.
LEMMA GrantBurstInv == ASSUME IInv, GrantBurst PROVE IInv'
<1>0. PlanTypeOK /\ in \in Observations /\ in' = in /\ plan \in Plans /\ advertised \in Counts
      /\ memory \in Int /\ budget \in Nat /\ remove \in Counts
  BY SMT DEF IInv, PlanTypeOK, GrantBurst
<1> USE <1>0
<1>1. PICK t \in kept :
         /\ kept' = kept \ {t}
         /\ LET more  == advertised[t] < MaxCapacity[t] /\ budget > 0
                ended == ~more /\ advertised[t] = 0
            IN /\ advertised' = IF more THEN [advertised EXCEPT ![t] = @ + 1] ELSE advertised
               /\ budget' = IF more THEN budget - 1 ELSE budget
               /\ open' = IF ended THEN open \ {t} ELSE open
               /\ remove' = IF ended THEN [remove EXCEPT ![t] = Smaller(1, in.spare[t])]
                            ELSE remove
               /\ plan' = IF ended THEN Quiesce(plan, "advertisement-budget-exhausted")
                          ELSE plan
  BY DEF GrantBurst
<1> DEFINE more  == advertised[t] < MaxCapacity[t] /\ budget > 0
           ended == ~more /\ advertised[t] = 0
<1>s. /\ pass = "burst" /\ pass' = "burst" /\ ~MustDrain /\ t \in Targets
      /\ UNCHANGED <<turn, desired, start, clamped, slots, memory, counted>>
      /\ kept' = kept \ {t}
      /\ advertised' = IF more THEN [advertised EXCEPT ![t] = @ + 1] ELSE advertised
      /\ budget' = IF more THEN budget - 1 ELSE budget
      /\ open' = IF ended THEN open \ {t} ELSE open
      /\ remove' = IF ended THEN [remove EXCEPT ![t] = Smaller(1, in.spare[t])] ELSE remove
      /\ plan' = IF ended THEN Quiesce(plan, "advertisement-budget-exhausted") ELSE plan
  BY <1>1 DEF IInv, Course, Serving, GrantBurst, PlanTypeOK
<1>p. SameDown(plan, plan')
  <2>1. SameDown(plan, plan) BY DEF SameDown
  <2>2. SameDown(plan, Quiesce(plan, "advertisement-budget-exhausted")) BY Quieted DEF Reasons
  <2> QED BY <1>s, <2>1, <2>2
<1>t. advertised[t] \in Nat /\ MaxCapacity[t] \in Nat /\ in.spare[t] \in Nat /\ in.busy[t] \in Nat
  BY <1>s, PoolTypes DEF Counts
<1>c. /\ advertised' \in Counts /\ remove' \in Counts /\ budget' \in Nat
      /\ Total(advertised') + budget' = HostWorkerLimit
  <2>1. remove' \in Counts
    <3>1. Smaller(1, in.spare[t]) \in Nat BY <1>t DEF Smaller
    <3> QED BY <3>1, <1>s DEF Counts
  <2>2. Total(advertised) + budget = HostWorkerLimit BY <1>s DEF IInv, SlotsInv
  <2>3. advertised \in Numbers /\ Total(advertised) \in Int BY CountsAreNumbers, TotalType
  <2>4. CASE more
    <3>1. Total([advertised EXCEPT ![t] = @ + 1]) = Total(advertised) + 1
      <4>0. 1 \in Int BY SMT
      <4>1. t \in Targets /\ 1 \in Int BY ZenonT(60), <4>0, <1>s
      <4> QED BY <2>3, <4>1, TotalBump
    <3>2. advertised' \in Counts BY SMT, <2>4, <1>s, <1>t DEF Counts
    <3>3. budget' = budget - 1 /\ budget > 0 BY <2>4, <1>s
    <3>4. Total(advertised') = Total(advertised) + 1 BY <3>1, <2>4, <1>s
    <3> QED BY SMT, <2>1, <2>2, <2>3, <3>2, <3>3, <3>4
  <2>5. CASE ~more BY <2>1, <2>2, <2>5, <1>s
  <2> QED BY <2>4, <2>5
<1>2. PlanTypeOK' BY <1>s, <1>p, <1>c DEF PlanTypeOK, Passes, Serving, SameDown
<1>3. Course' /\ DrainInv' /\ TeardownInv' /\ PriorityInv' /\ MemoryInv'
  <2>1. LateStep BY SMT, <1>s, <1>p DEF LateStep
  <2> QED BY ZenonT(60), <2>1, LateStepInv
<1>5. SlotsInv'
  <2>1. ASSUME NEW u \in Targets
        PROVE  /\ counted'[u] <= in'.spare[u]
               /\ desired'[u] <= Larger(MaxCapacity[u], in'.busy[u])
               /\ advertised'[u] <= Larger(MaxCapacity[u], in'.busy[u])
    <3>1. /\ counted[u] <= in.spare[u] /\ desired[u] <= Larger(MaxCapacity[u], in.busy[u])
          /\ advertised[u] <= Larger(MaxCapacity[u], in.busy[u])
      BY ZenonT(60), <1>s DEF IInv, SlotsInv
    <3>2. CASE u = t /\ more
      <4>1. advertised'[t] = advertised[t] + 1 BY <3>2, <1>s DEF Counts
      <4>2. advertised'[t] <= MaxCapacity[t] BY SMT, <4>1, <3>2, <1>t
      <4>3. MaxCapacity[t] <= Larger(MaxCapacity[t], in.busy[t])
            /\ Larger(MaxCapacity[t], in.busy[t]) \in Nat
        BY SMT, <1>t DEF Larger
      <4> QED BY SMT, <4>1, <4>2, <4>3, <3>1, <3>2, <1>s, <1>t
    <3>3. CASE ~(u = t /\ more)
      <4>1. advertised'[u] = advertised[u] BY <3>3, <1>s DEF Counts
      <4> QED BY <4>1, <3>1, <1>s
    <3> QED BY <3>2, <3>3
  <2> QED BY <1>s, <1>c, <2>1, SameInput DEF SlotsInv
<1> QED BY ZenonT(60), <1>2, <1>3, <1>5 DEF IInv

\* The service slots are what the limit leaves beside the workers there are and will be.
LEMMA BeginServiceInv == ASSUME IInv, BeginService PROVE IInv'
<1>0. PlanTypeOK /\ in \in Observations /\ in' = in /\ plan \in Plans /\ memory \in Int
  BY SMT DEF IInv, PlanTypeOK, BeginService
<1> USE <1>0
<1>s. /\ pass = "burst" /\ pass' \in {"finish", "service"} /\ ~MustDrain
      /\ slots' = Larger(HostWorkerLimit - ActiveWorkers - Total(start), 0)
      /\ UNCHANGED <<turn, advertised, desired, start, remove, clamped, plan, memory, budget,
                     counted, open, kept>>
  BY DEF IInv, Course, Serving, BeginService, planned
<1>p. SameDown(plan, plan') BY <1>s DEF SameDown
<1>a. slots' \in Nat
  <2>1. start \in Numbers BY CountsAreNumbers DEF PlanTypeOK
  <2>2. Total(start) \in Int BY <2>1, TotalType
  <2> QED BY SMT, <1>s, <2>2, InputTypes DEF Larger
<1>1. PlanTypeOK' BY <1>s, <1>a DEF PlanTypeOK, Passes, Serving
<1>2. Course' /\ DrainInv' /\ TeardownInv' /\ PriorityInv' /\ MemoryInv'
  <2>1. LateStep BY SMT, <1>s, <1>p DEF LateStep
  <2> QED BY <2>1, LateStepInv
<1>5. SlotsInv' BY <1>s, SameInput DEF IInv, SlotsInv
<1> QED BY <1>1, <1>2, <1>5 DEF IInv

\* A subtraction of no more than there is does not wrap.
LEMMA Subtraction ==
  ASSUME NEW a \in 0..(Word - 1), NEW p \in Nat, p <= a
  PROVE  Subtract(a, p) = a - p /\ a - p \in 0..(Word - 1) /\ a - p <= a
<1>0. Word \in Nat /\ Word > 0 BY SMT, PlanAssumption
<1>1. a - p \in 0..(Word - 1) /\ a - p <= a BY SMT, <1>0
<1>2. (a - p) % Word = a - p BY SMT, <1>0, <1>1
<1> QED BY <1>1, <1>2 DEF Subtract

\* affordableWorkerCount and its variant with a margin count workers.
LEMMA AffordableType ==
  ASSUME NEW a \in Nat, NEW w \in Nat, NEW margin \in Nat
  PROVE  /\ AffordableWorkerCount(a, w) \in Nat
         /\ AffordableWorkerCountWithMargin(a, w, margin) \in Nat
<1>1. \A b \in Nat : AffordableWorkerCount(b, w) \in Nat BY SMT DEF AffordableWorkerCount
<1>2. ~(a <= margin) => a - margin \in Nat BY SMT
<1> QED BY <1>1, <1>2 DEF AffordableWorkerCountWithMargin

\* The previous offer kept and the growth granted together fit into the pool's limit and into
\* the memory, though the growth is affordable only with its margin.
LEMMA Offer ==
  ASSUME NEW a \in 0..(Word - 1), NEW w \in Nat, NEW margin \in Nat, NEW limit \in Nat,
         NEW held \in Nat, held <= limit, held <= AffordableWorkerCount(a, w),
         NEW growth \in Nat, growth <= limit - held,
         growth <= AffordableWorkerCountWithMargin(Subtract(a, held * w), w, margin)
  PROVE  held + growth \in Nat /\ held + growth <= limit /\ (held + growth) * w <= a
<1>0. a \in Nat BY SMT, PlanAssumption
<1> DEFINE p == held * w
           left == a - p
           r == growth * w
<1>1. p \in Nat /\ p <= a BY <1>0, Division
<1> HIDE DEF p
<1>2. Subtract(a, p) = left /\ left \in Nat BY SMT, <1>0, <1>1, Subtraction
<1>3. growth <= AffordableWorkerCountWithMargin(left, w, margin) BY <1>2 DEF p
<1> HIDE DEF left
<1>4. r \in Nat /\ r <= left
  <2>1. CASE left <= margin
    <3>1. growth = 0 BY SMT, <1>3, <2>1 DEF AffordableWorkerCountWithMargin
    <3> QED BY SMT, <3>1, <1>2
  <2>2. CASE ~(left <= margin)
    <3> DEFINE rest == left - margin
    <3>1. rest \in Nat /\ rest <= left BY SMT, <2>2, <1>2
    <3>2. growth <= AffordableWorkerCount(rest, w)
      BY <1>3, <2>2 DEF AffordableWorkerCountWithMargin
    <3> HIDE DEF rest
    <3>3. r \in Nat /\ r <= rest BY <3>1, <3>2, Division
    <3> HIDE DEF r
    <3> QED BY SMT, <3>1, <3>3, <1>2
  <2> QED BY <2>1, <2>2
<1>5. (held + growth) * w = p + r BY SMT DEF p, r
<1> HIDE DEF r
<1>6. p + r <= a BY SMT, <1>0, <1>1, <1>4 DEF left
<1> QED BY SMT, <1>5, <1>6

\* A pool is offered service capacity within slots, budget, its maximum and the memory.
LEMMA OfferServiceInv == ASSUME IInv, OfferService PROVE IInv'
<1>0. PlanTypeOK /\ in \in Observations /\ in' = in /\ plan \in Plans /\ turn \in Targets
      /\ advertised \in Counts /\ slots \in Nat /\ budget \in Nat
      /\ memory \in 0..(Word - 1) /\ memory \in Nat /\ Word \in Nat
  <2>1. PlanTypeOK /\ in' = in BY DEF IInv, OfferService
  <2>2. Word \in Nat /\ Word > 0 BY SMT, PlanAssumption
  <2>3. \A m \in 0..(Word - 1) : m \in Nat BY SMT, <2>2
  <2> QED BY <2>1, <2>2, <2>3 DEF PlanTypeOK
<1> USE <1>0
<1> DEFINE limit  == Smaller(Smaller(MaxCapacity[turn] - advertised[turn], slots), budget)
           held   == Smaller(Held(limit, turn), AffordableWorkerCount(memory, Memory[turn]))
           growth == Growth(limit, held, turn)
           more   == held + growth
           looked == turn \in open /\ slots # 0
           given  == IF looked /\ more > 0 THEN more ELSE 0
<1>s. /\ pass = "service" /\ ~MustDrain
      /\ NextTurn("finish")
      /\ advertised' = [advertised EXCEPT ![turn] = @ + given]
      /\ slots' = slots - given /\ budget' = budget - given
      /\ memory' = Subtract(memory, given * Memory[turn])
      /\ clamped' = IF looked /\ more < limit THEN clamped \cup {turn} ELSE clamped
      /\ UNCHANGED <<desired, start, remove, plan, counted, open, kept>>
  BY DEF IInv, Course, Serving, OfferService
<1>t. /\ advertised[turn] \in Nat /\ MaxCapacity[turn] \in Nat /\ Memory[turn] \in Nat
      /\ IncreaseMargin[turn] \in Nat /\ in.previous[turn] \in Nat /\ in.busy[turn] \in Nat
      /\ AffordableWorkerCount(memory, Memory[turn]) \in Nat
  <2>1. /\ advertised[turn] \in Nat /\ MaxCapacity[turn] \in Nat /\ Memory[turn] \in Nat
        /\ IncreaseMargin[turn] \in Nat /\ in.previous[turn] \in Nat /\ in.busy[turn] \in Nat
    BY ZenonT(60), PoolTypes DEF Counts
  <2> QED BY <2>1, AffordableType
<1>a. /\ limit \in Int /\ limit <= slots /\ limit <= budget
      /\ advertised[turn] + limit <= MaxCapacity[turn]
  BY SMT, <1>t DEF Smaller
<1> HIDE DEF limit
<1>b. /\ held \in Int /\ held <= limit /\ held <= AffordableWorkerCount(memory, Memory[turn])
      /\ limit >= 0 => held \in Nat
      /\ limit < 0 => held = limit
  <2> DEFINE back == Larger(in.previous[turn] - advertised[turn], 0)
             could == AffordableWorkerCount(memory, Memory[turn])
  <2>1. back \in Nat BY SMT, <1>t DEF Larger
  <2>2. Held(limit, turn) = Smaller(limit, back) BY DEF Held
  <2>3. could \in Nat BY <1>t
  <2> HIDE DEF back, could
  <2>4. held = Smaller(Smaller(limit, back), could) BY <2>2 DEF could
  <2> HIDE DEF held
  <2>5. held \in Int /\ held <= limit /\ held <= could
        /\ (limit >= 0 => held \in Nat) /\ (limit < 0 => held = limit)
    BY SMT, <2>1, <2>3, <2>4, <1>a DEF Smaller
  <2> QED BY <2>5 DEF could, held
<1> HIDE DEF held
<1> DEFINE left == Subtract(memory, held * Memory[turn])
           grown == AffordableWorkerCountWithMargin(left, Memory[turn], IncreaseMargin[turn])
<1>c. grown \in Nat
  <2>1. held * Memory[turn] \in Int BY SMT, <1>b, <1>t
  <2>2. memory - held * Memory[turn] \in Int /\ Word > 0 BY SMT, <2>1, PlanAssumption
  <2>3. left \in Nat BY SMT, <2>2 DEF Subtract
  <2> HIDE DEF left
  <2> QED BY <2>3, <1>t, AffordableType
<1>d. growth = 0 \/ growth = Smaller(limit - held, grown)
  BY DEF Growth
<1> HIDE DEF growth, grown
<1>e. growth \in Nat /\ growth <= limit - held /\ growth <= grown
      /\ (limit < 0 => growth = 0)
  <2>1. limit \in Int /\ held \in Int /\ held <= limit /\ (limit < 0 => held = limit)
    BY <1>a, <1>b
  <2>2. \A m \in Nat : Smaller(m, grown) \in Nat /\ Smaller(m, grown) <= m
                       /\ Smaller(m, grown) <= grown
    BY SMT, <1>c DEF Smaller
  <2>3. limit - held \in Nat /\ 0 <= limit - held /\ 0 <= grown /\ 0 \in Nat BY SMT, <2>1, <1>c
  <2>4. limit < 0 => limit - held = 0 BY SMT, <2>1
  <2>5. growth \in Nat /\ growth <= limit - held /\ growth <= grown
    BY ZenonT(60), <2>2, <2>3, <1>d
  <2> QED BY SMT, <2>4, <2>5
<1> HIDE DEF left
<1>f. /\ given \in Nat /\ given <= slots /\ given <= budget
      /\ given > 0 => advertised[turn] + given <= MaxCapacity[turn]
      /\ given * Memory[turn] \in Nat /\ given * Memory[turn] <= memory
  <2>1. CASE limit < 0
    <3>1. ~(more > 0) BY SMT, <2>1, <1>a, <1>b, <1>e
    <3>2. given = 0 BY <3>1
    <3> HIDE DEF given
    <3> QED BY SMT, <3>2, <1>t
  <2>2. CASE limit >= 0
    <3>1. limit \in Nat /\ held \in Nat BY SMT, <2>2, <1>a, <1>b
    <3>2. growth <= AffordableWorkerCountWithMargin(Subtract(memory, held * Memory[turn]),
                                                    Memory[turn], IncreaseMargin[turn])
      BY <1>e DEF grown, left
    <3>3. more \in Nat /\ more <= limit /\ more * Memory[turn] <= memory
      BY <3>1, <3>2, <1>b, <1>e, <1>t, Offer
    <3> HIDE DEF more
    <3>4. CASE given = 0
      <4> HIDE DEF given
      <4> QED BY SMT, <3>4, <1>t
    <3>5. CASE given = more
      <4> HIDE DEF given
      <4>1. given * Memory[turn] \in Nat BY SMT, <3>3, <3>5, <1>t
      <4> QED BY SMT, <3>3, <3>5, <4>1, <3>1, <1>a, <1>t
    <3> QED BY <3>4, <3>5
  <2> QED BY SMTT(30), <2>1, <2>2, <1>a
<1> HIDE DEF given
<1>y. memory' \in 0..(Word - 1) /\ memory' <= memory /\ memory' \in Int
  <2> DEFINE p == given * Memory[turn]
  <2>1. p \in Nat /\ p <= memory /\ memory' = Subtract(memory, p) BY <1>f, <1>s
  <2> HIDE DEF p
  <2>2. memory - p \in 0..(Word - 1) /\ memory - p <= memory /\ memory' = memory - p
    BY <2>1, Subtraction
  <2> QED BY SMT, <2>2
<1>n. turn' \in Targets /\ pass' \in {"service", "finish"}
  BY <1>s, Turns DEF Passes, Serving
<1>p. SameDown(plan, plan') BY <1>s DEF SameDown
<1>c2. /\ advertised' \in Counts /\ budget' \in Nat /\ slots' \in Nat
       /\ Total(advertised') + budget' = HostWorkerLimit
  <2>1. advertised' \in Counts BY SMT, <1>s, <1>f, <1>t DEF Counts
  <2>2. Total(advertised) + budget = HostWorkerLimit BY <1>s DEF IInv, SlotsInv
  <2>3. advertised \in Numbers /\ given \in Int /\ Total(advertised) \in Int
    BY SMT, <1>f, CountsAreNumbers, TotalType
  <2>4. Total([advertised EXCEPT ![turn] = @ + given]) = Total(advertised) + given
    BY <2>3, TotalBump
  <2>5. Total(advertised') = Total(advertised) + given BY <2>4, <1>s
  <2>6. budget' = budget - given /\ slots' = slots - given BY <1>s
  <2>7. budget' \in Nat /\ slots' \in Nat BY SMT, <2>6, <1>f
  <2>8. Total(advertised) + given + (budget - given) = Total(advertised) + budget
    BY SMT, <2>3, <1>a
  <2> QED BY ZenonT(60), <2>1, <2>2, <2>5, <2>6, <2>7, <2>8
<1>1. PlanTypeOK'
  <2>1. clamped' \subseteq Targets BY <1>s DEF PlanTypeOK
  <2> QED BY <1>s, <1>n, <1>y, <1>c2, <2>1 DEF PlanTypeOK, Passes, Serving
<1>2. Course' /\ DrainInv' /\ TeardownInv' /\ PriorityInv' /\ MemoryInv'
  <2>1. LateStep BY <1>s, <1>n, <1>p, <1>y DEF LateStep
  <2> QED BY <2>1, LateStepInv
<1>5. SlotsInv'
  <2>1. ASSUME NEW u \in Targets
        PROVE  /\ counted'[u] <= in'.spare[u]
               /\ desired'[u] <= Larger(MaxCapacity[u], in'.busy[u])
               /\ advertised'[u] <= Larger(MaxCapacity[u], in'.busy[u])
    <3>1. /\ counted[u] <= in.spare[u] /\ desired[u] <= Larger(MaxCapacity[u], in.busy[u])
          /\ advertised[u] <= Larger(MaxCapacity[u], in.busy[u])
      BY <1>s DEF IInv, SlotsInv
    <3>2. CASE u = turn /\ given > 0
      <4>1. advertised'[turn] = advertised[turn] + given BY <1>s DEF Counts
      <4>2. advertised'[turn] <= MaxCapacity[turn] BY ZenonT(60), <4>1, <3>2, <1>f
      <4>3. MaxCapacity[turn] <= Larger(MaxCapacity[turn], in.busy[turn])
            /\ Larger(MaxCapacity[turn], in.busy[turn]) \in Nat
        BY SMTT(30), <1>t DEF Larger
      <4>4. advertised'[turn] <= Larger(MaxCapacity[turn], in.busy[turn])
        BY SMT, <4>1, <4>2, <4>3, <1>t, <1>f
      <4> QED BY <4>4, <3>1, <3>2, <1>s
    <3>3. CASE ~(u = turn /\ given > 0)
      <4>1. advertised'[u] = advertised[u] BY SMT, <3>3, <1>s, <1>f, <1>t DEF Counts
      <4> QED BY ZenonT(60), <4>1, <3>1, <1>s
    <3> QED BY <3>2, <3>3
  <2> QED BY <1>s, <1>n, <1>c2, <2>1, SameInput DEF SlotsInv
<1> QED BY <1>1, <1>2, <1>5 DEF IInv

\* The finished plan reports the memory that is left and its phase.
LEMMA FinishInv == ASSUME IInv, Finish PROVE IInv'
<1>0. PlanTypeOK /\ in \in Observations /\ in' = in /\ plan \in Plans /\ memory \in 0..(Word - 1)
  BY DEF IInv, PlanTypeOK, Finish
<1> USE <1>0
<1>m. memory \in Nat /\ memory <= memory BY SMT, PlanAssumption
<1> DEFINE phase == CASE plan.problems # {} -> "degraded"
                      [] plan.problems = {} /\ plan.reason # "none" -> "draining"
                      [] OTHER -> "ready"
<1>s. /\ pass = "finish" /\ pass' = "done" /\ ~MustDrain /\ HostWorkerLimit >= 0
      /\ plan' = [plan EXCEPT !.left = memory, !.phase = phase]
      /\ UNCHANGED <<turn, advertised, desired, start, remove, clamped, slots, memory, budget,
                     counted, open, kept>>
  BY DEF IInv, Course, Serving, Finish, remaining
<1>h. phase \in Phases
  <2>1. CASE plan.problems # {} BY <2>1 DEF Phases
  <2>2. CASE plan.problems = {} /\ plan.reason # "none" BY <2>2 DEF Phases
  <2>3. CASE plan.problems = {} /\ plan.reason = "none" BY <2>3 DEF Phases
  <2> QED BY <2>1, <2>2, <2>3
<1> HIDE DEF phase
<1>p. SameDown(plan, plan')
  <2> DEFINE q == [plan EXCEPT !.left = memory]
  <2>1. q \in Plans /\ q.stopDesktop = plan.stopDesktop /\ q.shutdownWSL = plan.shutdownWSL
    BY <1>m DEF Plans
  <2>2. plan' = [q EXCEPT !.phase = phase] BY <1>s
  <2> HIDE DEF q
  <2>3. SameDown(q, plan') BY <2>1, <2>2, <1>h, PhaseSet
  <2> QED BY <2>1, <2>3 DEF SameDown
<1>1. PlanTypeOK' BY <1>s, <1>p DEF PlanTypeOK, Passes, SameDown
<1>2. Course' /\ DrainInv' /\ TeardownInv' /\ PriorityInv' /\ MemoryInv'
  <2>1. LateStep BY SMT, <1>s, <1>p, <1>m DEF LateStep
  <2> QED BY <2>1, LateStepInv
<1>5. SlotsInv'
  <2>1. Total(advertised) + budget = HostWorkerLimit BY <1>s DEF IInv, SlotsInv
  <2>2. budget \in Nat /\ advertised \in Numbers BY CountsAreNumbers DEF PlanTypeOK
  <2>3. Total(advertised) \in Int /\ HostWorkerLimit \in Int BY <2>2, TotalType, InputTypes
  <2>4. Total(advertised) <= Larger(HostWorkerLimit, 0) BY SMT, <1>s, <2>1, <2>2, <2>3 DEF Larger
  <2> QED BY <1>s, <2>4, SameInput DEF IInv, SlotsInv
<1> QED BY <1>1, <1>2, <1>5 DEF IInv

\* The next call starts afresh, with the last advertisement as its previous one.
LEMMA AgainInv ==
  ASSUME IInv, NEW available \in 0..(Word - 1), Again(available) PROVE IInv'
<1> USE PlanAssumption
<1>0. PlanTypeOK /\ in \in Observations /\ advertised \in Counts BY DEF IInv, PlanTypeOK
<1>s. /\ pass' = "begin" /\ turn' = 1 /\ plan' = Empty(in')
      /\ in' = [in EXCEPT !.previous = advertised, !.available = available]
      /\ advertised' = Zero /\ desired' = Zero /\ start' = Zero /\ remove' = Zero
      /\ clamped' = {} /\ slots' = 0 /\ memory' = 0 /\ budget' = 0 /\ counted' = Zero
      /\ open' = {} /\ kept' = {}
  BY DEF Again
<1>i. in' \in Observations
  <2> DEFINE j == [in EXCEPT !.previous = advertised]
  <2>1. j \in Observations BY <1>0 DEF Observations
  <2>2. in' = [j EXCEPT !.available = available] BY <1>s
  <2> HIDE DEF j
  <2> QED BY ZenonT(60), <2>1, <2>2 DEF Observations
<1>z. Zero \in Counts /\ 1 \in Targets BY SMT DEF Zero, Counts, Targets
<1>1. PlanTypeOK'
  <2>1. Empty(in') \in Plans BY <1>i, EmptyType
  <2> QED BY SMT, <1>s, <1>i, <1>z, <2>1 DEF PlanTypeOK, Passes
<1>2. Course' /\ DrainInv' /\ PriorityInv' /\ MemoryInv'
  BY <1>s DEF Course, DrainInv, PriorityInv, MemoryInv, Serving
<1>3. TeardownInv' BY <1>s DEF TeardownInv, Empty
<1>4. SlotsInv'
  <2>1. ASSUME NEW t \in Targets
        PROVE  /\ counted'[t] <= in'.spare[t]
               /\ desired'[t] <= Larger(MaxCapacity[t], in'.busy[t])
               /\ advertised'[t] <= Larger(MaxCapacity[t], in'.busy[t])
    <3>1. in'.spare[t] \in Nat /\ in'.busy[t] \in Nat BY <1>i DEF Observations, Counts
    <3>2. MaxCapacity[t] \in Nat BY DEF Counts
    <3> QED BY SMT, <3>1, <3>2, <1>s DEF Zero, Larger
  <2> QED BY <2>1, <1>s DEF SlotsInv
<1> QED BY <1>1, <1>2, <1>3, <1>4 DEF IInv

\* A step that changes nothing keeps the invariant.
LEMMA StutterInv == ASSUME IInv, UNCHANGED planVars PROVE IInv'
<1>1. /\ in' = in
      /\ UNCHANGED <<pass, turn, advertised, desired, start, remove, clamped, plan, slots,
                     memory, budget, counted, open, kept>>
  BY DEF planVars, planned, remaining
<1>2. PlanTypeOK' BY <1>1 DEF IInv, PlanTypeOK
<1>s. /\ HostWorkerLimit' = HostWorkerLimit /\ MustDrain' = MustDrain
      /\ DrainSlots' = DrainSlots /\ BusyWorkers' = BusyWorkers
      /\ SafeRemovals([t \in Targets |-> Uncovered(t)])'
           = SafeRemovals([t \in Targets |-> Uncovered(t)])
  BY <1>1, SameInput
<1>i. Course /\ DrainInv /\ SlotsInv BY DEF IInv
<1>3. Course' BY SMTT(30), <1>1, <1>s, <1>i DEF Course
<1>4. DrainInv' BY SMT, <1>1, <1>s, <1>i DEF DrainInv
<1>5. TeardownInv' BY ZenonT(60), <1>1, SameInput DEF IInv, TeardownInv, Starts
<1>6. SlotsInv' BY SMT, <1>1, <1>s, <1>i DEF SlotsInv
<1>7. PriorityInv' BY <1>1, SameInput DEF IInv, PriorityInv, Lacking, NoWarm
<1>8. MemoryInv' BY <1>1, SameInput DEF IInv, MemoryInv
<1> QED BY <1>2, <1>3, <1>4, <1>5, <1>6, <1>7, <1>8 DEF IInv

\* Every step of BuildPlan, and every new call of it, keeps the invariant.
LEMMA PlanInvariance == PlanSpec => []IInv
<1>1. PlanInit => IInv BY InitInv
<1>2. IInv /\ [PlanNext]_planVars => IInv'
  <2> SUFFICES ASSUME IInv, [PlanNext]_planVars PROVE IInv'
    OBVIOUS
  <2>1. CASE BuildPlan
    BY <2>1, BeginDrainInv, ApplyInv, EndDrainInv, StartDesktopInv, RefuseOverrideInv,
       BeginServingInv, AllocateInv, PlaceInv, GrantBurstInv, BeginServiceInv, OfferServiceInv,
       FinishInv DEF BuildPlan
  <2>2. in.available \in 0..(Word - 1) BY DEF IInv, PlanTypeOK, Observations
  <2>3. CASE Replan BY <2>2, <2>3, AgainInv DEF Replan
  <2>4. CASE Dip
    <3>1. in.available - 1 \in 0..(Word - 1) BY SMT, <2>2, <2>4, PlanAssumption DEF Dip
    <3> QED BY <2>4, <3>1, AgainInv DEF Dip
  <2>5. CASE UNCHANGED planVars BY <2>5, StutterInv
  <2> QED BY <2>1, <2>3, <2>4, <2>5 DEF PlanNext
<1> QED BY <1>1, <1>2, PTL DEF PlanSpec

\* For any number of pools of any sizes and every observation, BuildPlan advertises no more
\* than the host's limit or a pool's maximum, and a drain starts nothing beyond the free slots.
THEOREM LimitsAreKept == PlanSpec => []LimitsHeld
<1>1. IInv => LimitsHeld
  <2> SUFFICES ASSUME IInv PROVE LimitsHeld
    OBVIOUS
  <2>0. PlanTypeOK /\ in \in Observations /\ pass \in Passes /\ advertised \in Counts
        /\ start \in Counts
    BY DEF IInv, PlanTypeOK
  <2>1. Total(advertised) <= Larger(HostWorkerLimit, 0)
    <3>1. HostWorkerLimit \in Int BY <2>0, InputTypes
    <3>2. CASE advertised = Zero BY SMT, <3>1, <3>2, TotalZero DEF Larger
    <3>3. CASE pass \in {"burst", "service", "finish"}
      <4>1. Total(advertised) + budget = HostWorkerLimit /\ budget \in Nat
        BY <3>3, <2>0 DEF IInv, SlotsInv, PlanTypeOK
      <4>2. Total(advertised) \in Int BY <2>0, CountsAreNumbers, TotalType
      <4> QED BY SMT, <3>1, <4>1, <4>2 DEF Larger
    <3>4. CASE pass = "done" BY <3>4 DEF IInv, SlotsInv
    <3>5. CASE pass \in {"drain", "settle"} BY <3>5, <3>2 DEF IInv, Course
    <3>6. CASE pass \in {"begin", "assigned", "warm", "place"} BY <3>6, <3>2 DEF IInv, Course
    <3> QED BY <2>0, <3>3, <3>4, <3>5, <3>6 DEF Passes, Serving
  <2>2. AdvertisedWithinLimit BY <2>1 DEF AdvertisedWithinLimit, IInv, SlotsInv
  <2>3. DrainStartsWithinLimit
    <3> SUFFICES ASSUME pass \in {"drain", "settle", "done"}, MustDrain, Starts
                 PROVE  /\ ActiveWorkers + Total(start) <= HostWorkerLimit
                        /\ \A t \in Targets : start[t] > 0
                                              => in.spare[t] + start[t] <= in.drain[t]
      BY DEF DrainStartsWithinLimit
    <3>1. /\ Total(start) <= DrainSlots
          /\ \A t \in Targets : start[t] > 0
               => DrainSlots > 0 /\ in.spare[t] + start[t] <= in.drain[t]
      BY DEF IInv, DrainInv
    <3>2. DrainSlots > 0 BY <3>1 DEF Starts
    <3>3. /\ DrainSlots = HostWorkerLimit - ActiveWorkers
          /\ HostWorkerLimit \in Int /\ ActiveWorkers \in Nat
      BY <3>2, <2>0, InputTypes
    <3>4. Total(start) \in Int BY <2>0, CountsAreNumbers, TotalType
    <3> QED BY SMT, <3>1, <3>3, <3>4
  <2> QED BY <2>2, <2>3 DEF LimitsHeld
<1> QED BY <1>1, PlanInvariance, PTL

\* The memory BuildPlan still has to spend never exceeds what it began with: the unsigned
\* subtractions of allocate, the drain and the service offers never wrap.
THEOREM MemoryIsSpentOnce == PlanSpec => []MemoryNeverWraps
<1>1. IInv => MemoryNeverWraps BY DEF IInv, MemoryInv, MemoryNeverWraps
<1> QED BY <1>1, PlanInvariance, PTL

\* No pool keeps a warm worker while another, ready and not clamped by memory, lacks workers
\* for jobs already assigned to it: allocate's first pass comes before its second for every
\* number of pools.
THEOREM AssignmentsComeFirst == PlanSpec => []AssignedBeforeWarm
<1>1. IInv => AssignedBeforeWarm
  <2> SUFFICES ASSUME IInv, pass = "done", ~MustDrain,
                      NEW t \in Targets, in.ready[t], t \notin clamped, desired[t] < Reserved(t)
               PROVE  \A u \in Targets : desired[u] <= Requested(u)
    BY DEF AssignedBeforeWarm
  <2>1. /\ desired[t] \in Nat /\ Reserved(t) \in Nat /\ Requested(t) \in Nat
        /\ Reserved(t) <= Requested(t)
    BY PoolTypes DEF IInv, PlanTypeOK, Counts
  <2>2. desired[t] < Requested(t) BY SMT, <2>1
  <2>3. Lacking(t) BY <2>2 DEF Lacking
  <2>4. NoWarm BY <2>3 DEF IInv, PriorityInv
  <2> QED BY <2>4 DEF NoWarm
<1> QED BY <1>1, PlanInvariance, PTL

\* A drain leaves every assigned job the spare worker it may be about to run on, and Desktop or
\* WSL go down only on a host that is idle and plans to stay so.
THEOREM DrainsAreSafe == PlanSpec => []DrainIsSafe
<1>1. IInv => DrainIsSafe
  <2> SUFFICES ASSUME IInv PROVE DrainIsSafe
    OBVIOUS
  <2>0. in \in Observations BY DEF IInv, PlanTypeOK
  <2>1. DrainKeepsAssigned
    <3> SUFFICES ASSUME MustDrain, NEW t \in Targets
                 PROVE  in.spare[t] - remove[t] >= Smaller(in.spare[t], Uncovered(t))
      BY DEF DrainKeepsAssigned
    <3>1. in.spare[t] \in Nat /\ Uncovered(t) \in Nat BY <2>0, PoolTypes
    <3>2. CASE pass = "begin"
      <4>1. remove[t] = 0 BY <3>2 DEF IInv, Course, Zero
      <4> QED BY SMT, <3>1, <4>1 DEF Smaller
    <3>3. CASE pass # "begin"
      <4>1. remove = SafeRemovals([u \in Targets |-> Uncovered(u)])
        BY <3>3 DEF IInv, Course
      <4>2. remove[t] = Larger(in.spare[t] - Uncovered(t), 0) BY <4>1 DEF SafeRemovals
      <4> QED BY SMT, <3>1, <4>2 DEF Smaller, Larger
    <3> QED BY <3>2, <3>3
  <2>2. TeardownIsIdle
    <3> SUFFICES ASSUME plan.stopDesktop \/ plan.shutdownWSL
                 PROVE  BusyWorkers = 0 /\ ~Outstanding /\ ~Starts /\ Total(advertised) = 0
      BY DEF TeardownIsIdle
    <3>1. MustDrain /\ BusyWorkers = 0 /\ ~Outstanding /\ ~Starts BY DEF IInv, TeardownInv
    <3>2. advertised = Zero BY <3>1 DEF IInv, Course
    <3> QED BY <3>1, <3>2, TotalZero
  <2> QED BY <2>1, <2>2 DEF DrainIsSafe
<1> QED BY <1>1, PlanInvariance, PTL
-----------------------------------------------------------------------------
(* What a pool is given in the last pass: the back slots its listener was told
   of before and the plan does not have yet, as far as its limit and the memory
   left allow, and growth beside the margin. *)
Offered(limit, left, back, blocked, w, margin) ==
    LET held   == Smaller(Smaller(limit, back), AffordableWorkerCount(left, w))
        growth == IF blocked THEN 0
                  ELSE Smaller(limit - held,
                               AffordableWorkerCountWithMargin(Subtract(left, held * w), w, margin))
    IN  held + growth

(* Nothing is left to grow into once a pool has given slots. *)
Settled(limit, left, given, blocked, w, margin) ==
    blocked \/ w = 0 \/ given = limit \/ left - given * w < margin + w

(* The pass's limit for the pool whose turn it is. *)
OfferLimit == Smaller(Smaller(MaxCapacity[turn] - advertised[turn], slots), budget)

(* The given slots are within the limit and affordable, nothing is left to grow
   into, and growth alone left the margin free. *)
Fits(limit, left, back, given, blocked, w, margin) ==
    /\ given <= limit /\ given <= AffordableWorkerCount(left, w)
    /\ given * w \in Nat /\ given * w <= left
    /\ Settled(limit, left, given, blocked, w, margin)
    /\ back = 0 /\ given > 0 => ~blocked /\ given * w + margin <= left

(* A pool whose listener was told of given slots is given just these. *)
Keeps(limit, left, given, blocked, w, margin) ==
    Offered(limit, left, given, blocked, w, margin) = given

(* What a pool was given is what it is given again: with the same limit and
   memory, neither more nor less; and, if it was all growth under a margin, also
   when one unit of memory has gone, even if that takes the host to its floor. *)
GivenAgain(limit, left, back, given, blocked, w, margin) ==
    /\ Keeps(limit, left, given, blocked, w, margin)
    /\ back = 0 /\ margin > 0 /\ left > 0 =>
         \A b \in BOOLEAN : (blocked => b) => Keeps(limit, left - 1, given, b, w, margin)

(* The slots by which the pool's previous capacity exceeds what it has so far. *)
Back == Larger(in.previous[turn] - advertised[turn], 0)

(* Each offer of the last pass stands when it is made again to the same pool. *)
OfferStands ==
    OfferService /\ turn \in open /\ slots # 0 /\ OfferLimit >= 0 =>
        GivenAgain(OfferLimit, memory, Back, advertised'[turn] - advertised[turn],
                   FloorBlocked, Memory[turn], IncreaseMargin[turn])

\* Division rounds down.
LEMMA Quotient ==
  ASSUME NEW a \in Nat, NEW w \in Nat, w # 0, NEW k \in Nat
  PROVE  /\ k * w <= a => k <= AffordableWorkerCount(a, w)
         /\ k = AffordableWorkerCount(a, w) => k * w <= a /\ a < k * w + w
<1> DEFINE q == a \div w
<1>1. q \in Nat /\ q * w <= a /\ a < q * w + w BY SMT
<1>2. AffordableWorkerCount(a, w) = q BY DEF AffordableWorkerCount
<1> HIDE DEF q
<1>3. ASSUME ~(k <= q) PROVE ~(k * w <= a)
  <2>1. PICK d \in Nat : k = q + 1 + d
    <3>1. k - q - 1 \in Nat /\ k = q + 1 + (k - q - 1) BY SMT, <1>1, <1>3
    <3> QED BY <3>1
  <2>2. k * w = q * w + w + d * w /\ d * w \in Nat BY SMT, <2>1, <1>1
  <2> QED BY SMT, <2>2, <1>1
<1> QED BY <1>1, <1>2, <1>3

\* What a pool was given is affordable, and leaves less than a worker beside the margin
\* unless the limit is reached or the previous offer was kept inside the margin.
LEMMA OfferedFacts ==
  ASSUME NEW limit \in Nat, NEW left \in 0..(Word - 1), NEW back \in Nat,
         NEW blocked \in BOOLEAN, NEW w \in Nat, NEW margin \in Nat
  PROVE  LET given == Offered(limit, left, back, blocked, w, margin) IN
         given \in Nat /\ Fits(limit, left, back, given, blocked, w, margin)
<1> DEFINE could  == AffordableWorkerCount(left, w)
           held   == Smaller(Smaller(limit, back), could)
           p      == held * w
           rest   == Subtract(left, p)
           grown  == AffordableWorkerCountWithMargin(rest, w, margin)
           growth == IF blocked THEN 0 ELSE Smaller(limit - held, grown)
           given  == held + growth
<1>1. given = Offered(limit, left, back, blocked, w, margin) BY DEF Offered
<1>2. left \in Nat BY SMT, PlanAssumption
<1>3. could \in Nat BY <1>2, AffordableType
<1>4. held \in Nat /\ held <= limit /\ held <= could /\ (back = 0 => held = 0)
  <2> HIDE DEF could
  <2> QED BY SMT, <1>3 DEF Smaller
<1> HIDE DEF held
<1>5. p \in Nat /\ p <= left BY <1>2, <1>4, Division
<1>6. (held = 0 => p = 0) BY SMT, <1>4
<1> HIDE DEF p
<1>7. rest = left - p /\ rest \in Nat
  <2>1. rest = left - p BY <1>5, Subtraction
  <2> HIDE DEF rest
  <2> QED BY SMT, <2>1, <1>2, <1>5
<1> HIDE DEF rest
<1>8. grown \in Nat BY <1>7, AffordableType
<1>9. growth \in Nat /\ growth <= limit - held /\ growth <= grown
      /\ (blocked \/ growth = limit - held \/ growth = grown) /\ (blocked => growth = 0)
  <2> HIDE DEF grown
  <2> QED BY SMT, <1>4, <1>8 DEF Smaller
<1> HIDE DEF growth
<1>10. given \in Nat /\ given <= limit /\ given * w <= left
  <2>1. growth <= AffordableWorkerCountWithMargin(Subtract(left, held * w), w, margin)
    BY <1>9 DEF rest, p
  <2>2. held <= AffordableWorkerCount(left, w)
    BY <1>4
  <2> QED BY <2>1, <2>2, <1>4, <1>9, Offer
<1>11. given * w \in Nat /\ given * w = p + growth * w /\ growth * w \in Nat
  BY SMT, <1>4, <1>9 DEF p
<1>12. given <= could
  <2>1. CASE w = 0
    <3>1. could = 0 /\ grown = 0
      BY SMT, <2>1 DEF AffordableWorkerCount, AffordableWorkerCountWithMargin
    <3> HIDE DEF could, grown
    <3> QED BY SMT, <3>1, <1>4, <1>9
  <2>2. CASE w # 0
    <3> HIDE DEF given
    <3> QED BY <2>2, <1>2, <1>10, Quotient
  <2> QED BY <2>1, <2>2
<1>13. ASSUME w # 0, ~(rest <= margin), NEW k \in Nat, k = growth
       PROVE  /\ k = grown => rest - margin < k * w + w
              /\ k * w <= rest - margin
  <2> DEFINE over == rest - margin
  <2>1. over \in Nat BY SMT, <1>7, <1>13
  <2> HIDE DEF over
  <2>2. grown = AffordableWorkerCount(over, w)
    BY <1>13 DEF over, AffordableWorkerCountWithMargin
  <2>3. k <= AffordableWorkerCount(over, w) BY <2>2, <1>9, <1>13
  <2>4. k = grown => over < k * w + w BY <1>13, <2>1, <2>2, Quotient
  <2>5. k * w <= over BY <2>1, <2>3, Division
  <2> QED BY <2>4, <2>5 DEF over
<1>14. rest <= margin => grown = 0
  BY DEF AffordableWorkerCountWithMargin
<1> HIDE DEF grown
<1>15. Settled(limit, left, given, blocked, w, margin)
  <2>1. CASE growth = limit - held
    <3>1. given = limit BY SMT, <2>1, <1>4
    <3> QED BY <3>1 DEF Settled
  <2>2. CASE ~blocked /\ w # 0 /\ growth = grown
    <3>1. CASE rest <= margin
      <4>1. growth = 0 /\ growth * w = 0 BY SMT, <3>1, <1>14, <2>2
      <4>2. given * w = p BY SMT, <4>1, <1>11, <1>5
      <4> HIDE DEF given
      <4>3. left - given * w < margin + w BY SMT, <4>2, <3>1, <1>7, <2>2, <1>2, <1>5
      <4> QED BY <4>3 DEF Settled
    <3>2. CASE ~(rest <= margin)
      <4>1. rest - margin < growth * w + w BY <1>9, <1>13, <2>2, <3>2
      <4> DEFINE gw == given * w
                 rw == growth * w
      <4>2. gw \in Nat /\ rw \in Nat /\ gw = p + rw BY <1>11
      <4>3. rest - margin < rw + w BY <4>1
      <4> HIDE DEF gw, rw
      <4>4. left - gw < margin + w BY SMT, <4>2, <4>3, <1>2, <1>5, <1>7
      <4> QED BY <4>4 DEF gw, Settled
    <3> QED BY <3>1, <3>2
  <2> QED BY <2>1, <2>2, <1>9 DEF Settled
<1>16. back = 0 /\ given > 0 => ~blocked /\ given * w + margin <= left
  <2> SUFFICES ASSUME back = 0, given > 0 PROVE ~blocked /\ given * w + margin <= left
    OBVIOUS
  <2>1. held = 0 /\ p = 0 /\ growth > 0 BY SMT, <1>4, <1>6, <1>9
  <2>2. ~blocked /\ grown # 0 BY SMT, <2>1, <1>9
  <2>3. ~(rest <= margin) BY <2>2, <1>14
  <2>4. w # 0
    <3>1. w = 0 => could = 0 BY DEF AffordableWorkerCount
    <3> HIDE DEF could
    <3> QED BY SMT, <3>1, <1>12, <1>10
  <2>5. growth * w <= rest - margin BY <1>9, <1>13, <2>3, <2>4
  <2> DEFINE gw == given * w
             rw == growth * w
  <2>6. gw \in Nat /\ rw \in Nat /\ gw = p + rw BY <1>11
  <2>7. rw <= rest - margin BY <2>5
  <2> HIDE DEF gw, rw
  <2>8. gw + margin <= left BY SMT, <2>1, <2>6, <2>7, <1>2, <1>7
  <2> QED BY <2>2, <2>8 DEF gw
<1> HIDE DEF given
<1> QED BY <1>1, <1>10, <1>11, <1>12, <1>15, <1>16 DEF Fits

\* A pool that was given what it holds is given it again, and no more.
LEMMA Kept ==
  ASSUME NEW limit \in Nat, NEW left \in 0..(Word - 1), NEW back \in Nat,
         NEW blocked \in BOOLEAN, NEW w \in Nat, NEW margin \in Nat,
         back <= limit, back <= AffordableWorkerCount(left, w),
         Settled(limit, left, back, blocked, w, margin)
  PROVE  Keeps(limit, left, back, blocked, w, margin)
<1> DEFINE could  == AffordableWorkerCount(left, w)
           held   == Smaller(Smaller(limit, back), could)
           p      == held * w
           rest   == Subtract(left, p)
           grown  == AffordableWorkerCountWithMargin(rest, w, margin)
           growth == IF blocked THEN 0 ELSE Smaller(limit - held, grown)
<1>1. Offered(limit, left, back, blocked, w, margin) = held + growth BY DEF Offered
<1>2. left \in Nat BY SMT, PlanAssumption
<1>3. could \in Nat BY <1>2, AffordableType
<1>4. held = back
  <2>1. back <= could OBVIOUS
  <2> HIDE DEF could
  <2> QED BY SMT, <2>1, <1>3 DEF Smaller
<1> HIDE DEF held
<1>5. p \in Nat /\ p <= left /\ p = back * w BY <1>2, <1>4, Division
<1> HIDE DEF p
<1>6. rest = left - p /\ rest \in Nat
  <2>1. rest = left - p BY <1>5, Subtraction
  <2> HIDE DEF rest
  <2> QED BY SMT, <2>1, <1>2, <1>5
<1> HIDE DEF rest
<1>7. grown \in Nat BY <1>6, AffordableType
<1>8. blocked \/ limit - held = 0 \/ grown = 0
  <2>1. CASE back = limit BY SMT, <2>1, <1>4
  <2>2. CASE w = 0
    BY <2>2 DEF AffordableWorkerCountWithMargin, AffordableWorkerCount
  <2>3. CASE w # 0 /\ left - back * w < margin + w
    <3>1. rest < margin + w BY <2>3, <1>5, <1>6
    <3>2. CASE rest <= margin BY <3>2 DEF AffordableWorkerCountWithMargin
    <3>3. CASE ~(rest <= margin)
      <4> DEFINE over == rest - margin
      <4>1. over \in Nat /\ over < w BY SMT, <3>1, <3>3, <1>6
      <4>2. over \div w = 0 BY SMT, <4>1, <2>3
      <4> QED BY <4>2, <2>3, <3>3 DEF AffordableWorkerCountWithMargin, AffordableWorkerCount
    <3> QED BY <3>2, <3>3
  <2> QED BY <2>1, <2>2, <2>3 DEF Settled
<1> HIDE DEF grown
<1>9. growth = 0
  BY SMT, <1>4, <1>7, <1>8 DEF Smaller
<1> HIDE DEF growth
<1>10. held + growth = back BY SMT, <1>4, <1>9
<1> QED BY <1>1, <1>10 DEF Keeps

\* Slots that are affordable and leave nothing to grow into are given again; growth alone,
\* which left the margin free, also when one unit of memory has gone.
LEMMA AffordableAgain ==
  ASSUME NEW limit \in Nat, NEW left \in 0..(Word - 1), NEW back \in Nat,
         NEW blocked \in BOOLEAN, NEW w \in Nat, NEW margin \in Nat, NEW given \in Nat,
         Fits(limit, left, back, given, blocked, w, margin)
  PROVE  GivenAgain(limit, left, back, given, blocked, w, margin)
<1>1. /\ given \in Nat /\ given <= limit /\ given <= AffordableWorkerCount(left, w)
      /\ given * w \in Nat
      /\ Settled(limit, left, given, blocked, w, margin)
      /\ back = 0 /\ given > 0 => ~blocked /\ given * w + margin <= left
  BY DEF Fits
<1>2. Keeps(limit, left, given, blocked, w, margin) BY <1>1, Kept
<1>3. ASSUME back = 0, margin > 0, left > 0, NEW b \in BOOLEAN, blocked => b
      PROVE  Keeps(limit, left - 1, given, b, w, margin)
  <2> DEFINE less == left - 1
             gw   == given * w
  <2>1. less \in 0..(Word - 1) /\ less \in Nat /\ left \in Nat BY SMT, <1>3, PlanAssumption
  <2>2. gw \in Nat /\ (given > 0 => gw + margin <= left)
        /\ (left - gw < margin + w => less - gw < margin + w)
    <3>1. gw \in Nat /\ (given > 0 => gw + margin <= left) BY <1>1, <1>3
    <3> HIDE DEF gw
    <3> QED BY SMT, <3>1, <2>1
  <2>3. given <= AffordableWorkerCount(less, w)
    <3>1. CASE w = 0
      <4>1. AffordableWorkerCount(left, w) = AffordableWorkerCount(less, w)
        BY <3>1 DEF AffordableWorkerCount
      <4> QED BY <4>1, <1>1
    <3>2. CASE w # 0
      <4>1. gw <= less
        <5>1. given = 0 => gw = 0 BY SMT
        <5> HIDE DEF gw
        <5> QED BY SMT, <5>1, <2>1, <2>2, <1>1, <1>3
      <4> HIDE DEF less
      <4> QED BY <4>1, <3>2, <2>1, <1>1, Quotient
    <3> QED BY <3>1, <3>2
  <2>4. Settled(limit, less, given, b, w, margin)
    BY <1>1, <1>3, <2>2 DEF Settled
  <2> HIDE DEF less
  <2>5. Keeps(limit, less, given, b, w, margin)
    BY <1>1, <1>3, <2>1, <2>3, <2>4, Kept
  <2> QED BY <2>5 DEF less
<1> QED BY <1>2, <1>3 DEF GivenAgain

\* Offering twice is offering once.
LEMMA OfferedAgain ==
  ASSUME NEW limit \in Nat, NEW left \in 0..(Word - 1), NEW back \in Nat,
         NEW blocked \in BOOLEAN, NEW w \in Nat, NEW margin \in Nat,
         NEW given, given = Offered(limit, left, back, blocked, w, margin)
  PROVE  GivenAgain(limit, left, back, given, blocked, w, margin)
<1>1. given \in Nat /\ Fits(limit, left, back, given, blocked, w, margin) BY OfferedFacts
<1> QED BY <1>1, AffordableAgain

\* OfferService gives the pool whose turn it is what Offered says.
LEMMA OfferServiceGives ==
  ASSUME IInv, OfferService, turn \in open, slots # 0, OfferLimit >= 0
  PROVE  /\ OfferLimit \in Nat /\ memory \in 0..(Word - 1) /\ FloorBlocked \in BOOLEAN
         /\ Memory[turn] \in Nat /\ IncreaseMargin[turn] \in Nat /\ Back \in Nat
         /\ advertised'[turn] - advertised[turn] =
              Offered(OfferLimit, memory, Back, FloorBlocked, Memory[turn], IncreaseMargin[turn])
<1>1. PlanTypeOK /\ in \in Observations /\ turn \in Targets /\ advertised \in Counts
      /\ slots \in Nat /\ budget \in Nat /\ memory \in 0..(Word - 1)
  BY DEF IInv, PlanTypeOK
<1>2. /\ advertised[turn] \in Nat /\ MaxCapacity[turn] \in Nat /\ Memory[turn] \in Nat
      /\ IncreaseMargin[turn] \in Nat /\ in.previous[turn] \in Nat
  BY ZenonT(60), <1>1, PoolTypes DEF Counts
<1>3. OfferLimit \in Nat BY SMT, <1>1, <1>2 DEF OfferLimit, Smaller
<1>4. FloorBlocked \in BOOLEAN BY DEF FloorBlocked
<1> DEFINE more  == Offered(OfferLimit, memory, Back, FloorBlocked, Memory[turn],
                            IncreaseMargin[turn])
           given == IF more > 0 THEN more ELSE 0
<1>5. advertised' = [advertised EXCEPT ![turn] = @ + given]
  BY DEF OfferService, OfferLimit, Offered, Held, Growth, Back
<1>6. Back \in Nat BY SMT, <1>2 DEF Larger, Back
<1>7. more \in Nat BY <1>1, <1>2, <1>3, <1>4, <1>6, OfferedFacts
<1> HIDE DEF more
<1>8. given = more BY SMT, <1>7
<1>9. advertised'[turn] = advertised[turn] + more BY <1>1, <1>5, <1>8 DEF Counts
<1>10. advertised'[turn] - advertised[turn] = more BY SMT, <1>2, <1>7, <1>9
<1> QED BY <1>1, <1>2, <1>3, <1>4, <1>6, <1>10 DEF more

\* Every offer of BuildPlan's last pass stands: for any pools, limits, margins and memory,
\* what it gives a pool it gives that pool again from the same limit and memory, as held
\* capacity, and a dip within the margin does not take it back.
THEOREM OffersAreSteady == PlanSpec => [][OfferStands]_planVars
<1>1. IInv /\ [PlanNext]_planVars => [OfferStands]_planVars
  <2> SUFFICES ASSUME IInv, OfferService, turn \in open, slots # 0, OfferLimit >= 0
               PROVE  GivenAgain(OfferLimit, memory, Back, advertised'[turn] - advertised[turn],
                                 FloorBlocked, Memory[turn], IncreaseMargin[turn])
    BY DEF OfferStands
  <2> DEFINE given == advertised'[turn] - advertised[turn]
  <2>1. /\ OfferLimit \in Nat /\ memory \in 0..(Word - 1) /\ FloorBlocked \in BOOLEAN
        /\ Memory[turn] \in Nat /\ IncreaseMargin[turn] \in Nat /\ Back \in Nat
        /\ given = Offered(OfferLimit, memory, Back, FloorBlocked, Memory[turn],
                           IncreaseMargin[turn])
    BY OfferServiceGives
  <2> HIDE DEF given
  <2>2. GivenAgain(OfferLimit, memory, Back, given, FloorBlocked, Memory[turn],
                   IncreaseMargin[turn])
    BY <2>1, OfferedAgain
  <2> QED BY <2>2 DEF given
<1> QED BY <1>1, PlanInvariance, PTL DEF PlanSpec
=============================================================================
