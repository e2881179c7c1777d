---------------------------- MODULE CapacityProofs ----------------------------
(* What the listeners are offered, and when: the capacity handshake for every   *)
(* set of pools, host limit and range of statistics, and the resource and power *)
(* gates for every window and sequence of observations.                         *)
EXTENDS ListenerCapacity, Gates, TLAPS

\* Zenon proves most leaves; a leaf that needs arithmetic or case splits cites SMT.
USE Zenon

\* One allocation covers both what GitHub holds and what the open polls carry,
\* so the polls may land in any order.
Covered ==
  \E f \in Plans : \A p \in Pools : capacity[p] <= f[p] /\ sent[p] <= f[p]

\* Between steps the record says what GitHub holds.
Settled == \A p \in Pools : capacity[p] = observed[p].maxCapacity

\* An acknowledgement in a record survives every poll still to land, and its
\* confirmations were earned at zero.
Truthful(record) ==
  \A p \in Pools : record[p].acknowledged =>
    /\ capacity[p] = record[p].maxCapacity
    /\ (poll[p] # "none") => (sent[p] = record[p].maxCapacity)
    /\ (record[p].maxCapacity = 0) => (record[p].confirmations <= zeroPolls[p])

\* The acknowledgement a step started from is replaced only by its own poll.
Loaded ==
  \A p \in Pools : previous[p].acknowledged =>
    /\ \/ capacity[p] = previous[p].maxCapacity
       \/ capacity[p] = sent[p]
    /\ (previous[p].maxCapacity = 0 /\ sent[p] = 0)
         => (previous[p].confirmations <= zeroPolls[p])

\* An answered zero poll adds one to the confirmations the step started from.
Counted ==
  \A p \in Pools :
    (poll[p] = "answered" /\ sent[p] = 0 /\ previous[p].acknowledged
       /\ previous[p].maxCapacity = 0)
      => (AtMost(previous[p].confirmations + 1, 2) <= zeroPolls[p])

\* GitHub holds what a poll that reached it carried.
Heard ==
  \A p \in Pools :
    /\ (poll[p] \in {"reached", "answered"}) => (capacity[p] = sent[p])
    /\ (poll[p] = "answered" /\ sent[p] = 0) => (zeroPolls[p] >= 1)

\* Locals of the step have their values only while it runs.
Scoped ==
  /\ pc = "idle" => /\ sent = Zero
                    /\ previous = NoRecord
                    /\ cadence = NoRecord
                    /\ poll = [p \in Pools |-> "none"]
  /\ pc = "acting" => confirmed = [p \in Pools |-> ZeroConfirmations(p)]

\* The inductive invariant of the handshake.
IInv ==
  /\ TypeOK
  /\ Scoped
  /\ Heard
  /\ ~drifted => Covered /\ (pc = "idle" => Settled)
  /\ ~saveFailed => Truthful(observed) /\ Truthful(cadence) /\ Loaded /\ Counted

-------------------------------------------------------------------------------
(* Helpers of the step.                                                        *)

\* A plan gives every pool a number of slots.
LEMMA PlansAreCapacities == Plans \subseteq [Pools -> Nat]
  BY SMT, HostLimitAssumption DEF Plans

\* The zero allocation and the zero counts are well formed.
LEMMA ZeroType == Zero \in [Pools -> Nat] /\ Zero \in [Pools -> Counts]
                  /\ Zero \in [Pools -> 0..2]
  BY SMT, CountsAssumption DEF Zero

\* The record of a pool without history is an observation.
LEMMA NoRecordType == NoRecord \in [Pools -> Observation]
  BY SMT, CountsAssumption DEF NoRecord, Blank, Observation

\* sequenceCapacityTransfer never raises a capacity above the plan, and raises
\* none at all while some pool shrinks.
LEMMA SequenceCapacityTransferFacts ==
  ASSUME NEW recorded \in [Pools -> Observation], NEW planned \in [Pools -> Nat]
  PROVE  LET s == SequenceCapacityTransfer(recorded, planned)
         IN /\ s \in [Pools -> Nat]
            /\ \A p \in Pools : s[p] <= planned[p]
            /\ \/ \A p \in Pools : s[p] <= recorded[p].maxCapacity
               \/ \A p \in Pools : recorded[p].maxCapacity <= planned[p]
  BY SMT DEF SequenceCapacityTransfer, AtMost, Observation

\* The pending remainder only lowers what is advertised.
LEMMA CapByPendingFacts ==
  ASSUME pending \in [Pools -> Nat \cup {NoLimit}], NEW planned \in [Pools -> Nat]
  PROVE  /\ CapByPending(planned) \in [Pools -> Nat]
         /\ \A p \in Pools : CapByPending(planned)[p] <= planned[p]
  BY SMT DEF CapByPending, AtMost

\* A checkpoint keeps recorded capacities and never adds an acknowledgement.
LEMMA PollCheckpointFacts ==
  ASSUME NEW recorded \in [Pools -> Observation], NEW advertised,
         NEW assigned \in [Pools -> Counts], NEW sameIdentity
  PROVE  LET c == PollCheckpoint(recorded, advertised, assigned, sameIdentity)
         IN /\ c \in [Pools -> Observation]
            /\ \A p \in Pools :
                 /\ c[p].maxCapacity = recorded[p].maxCapacity
                 /\ c[p].assigned = assigned[p]
                 /\ c[p].acknowledged =>
                      /\ recorded[p].acknowledged
                      /\ recorded[p].maxCapacity = advertised[p]
                      /\ p \in sameIdentity
                      /\ c[p].confirmations \in {0, recorded[p].confirmations}
  BY SMT DEF PollCheckpoint, Observation

\* What a checkpoint leaves pending is a number of slots or no limit.
LEMMA PendingAfterType ==
  ASSUME NEW checkpoint, NEW advertised \in [Pools -> Nat]
  PROVE  PendingAfter(checkpoint, advertised) \in [Pools -> Nat \cup {NoLimit}]
  BY DEF PendingAfter

\* Confirmations are counted up to two.
LEMMA ZeroConfirmationsType ==
  ASSUME TypeOK, NEW p \in Pools
  PROVE  ZeroConfirmations(p) \in 0..2
<1>1. previous[p].confirmations \in 0..2
  BY DEF TypeOK, Observation
<1>2. AtMost(previous[p].confirmations + 1, 2) \in 0..2
  BY SMT, <1>1 DEF AtMost
<1> QED  BY SMT, <1>2 DEF ZeroConfirmations

\* What a step saves at its end is an observation.
LEMMA FinalObservationType ==
  ASSUME TypeOK, NEW p \in Pools
  PROVE  FinalObservation(p) \in Observation
<1>1. FinalObservation(p).assigned \in Counts
  BY CountsAssumption DEF TypeOK, FinalObservation, Observation, PollStates
<1> QED
  BY <1>1 DEF TypeOK, FinalObservation, Observation, PollStates

-------------------------------------------------------------------------------
(* Type correctness.                                                           *)

\* A fresh host is well typed.
LEMMA InitType == Init => TypeOK
  BY ZeroType, NoRecordType DEF Init, TypeOK, PollStates

\* A write, landed or lost, leaves a well-typed record.
LEMMA PersistType ==
  ASSUME TypeOK, NEW ok \in BOOLEAN, NEW state \in [Pools -> Observation],
         Persist(ok, state)
  PROVE  observed' \in [Pools -> Observation] /\ saveFailed' \in BOOLEAN
  BY DEF TypeOK, Persist

\* What EndStep leaves of the step's locals.
LEMMA EndStepType ==
  ASSUME TypeOK, NEW record, EndStep(record)
  PROVE  /\ pc' \in {"idle", "polling", "acting"}
         /\ previous' \in [Pools -> Observation]
         /\ cadence' \in [Pools -> Observation]
         /\ sent' \in [Pools -> Nat]
         /\ same' \subseteq Pools
         /\ forced' \in BOOLEAN
         /\ poll' \in [Pools -> PollStates]
         /\ count' \in [Pools -> Counts]
         /\ cancelled' \in {"no", "inputs", "stop"}
         /\ confirmed' \in [Pools -> 0..2]
         /\ drifted' \in BOOLEAN
<1>1. /\ pc' = "idle" /\ same' = {} /\ forced' = FALSE /\ cancelled' = "no"
      /\ previous' = NoRecord /\ cadence' = NoRecord /\ sent' = Zero
      /\ count' = Zero /\ confirmed' = Zero
  BY DEF EndStep
<1>2. poll' \in [Pools -> PollStates]
  BY DEF EndStep, PollStates
<1>3. drifted' \in BOOLEAN
  BY Zenon DEF EndStep, TypeOK
<1> QED
  BY <1>1, <1>2, <1>3, ZeroType, NoRecordType

\* The intermediate results of Begin: what a step advertises is covered by the
\* plan, and shrinks every pool or grows none beyond it.
LEMMA BeginFacts ==
  ASSUME TypeOK, NEW loaded \in [Pools -> Observation], NEW plan \in Plans,
         NEW ready, NEW kept
  PROVE  LET advertised == CapByPending(SequenceCapacityTransfer(loaded, plan))
             assigned == [p \in Pools |-> IF p \in ready THEN loaded[p].assigned ELSE 0]
         IN /\ advertised \in [Pools -> Nat]
            /\ assigned \in [Pools -> Counts]
            /\ PollCheckpoint(loaded, advertised, assigned, kept) \in [Pools -> Observation]
            /\ \A p \in Pools : advertised[p] <= plan[p]
            /\ \/ \A p \in Pools : advertised[p] <= loaded[p].maxCapacity
               \/ \A p \in Pools : loaded[p].maxCapacity <= plan[p]
<1> DEFINE sequenced == SequenceCapacityTransfer(loaded, plan)
<1> DEFINE advertised == CapByPending(sequenced)
<1> DEFINE assigned == [p \in Pools |-> IF p \in ready THEN loaded[p].assigned ELSE 0]
<1>1. plan \in [Pools -> Nat]
  BY PlansAreCapacities
<1>2. /\ sequenced \in [Pools -> Nat]
      /\ \A p \in Pools : sequenced[p] <= plan[p]
      /\ \/ \A p \in Pools : sequenced[p] <= loaded[p].maxCapacity
         \/ \A p \in Pools : loaded[p].maxCapacity <= plan[p]
  BY <1>1, SequenceCapacityTransferFacts
<1> HIDE DEF sequenced
<1>3. /\ advertised \in [Pools -> Nat]
      /\ \A p \in Pools : advertised[p] <= sequenced[p]
  BY <1>2, CapByPendingFacts DEF TypeOK
<1>4. assigned \in [Pools -> Counts]
  BY CountsAssumption DEF Observation
<1> HIDE DEF advertised, assigned
<1>5. PollCheckpoint(loaded, advertised, assigned, kept) \in [Pools -> Observation]
  BY <1>4, PollCheckpointFacts
<1>6. /\ \A p \in Pools : advertised[p] <= plan[p]
      /\ \/ \A p \in Pools : advertised[p] <= loaded[p].maxCapacity
         \/ \A p \in Pools : loaded[p].maxCapacity <= plan[p]
  <2>1. \A p \in Pools : /\ advertised[p] \in Nat /\ sequenced[p] \in Nat
                         /\ plan[p] \in Nat /\ loaded[p].maxCapacity \in Nat
    BY <1>1, <1>2, <1>3 DEF Observation
  <2> QED  BY SMT, <1>2, <1>3, <2>1
<1> QED
  BY <1>3, <1>4, <1>5, <1>6 DEF advertised, assigned, sequenced

\* The same for a cadence tick, which replans from the checkpoint it holds.
LEMMA TickFacts ==
  ASSUME TypeOK, NEW plan \in Plans
  PROVE  LET advertised == SequenceCapacityTransfer(cadence, plan)
             assigned == [p \in Pools |-> cadence[p].assigned]
         IN /\ advertised \in [Pools -> Nat]
            /\ assigned \in [Pools -> Counts]
            /\ PollCheckpoint(cadence, advertised, assigned, Pools) \in [Pools -> Observation]
<1> DEFINE advertised == SequenceCapacityTransfer(cadence, plan)
<1> DEFINE assigned == [p \in Pools |-> cadence[p].assigned]
<1>1. cadence \in [Pools -> Observation] /\ plan \in [Pools -> Nat]
  BY PlansAreCapacities DEF TypeOK
<1>2. advertised \in [Pools -> Nat]
  BY <1>1, SequenceCapacityTransferFacts
<1>3. assigned \in [Pools -> Counts]
  BY <1>1 DEF Observation
<1> HIDE DEF advertised, assigned
<1>4. PollCheckpoint(cadence, advertised, assigned, Pools) \in [Pools -> Observation]
  BY <1>1, <1>3, PollCheckpointFacts
<1> QED
  BY <1>2, <1>3, <1>4 DEF advertised, assigned

\* Every step keeps the types.
LEMMA TypeStep == TypeOK /\ [Next]_vars => TypeOK'
<1> SUFFICES ASSUME TypeOK, [Next]_vars PROVE TypeOK'
  OBVIOUS
<1>1. ASSUME NEW serving \in BOOLEAN, NEW readable \in BOOLEAN, NEW ok \in BOOLEAN,
             NEW ready \in SUBSET Pools, NEW plan \in Plans, NEW kept \in SUBSET ready,
             Begin(serving, readable, ready, kept, plan, ok)
      PROVE  TypeOK'
  <2> DEFINE loaded == IF readable THEN observed ELSE NoRecord
  <2> DEFINE advertised == CapByPending(SequenceCapacityTransfer(loaded, plan))
  <2> DEFINE assigned == [p \in Pools |-> IF p \in ready THEN loaded[p].assigned ELSE 0]
  <2> DEFINE checkpoint == PollCheckpoint(loaded, advertised, assigned, kept)
  <2>0. loaded \in [Pools -> Observation]
    BY NoRecordType DEF TypeOK
  <2>1. advertised \in [Pools -> Nat] /\ checkpoint \in [Pools -> Observation]
    <3> HIDE DEF loaded
    <3> QED  BY ZenonT(60), <2>0, BeginFacts, Zenon
  <2>2. /\ IF ready = {} THEN UNCHANGED <<observed, saveFailed>> ELSE Persist(ok, checkpoint)
        /\ pc' = "polling"
        /\ previous' = loaded /\ cadence' = checkpoint
        /\ sent' = advertised /\ same' = kept /\ forced' = ~serving
        /\ poll' = [p \in Pools |-> IF p \in ready THEN "open" ELSE "none"]
        /\ pending' = PendingAfter(checkpoint, advertised)
        /\ UNCHANGED <<count, cancelled, confirmed, github, drifted>>
    BY <1>1 DEF Begin
  <2> HIDE DEF loaded, advertised, checkpoint
  <2>3. observed' \in [Pools -> Observation] /\ saveFailed' \in BOOLEAN
    BY <2>1, <2>2, PersistType DEF TypeOK
  <2>4. pending' \in [Pools -> Nat \cup {NoLimit}]
    BY <2>1, <2>2, PendingAfterType
  <2> QED
    BY <2>0, <2>1, <2>2, <2>3, <2>4 DEF TypeOK, PollStates, github
<1>2. ASSUME NEW p \in Pools, Reach(p) PROVE TypeOK'
  BY SMT, <1>2 DEF Reach, TypeOK, PollStates
<1>3. ASSUME NEW p \in Pools, NEW n \in Counts, NEW renewed \in BOOLEAN,
             Answer(p, n, renewed)
      PROVE  TypeOK'
  BY SMT, <1>3 DEF Answer, TypeOK, PollStates, AtMost
<1>4. ASSUME NEW p \in Pools, Fail(p) PROVE TypeOK'
  BY <1>4 DEF Fail, TypeOK, PollStates, github
<1>5. ASSUME NEW cause \in {"inputs", "stop"}, Cancel(cause) PROVE TypeOK'
  BY <1>5 DEF Cancel, TypeOK, github
<1>6. ASSUME NEW plan \in Plans, NEW affordable \in Plans, NEW slots \in 0..HostLimit,
             NEW ok \in BOOLEAN, CadenceTick(plan, slots, affordable, ok)
      PROVE  TypeOK'
  <2> DEFINE advertised == SequenceCapacityTransfer(cadence, plan)
  <2> DEFINE assigned == [p \in Pools |-> cadence[p].assigned]
  <2> DEFINE checkpoint == PollCheckpoint(cadence, advertised, assigned, Pools)
  <2>1. advertised \in [Pools -> Nat] /\ checkpoint \in [Pools -> Observation]
    BY TickFacts
  <2>2. /\ Persist(ok, checkpoint)
        /\ cadence' = checkpoint
        /\ pending' = affordable \/ pending' = PendingAfter(checkpoint, advertised)
        /\ cancelled' \in {"no", "inputs", "stop"}
        /\ UNCHANGED <<pc, previous, sent, same, forced, poll, count, confirmed,
                       github, drifted>>
    BY <1>6 DEF CadenceTick
  <2> HIDE DEF advertised, checkpoint
  <2>3. observed' \in [Pools -> Observation] /\ saveFailed' \in BOOLEAN
    BY <2>1, <2>2, PersistType
  <2>4. pending' \in [Pools -> Nat \cup {NoLimit}]
    <3>1. affordable \in [Pools -> Nat]
      BY PlansAreCapacities
    <3> QED  BY SMT, <2>1, <2>2, <3>1, PendingAfterType
  <2> QED
    BY <2>1, <2>2, <2>3, <2>4 DEF TypeOK, github
<1>7. ASSUME NEW ok \in BOOLEAN, Heartbeat(ok) PROVE TypeOK'
  <2>1. observed' \in [Pools -> Observation] /\ saveFailed' \in BOOLEAN
    BY <1>7, PersistType DEF Heartbeat, TypeOK
  <2> QED
    BY <1>7, <2>1 DEF Heartbeat, TypeOK, github
<1>8. CASE Rerun
  BY <1>8, EndStepType DEF Rerun, TypeOK, github
<1>9. ASSUME NEW ok \in BOOLEAN, Timeout(ok) PROVE TypeOK'
  <2> DEFINE assigned == [p \in Pools |-> FinalObservation(p).assigned]
  <2> DEFINE checkpoint == PollCheckpoint(previous, sent, assigned, same)
  <2>1. checkpoint \in [Pools -> Observation]
    <3>1. assigned \in [Pools -> Counts]
      BY FinalObservationType DEF Observation
    <3> HIDE DEF assigned
    <3> QED  BY <3>1, PollCheckpointFacts DEF TypeOK
  <2>2. /\ Persist(ok, checkpoint)
        /\ pending' = PendingAfter(checkpoint, sent)
        /\ EndStep(IF ok THEN checkpoint ELSE observed)
        /\ UNCHANGED github
    BY <1>9 DEF Timeout
  <2> HIDE DEF checkpoint
  <2>3. pending' \in [Pools -> Nat \cup {NoLimit}]
    BY <2>2, PendingAfterType DEF TypeOK
  <2> QED
    BY <2>1, <2>2, <2>3, PersistType, EndStepType DEF TypeOK, github
<1>10. CASE Apply
  <2>1. confirmed' \in [Pools -> 0..2]
    BY <1>10, ZeroConfirmationsType DEF Apply
  <2> QED
    BY <1>10, <2>1 DEF Apply, TypeOK, github
<1>11. ASSUME NEW ok \in BOOLEAN, Save(ok) PROVE TypeOK'
  <2> DEFINE final == [p \in Pools |-> FinalObservation(p)]
  <2>1. final \in [Pools -> Observation]
    BY FinalObservationType
  <2>2. /\ Persist(ok, final)
        /\ pending' = PendingAfter(final, sent)
        /\ EndStep(IF ok THEN final ELSE observed)
        /\ UNCHANGED github
    BY <1>11 DEF Save
  <2> HIDE DEF final
  <2>3. pending' \in [Pools -> Nat \cup {NoLimit}]
    BY <2>2, PendingAfterType DEF TypeOK
  <2> QED
    BY <2>1, <2>2, <2>3, PersistType, EndStepType DEF TypeOK, github
<1>12. CASE Abandon
  BY <1>12, EndStepType DEF Abandon, TypeOK, github
<1>13. CASE Crash
  BY <1>13, EndStepType DEF Crash, TypeOK, github
<1>14. CASE UNCHANGED vars
  BY <1>14 DEF vars, step, github, TypeOK
<1> QED
  BY SMT, <1>1, <1>2, <1>3, <1>4, <1>5, <1>6, <1>7, <1>8, <1>9, <1>10, <1>11, <1>12, <1>13, <1>14
     DEF Next, BeginSome, TickSome

-------------------------------------------------------------------------------
(* The inductive invariant.                                                    *)

\* An acknowledgement in a record that outlives the step.
Earned(record) ==
  \A p \in Pools : record[p].acknowledged =>
    /\ capacity[p] = record[p].maxCapacity
    /\ (record[p].maxCapacity = 0) => (record[p].confirmations <= zeroPolls[p])

\* The inductive invariant holds of a fresh host.
LEMMA InitInv == Init => IInv
<1> SUFFICES ASSUME Init PROVE IInv
  OBVIOUS
<1>1. TypeOK
  BY InitType
<1>2. Scoped /\ Heard
  BY DEF Init, Scoped, Heard
<1>3. Covered
  BY SMT, ZeroPlanAssumption DEF Init, Covered, Zero
<1>4. Settled
  BY DEF Init, Settled, NoRecord, Blank, Zero
<1>5. Truthful(observed) /\ Truthful(cadence) /\ Loaded /\ Counted
  BY DEF Init, Truthful, Loaded, Counted, NoRecord, Blank
<1> QED
  BY <1>1, <1>2, <1>3, <1>4, <1>5 DEF IInv

\* However a step ends, the invariant holds again once the record it leaves
\* claims only what was earned, or a write has failed.
LEMMA EndStepInv ==
  ASSUME IInv, TypeOK', EndStep(observed'), UNCHANGED github,
         saveFailed => saveFailed',
         ~saveFailed' => Earned(observed)'
  PROVE  IInv'
<1>1. /\ pc' = "idle" /\ sent' = Zero /\ previous' = NoRecord /\ cadence' = NoRecord
      /\ poll' = [p \in Pools |-> "none"]
      /\ capacity' = capacity /\ zeroPolls' = zeroPolls
  BY DEF EndStep, github
<1>2. Scoped' /\ Heard'
  BY <1>1 DEF Scoped, Heard
<1>3. ~drifted' => Covered' /\ Settled'
  <2> SUFFICES ASSUME ~drifted' PROVE Covered' /\ Settled'
    OBVIOUS
  <2>1. ~drifted /\ \A p \in Pools : capacity[p] = observed'[p].maxCapacity
    BY Zenon DEF EndStep
  <2>2. PICK f \in Plans : \A p \in Pools : capacity[p] <= f[p]
    BY <2>1 DEF IInv, Covered
  <2>3. \A p \in Pools : f[p] \in Nat
    BY PlansAreCapacities
  <2>4. \A p \in Pools : capacity'[p] <= f[p] /\ sent'[p] <= f[p]
    BY SMT, <1>1, <2>2, <2>3 DEF Zero
  <2> QED
    BY <1>1, <2>1, <2>4 DEF Covered, Settled
<1>4. ~saveFailed' => Truthful(observed)'
  BY <1>1 DEF Earned, Truthful
<1>5. Truthful(cadence)' /\ Loaded' /\ Counted'
  BY <1>1 DEF Truthful, Loaded, Counted, NoRecord, Blank
<1> QED
  BY <1>1, <1>2, <1>3, <1>4, <1>5 DEF IInv

\* Opening the polls of a step.
LEMMA BeginInv ==
  ASSUME IInv, TypeOK', NEW serving \in BOOLEAN, NEW readable \in BOOLEAN,
         NEW ok \in BOOLEAN, NEW ready \in SUBSET Pools, NEW plan \in Plans,
         NEW kept \in SUBSET ready, Begin(serving, readable, ready, kept, plan, ok)
  PROVE  IInv'
<1> DEFINE loaded == IF readable THEN observed ELSE NoRecord
<1> DEFINE advertised == CapByPending(SequenceCapacityTransfer(loaded, plan))
<1> DEFINE assigned == [p \in Pools |-> IF p \in ready THEN loaded[p].assigned ELSE 0]
<1> DEFINE checkpoint == PollCheckpoint(loaded, advertised, assigned, kept)
<1>1. loaded \in [Pools -> Observation]
  BY NoRecordType DEF IInv, TypeOK
<1>2. /\ advertised \in [Pools -> Nat]
      /\ assigned \in [Pools -> Counts]
      /\ \A p \in Pools : advertised[p] <= plan[p]
      /\ \/ \A p \in Pools : advertised[p] <= loaded[p].maxCapacity
         \/ \A p \in Pools : loaded[p].maxCapacity <= plan[p]
  <2> HIDE DEF loaded
  <2> QED  BY <1>1, BeginFacts, Zenon DEF IInv
<1>3. \A p \in Pools : /\ readable => loaded[p] = observed[p]
                       /\ ~readable => loaded[p].maxCapacity = 0 /\ ~loaded[p].acknowledged
  BY DEF NoRecord, Blank
<1>4. /\ IF ready = {} THEN UNCHANGED <<observed, saveFailed>> ELSE Persist(ok, checkpoint)
      /\ pc = "idle" /\ pc' = "polling"
      /\ previous' = loaded /\ cadence' = checkpoint /\ sent' = advertised
      /\ poll' = [p \in Pools |-> IF p \in ready THEN "open" ELSE "none"]
      /\ capacity' = capacity /\ zeroPolls' = zeroPolls /\ drifted' = drifted
  BY DEF Begin, github
<1> HIDE DEF loaded, advertised, assigned
<1>5. \A p \in Pools :
        /\ checkpoint[p].maxCapacity = loaded[p].maxCapacity
        /\ checkpoint[p].acknowledged =>
             /\ loaded[p].acknowledged
             /\ loaded[p].maxCapacity = advertised[p]
             /\ checkpoint[p].confirmations \in {0, loaded[p].confirmations}
  BY SMT, <1>1, <1>2, PollCheckpointFacts
<1> HIDE DEF checkpoint
<1>6. Scoped' /\ Heard'
  BY <1>4 DEF Scoped, Heard
<1>7. ~drifted' => Covered'
  <2> SUFFICES ASSUME ~drifted PROVE Covered'
    BY <1>4
  <2>1. PICK f \in Plans : \A p \in Pools : capacity[p] <= f[p]
    BY DEF IInv, Covered
  <2>2. \A p \in Pools : /\ capacity[p] = observed[p].maxCapacity
                         /\ capacity[p] \in Nat /\ f[p] \in Nat /\ plan[p] \in Nat
                         /\ advertised[p] \in Nat
    BY <1>2, <1>4, PlansAreCapacities DEF IInv, Settled, TypeOK
  <2>3. CASE \A p \in Pools : advertised[p] <= loaded[p].maxCapacity
    <3>1. \A p \in Pools : capacity'[p] <= f[p] /\ sent'[p] <= f[p]
      BY SMT, <1>3, <1>4, <2>1, <2>2, <2>3
    <3> QED  BY <3>1 DEF Covered
  <2>4. CASE readable /\ \A p \in Pools : loaded[p].maxCapacity <= plan[p]
    <3>1. \A p \in Pools : capacity'[p] <= plan[p] /\ sent'[p] <= plan[p]
      BY <1>2, <1>3, <1>4, <2>2, <2>4
    <3> QED  BY <3>1 DEF Covered
  <2>5. CASE ~readable
    <3>1. \A p \in Pools : plan[p] = 0
      BY <2>5 DEF Begin, Zero
    <3>2. \A p \in Pools : capacity'[p] <= f[p] /\ sent'[p] <= f[p]
      BY SMT, <1>2, <1>4, <2>1, <2>2, <3>1
    <3> QED  BY <3>2 DEF Covered
  <2> QED
    BY <1>2, <2>3, <2>4, <2>5
<1>8. ~saveFailed' => Truthful(observed)' /\ Truthful(cadence)' /\ Loaded' /\ Counted'
  <2> SUFFICES ASSUME ~saveFailed'
               PROVE  Truthful(observed)' /\ Truthful(cadence)' /\ Loaded' /\ Counted'
    OBVIOUS
  <2>1. ~saveFailed /\ ((observed' = observed /\ ready = {}) \/ observed' = checkpoint)
    BY <1>4 DEF Persist
  <2>2. \A p \in Pools : observed[p].acknowledged =>
          /\ capacity[p] = observed[p].maxCapacity
          /\ (observed[p].maxCapacity = 0) => (observed[p].confirmations <= zeroPolls[p])
    BY <2>1 DEF IInv, Truthful
  <2>3. \A p \in Pools : loaded[p].acknowledged =>
          /\ capacity[p] = loaded[p].maxCapacity
          /\ (loaded[p].maxCapacity = 0) => (loaded[p].confirmations <= zeroPolls[p])
    BY <1>3, <2>2
  <2>4. \A p \in Pools : zeroPolls[p] \in Nat
    BY SMT DEF IInv, TypeOK
  <2>5. Truthful(cadence)'
    BY SMT, <1>4, <1>5, <2>3, <2>4 DEF Truthful
  <2>6. Truthful(observed)'
    <3>1. CASE observed' = observed /\ ready = {}
      BY <1>4, <2>2, <3>1 DEF Truthful
    <3>2. CASE observed' = checkpoint
      BY <1>4, <2>5, <3>2 DEF Truthful
    <3> QED  BY <2>1, <3>1, <3>2
  <2>7. Loaded'
    BY <1>4, <2>3 DEF Loaded
  <2>8. Counted'
    BY <1>4 DEF Counted
  <2> QED
    BY <2>5, <2>6, <2>7, <2>8
<1> QED
  BY <1>4, <1>6, <1>7, <1>8 DEF IInv

\* A poll landing, in any order with the others.
LEMMA ReachInv ==
  ASSUME IInv, TypeOK', NEW p \in Pools, Reach(p)
  PROVE  IInv'
<1>1. /\ pc = "polling" /\ pc' = "polling" /\ poll[p] = "open"
      /\ poll' = [poll EXCEPT ![p] = "reached"]
      /\ capacity' = [capacity EXCEPT ![p] = sent[p]]
      /\ zeroPolls' = [zeroPolls EXCEPT ![p] = IF sent[p] = 0 THEN @ ELSE 0]
      /\ UNCHANGED <<observed, previous, cadence, sent, drifted, saveFailed>>
  BY DEF Reach
<1>2. Scoped'
  BY <1>1 DEF Scoped
<1>3. Heard'
  BY <1>1 DEF IInv, TypeOK, Heard
<1>4. ~drifted' => Covered'
  BY <1>1 DEF IInv, TypeOK, Covered
<1>5. ~saveFailed => Truthful(observed)' /\ Truthful(cadence)'
  BY ZenonT(60), <1>1 DEF IInv, TypeOK, Truthful
<1>6. ~saveFailed => Loaded'
  BY <1>1 DEF IInv, TypeOK, Loaded
<1>7. ~saveFailed => Counted'
  BY <1>1 DEF IInv, TypeOK, Counted, AtMost
<1> QED
  BY <1>1, <1>2, <1>3, <1>4, <1>5, <1>6, <1>7 DEF IInv

\* An answer is counted once, and only at zero.
LEMMA AnswerInv ==
  ASSUME IInv, TypeOK', NEW p \in Pools, NEW n \in Counts, NEW renewed \in BOOLEAN,
         Answer(p, n, renewed)
  PROVE  IInv'
<1>1. /\ pc = "polling" /\ pc' = "polling" /\ poll[p] = "reached"
      /\ poll' = [poll EXCEPT ![p] = "answered"]
      /\ zeroPolls' = [zeroPolls EXCEPT ![p] = IF sent[p] = 0 THEN AtMost(@ + 1, 2) ELSE 0]
      /\ UNCHANGED <<observed, previous, cadence, sent, capacity, drifted, saveFailed>>
  BY DEF Answer
<1>2. Scoped'
  BY <1>1 DEF Scoped
<1>3. Heard'
  BY SMT, <1>1 DEF IInv, TypeOK, Heard, AtMost
<1>4. ~drifted' => Covered'
  BY <1>1 DEF IInv, Covered
<1>a. \A q \in Pools :
        /\ zeroPolls[q] \in 0..2 /\ zeroPolls'[q] \in 0..2
        /\ previous[q].confirmations \in 0..2
        /\ observed[q].confirmations \in 0..2
        /\ cadence[q].confirmations \in 0..2
  BY DEF IInv, TypeOK, Observation
<1>b. \A q \in Pools : q # p => poll'[q] = poll[q] /\ zeroPolls'[q] = zeroPolls[q]
  BY <1>1 DEF IInv, TypeOK
<1>c. sent[p] = 0 => zeroPolls'[p] = AtMost(zeroPolls[p] + 1, 2)
  BY <1>1 DEF IInv, TypeOK
<1>d. \A q \in Pools : (q = p => sent[q] = 0) => zeroPolls[q] <= zeroPolls'[q]
  BY SMT, <1>a, <1>b, <1>c DEF AtMost
<1>5. ~saveFailed => Truthful(observed)' /\ Truthful(cadence)'
  BY SMT, <1>1, <1>a, <1>b, <1>d DEF IInv, Truthful
<1>6. ~saveFailed => Loaded'
  BY SMT, <1>1, <1>a, <1>b, <1>d DEF IInv, Loaded
<1>7. ~saveFailed => Counted'
  BY SMT, <1>1, <1>a, <1>b, <1>c DEF IInv, Loaded, Counted, AtMost
<1> QED
  BY <1>1, <1>2, <1>3, <1>4, <1>5, <1>6, <1>7 DEF IInv

\* A poll giving up says nothing about what GitHub holds.
LEMMA FailInv ==
  ASSUME IInv, TypeOK', NEW p \in Pools, Fail(p)
  PROVE  IInv'
<1>1. /\ pc = "polling" /\ pc' = "polling" /\ poll[p] \in {"open", "reached"}
      /\ poll' = [poll EXCEPT ![p] = "failed"]
      /\ UNCHANGED <<observed, previous, cadence, sent, capacity, zeroPolls,
                     drifted, saveFailed>>
  BY DEF Fail, github
<1>2. Scoped' /\ Heard'
  BY <1>1 DEF IInv, TypeOK, Scoped, Heard
<1>3. ~drifted' => Covered'
  BY <1>1 DEF IInv, Covered
<1>4. ~saveFailed => Truthful(observed)' /\ Truthful(cadence)' /\ Loaded' /\ Counted'
  BY ZenonT(60), <1>1 DEF IInv, TypeOK, Truthful, Loaded, Counted
<1> QED
  BY <1>1, <1>2, <1>3, <1>4 DEF IInv

\* A tick only weakens the checkpoint it holds and writes that.
LEMMA CadenceTickInv ==
  ASSUME IInv, TypeOK', NEW plan \in Plans, NEW slots, NEW affordable,
         NEW ok \in BOOLEAN, CadenceTick(plan, slots, affordable, ok)
  PROVE  IInv'
<1> DEFINE advertised == SequenceCapacityTransfer(cadence, plan)
<1> DEFINE assigned == [p \in Pools |-> cadence[p].assigned]
<1> DEFINE checkpoint == PollCheckpoint(cadence, advertised, assigned, Pools)
<1>1. cadence \in [Pools -> Observation] /\ assigned \in [Pools -> Counts]
  BY TickFacts DEF IInv, TypeOK
<1>2. /\ pc = "polling" /\ pc' = "polling"
      /\ Persist(ok, checkpoint)
      /\ cadence' = checkpoint
      /\ UNCHANGED <<previous, sent, poll, capacity, zeroPolls, drifted>>
  BY DEF CadenceTick, github
<1> HIDE DEF advertised, assigned
<1>3. \A p \in Pools :
        /\ checkpoint[p].maxCapacity = cadence[p].maxCapacity
        /\ checkpoint[p].acknowledged =>
             /\ cadence[p].acknowledged
             /\ checkpoint[p].confirmations \in {0, cadence[p].confirmations}
  BY DEF PollCheckpoint
<1> HIDE DEF checkpoint
<1>4. Scoped' /\ Heard'
  BY <1>2 DEF IInv, Scoped, Heard
<1>5. ~drifted' => Covered'
  BY <1>2 DEF IInv, Covered
<1>6. ~saveFailed' => Truthful(observed)' /\ Truthful(cadence)'
  <2> SUFFICES ASSUME ~saveFailed' PROVE Truthful(observed)' /\ Truthful(cadence)'
    OBVIOUS
  <2>1. ~saveFailed /\ observed' = checkpoint
    BY <1>2 DEF Persist
  <2>2. \A p \in Pools : zeroPolls[p] \in Nat
    BY SMT DEF IInv, TypeOK
  <2>3. Truthful(cadence)'
    BY SMT, <1>2, <1>3, <2>1, <2>2 DEF IInv, Truthful
  <2> QED
    BY <1>2, <2>1, <2>3 DEF Truthful
<1>7. ~saveFailed' => Loaded' /\ Counted'
  BY <1>2 DEF IInv, Loaded, Counted, Persist
<1> QED
  BY <1>2, <1>4, <1>5, <1>6, <1>7 DEF IInv

\* The degraded checkpoint of a stopped step.
LEMMA TimeoutInv ==
  ASSUME IInv, TypeOK', NEW ok \in BOOLEAN, Timeout(ok)
  PROVE  IInv'
<1> DEFINE assigned == [p \in Pools |-> FinalObservation(p).assigned]
<1> DEFINE checkpoint == PollCheckpoint(previous, sent, assigned, same)
<1>1. /\ Persist(ok, checkpoint)
      /\ EndStep(IF ok THEN checkpoint ELSE observed)
      /\ UNCHANGED github
  BY DEF Timeout
<1>2. \A p \in Pools :
        /\ checkpoint[p].maxCapacity = previous[p].maxCapacity
        /\ checkpoint[p].acknowledged =>
             /\ previous[p].acknowledged
             /\ previous[p].maxCapacity = sent[p]
             /\ checkpoint[p].confirmations \in {0, previous[p].confirmations}
  <2> HIDE DEF assigned
  <2> QED  BY DEF PollCheckpoint
<1> HIDE DEF checkpoint
<1>3. EndStep(observed') /\ (saveFailed => saveFailed')
  BY <1>1 DEF Persist
<1>4. ~saveFailed' => Earned(observed)'
  <2> SUFFICES ASSUME ~saveFailed' PROVE Earned(observed)'
    OBVIOUS
  <2>1. ~saveFailed /\ observed' = checkpoint
    BY <1>1 DEF Persist
  <2>2. /\ capacity' = capacity /\ zeroPolls' = zeroPolls
        /\ \A p \in Pools : zeroPolls[p] \in Nat
    BY SMT, <1>1 DEF IInv, TypeOK, github
  <2> QED
    BY SMT, <1>2, <2>1, <2>2 DEF IInv, Loaded, Earned
<1> QED
  BY <1>1, <1>3, <1>4, EndStepInv

\* The closing save records what the answered polls earned.
LEMMA SaveInv ==
  ASSUME IInv, TypeOK', NEW ok \in BOOLEAN, Save(ok)
  PROVE  IInv'
<1> DEFINE final == [p \in Pools |-> FinalObservation(p)]
<1>1. /\ pc = "acting"
      /\ Persist(ok, final)
      /\ EndStep(IF ok THEN final ELSE observed)
      /\ UNCHANGED github
  BY DEF Save
<1>2. \A p \in Pools : final[p].acknowledged =>
        /\ poll[p] = "answered"
        /\ final[p].maxCapacity = sent[p]
        /\ final[p].confirmations = ZeroConfirmations(p)
  BY <1>1 DEF FinalObservation, IInv, Scoped
<1>3. ~saveFailed => \A p \in Pools :
        (poll[p] = "answered" /\ sent[p] = 0) => ZeroConfirmations(p) <= zeroPolls[p]
  <2> SUFFICES ASSUME ~saveFailed, NEW p \in Pools, poll[p] = "answered", sent[p] = 0
               PROVE  ZeroConfirmations(p) <= zeroPolls[p]
    OBVIOUS
  <2>1. zeroPolls[p] \in 0..2 /\ previous[p].confirmations \in 0..2 /\ zeroPolls[p] >= 1
    BY DEF IInv, TypeOK, Observation, Heard
  <2>2. (previous[p].acknowledged /\ previous[p].maxCapacity = 0)
          => AtMost(previous[p].confirmations + 1, 2) <= zeroPolls[p]
    BY DEF IInv, Counted
  <2> QED
    BY SMT, <2>1, <2>2 DEF ZeroConfirmations
<1> HIDE DEF final
<1>4. EndStep(observed') /\ (saveFailed => saveFailed')
  BY <1>1 DEF Persist
<1>5. ~saveFailed' => Earned(observed)'
  <2> SUFFICES ASSUME ~saveFailed' PROVE Earned(observed)'
    OBVIOUS
  <2>1. ~saveFailed /\ observed' = final
    BY <1>1 DEF Persist
  <2>2. capacity' = capacity /\ zeroPolls' = zeroPolls
    BY <1>1 DEF github
  <2> QED
    BY <1>2, <1>3, <2>1, <2>2 DEF IInv, Heard, Earned
<1> QED
  BY <1>1, <1>4, <1>5, EndStepInv

\* Every step keeps the inductive invariant.
LEMMA InvStep == IInv /\ [Next]_vars => IInv'
<1> SUFFICES ASSUME IInv, [Next]_vars PROVE IInv'
  OBVIOUS
<1> USE DEF IInv
<1>0. TypeOK'
  BY TypeStep
<1>e. ~saveFailed => Earned(observed)
  BY DEF Truthful, Earned
<1> HIDE DEF IInv
<1>1. CASE BeginSome
  BY SMT, <1>0, <1>1, BeginInv DEF BeginSome
<1>2. CASE \E p \in Pools : Reach(p)
  BY <1>0, <1>2, ReachInv
<1>3. CASE \E p \in Pools, n \in Counts, renewed \in BOOLEAN : Answer(p, n, renewed)
  BY <1>0, <1>3, AnswerInv
<1>4. CASE \E p \in Pools : Fail(p)
  BY <1>0, <1>4, FailInv
<1>5. CASE \E cause \in {"inputs", "stop"} : Cancel(cause)
  <2>1. /\ pc = "polling"
        /\ UNCHANGED <<observed, pc, previous, cadence, sent, poll, confirmed,
                       capacity, zeroPolls, drifted, saveFailed>>
    BY <1>5 DEF Cancel, github
  <2> QED
    BY <1>0, <2>1 DEF IInv, Scoped, Heard, Covered, Truthful, Loaded, Counted
<1>6. CASE TickSome
  BY <1>0, <1>6, CadenceTickInv DEF TickSome
<1>7. CASE \E ok \in BOOLEAN : Heartbeat(ok)
  <2>1. PICK ok \in BOOLEAN : Heartbeat(ok)
    BY <1>7
  <2>2. /\ pc = "polling" /\ Persist(ok, cadence)
        /\ UNCHANGED <<pc, previous, cadence, sent, poll, confirmed,
                       capacity, zeroPolls, drifted>>
    BY <2>1 DEF Heartbeat, github
  <2>3. Scoped' /\ Heard' /\ (~drifted' => Covered')
    BY <2>2 DEF IInv, Scoped, Heard, Covered
  <2>4. ~saveFailed' => Truthful(observed)' /\ Truthful(cadence)' /\ Loaded' /\ Counted'
    BY <2>2 DEF IInv, Persist, Truthful, Loaded, Counted
  <2> QED
    BY <1>0, <2>2, <2>3, <2>4 DEF IInv
<1>8. CASE Rerun \/ Abandon \/ Crash
  <2>1. EndStep(observed) /\ UNCHANGED <<observed, github, saveFailed>>
    BY <1>8 DEF Rerun, Abandon, Crash
  <2>2. EndStep(observed') /\ (saveFailed => saveFailed')
    BY <2>1
  <2>3. ~saveFailed' => Earned(observed)'
    BY <1>e, <2>1 DEF Earned, github
  <2> QED
    BY <1>0, <2>1, <2>2, <2>3, EndStepInv
<1>9. CASE \E ok \in BOOLEAN : Timeout(ok)
  BY <1>0, <1>9, TimeoutInv
<1>10. CASE Apply
  <2>1. /\ pc' = "acting"
        /\ confirmed' = [p \in Pools |-> ZeroConfirmations(p)]
        /\ UNCHANGED <<observed, previous, cadence, sent, poll, count,
                       capacity, zeroPolls, drifted, saveFailed>>
    BY <1>10 DEF Apply, github
  <2>2. Scoped'
    BY <2>1 DEF Scoped, ZeroConfirmations
  <2>3. Heard' /\ (~drifted' => Covered')
    BY <2>1 DEF IInv, Heard, Covered
  <2>4. ~saveFailed' => Truthful(observed)' /\ Truthful(cadence)' /\ Loaded' /\ Counted'
    BY <2>1 DEF IInv, Truthful, Loaded, Counted
  <2> QED
    BY <1>0, <2>1, <2>2, <2>3, <2>4 DEF IInv
<1>11. CASE \E ok \in BOOLEAN : Save(ok)
  BY <1>0, <1>11, SaveInv
<1>12. CASE UNCHANGED vars
  BY ZenonT(60), <1>0, <1>12 DEF vars, step, github, IInv, Scoped, ZeroConfirmations, Heard,
     Covered, Settled, Truthful, Loaded, Counted
<1> QED
  BY <1>1, <1>2, <1>3, <1>4, <1>5, <1>6, <1>7, <1>8, <1>9, <1>10, <1>11, <1>12 DEF Next

-------------------------------------------------------------------------------
(* Theorems.                                                                   *)

\* IInv holds in every reachable state of the handshake.
THEOREM Invariant == Spec => []IInv
<1>1. Init => IInv
  BY InitInv
<1>2. IInv /\ [Next]_vars => IInv'
  BY InvStep
<1> QED
  BY <1>1, <1>2, PTL DEF Spec

\* Every variable of the handshake keeps its type.
THEOREM TypeCorrect == Spec => []TypeOK
<1>1. IInv => TypeOK
  BY DEF IInv
<1> QED
  BY <1>1, Invariant, PTL

\* For any number of pools and any host limit, an acknowledgement persisted by
\* SaveObserved is the capacity GitHub holds, unless a write has failed.
THEOREM AcknowledgementSound == Spec => []AcknowledgedIsTrue
<1>1. IInv => AcknowledgedIsTrue
  BY DEF IInv, Truthful, AcknowledgedIsTrue
<1> QED
  BY <1>1, Invariant, PTL

\* The retirement loop's guards imply a drained listener and two answered zero
\* polls, unless a write has failed.
THEOREM QuiescenceSound == Spec => []QuiescenceIsReal
<1>1. IInv => QuiescenceIsReal
  <2> SUFFICES ASSUME IInv, ~saveFailed, NEW p \in Pools, RetirementAllowed(p)
               PROVE  capacity[p] = 0 /\ zeroPolls[p] = 2
    BY DEF QuiescenceIsReal
  <2>1. /\ poll[p] = "answered" /\ sent[p] = 0
        /\ confirmed[p] = ZeroConfirmations(p) /\ confirmed[p] >= 2
    BY DEF RetirementAllowed, IInv, Scoped
  <2>2. capacity[p] = 0
    BY <2>1 DEF IInv, Heard
  <2>3. /\ previous[p].acknowledged /\ previous[p].maxCapacity = 0
        /\ AtMost(previous[p].confirmations + 1, 2) >= 2
    BY SMT, <2>1 DEF ZeroConfirmations
  <2>4. /\ AtMost(previous[p].confirmations + 1, 2) <= zeroPolls[p]
        /\ zeroPolls[p] \in 0..2 /\ previous[p].confirmations \in 0..2
    BY <2>1, <2>3 DEF IInv, TypeOK, Observation, Counted
  <2> QED
    BY SMT, <2>2, <2>3, <2>4 DEF AtMost
<1> QED
  BY <1>1, Invariant, PTL

\* sequenceCapacityTransfer keeps one slot from being offered by two listeners
\* as long as every step ended with a record that agrees with GitHub.
THEOREM TransferSound == Spec => []NoSlotExposedTwice
<1>1. IInv => NoSlotExposedTwice
  BY DEF IInv, Covered, NoSlotExposedTwice
<1> QED
  BY <1>1, Invariant, PTL
-------------------------------------------------------------------------------
(* The gates.  A count of the gate began with the earliest reading of the run the
   observations end with; kind is the set of the positions that are of its kind. *)
Seen == [cpu : {"high", "between", "low", "invalid"}, ac : BOOLEAN, now : 0..MaxTime]

Ends(kind, o, j) ==
    j \in 1..Len(o) /\ \A k \in j..Len(o) : k \in kind /\ o[k].now >= o[j].now

Counting(kind, since, o) ==
    /\ since # Never => \E i \in 1..Len(o) : Ends(kind, o, i) /\ o[i].now = since
    /\ \A j \in 1..Len(o) : Ends(kind, o, j) => since <= o[j].now

Highs(o) == {k \in 1..Len(o) : o[k].cpu = "high"}
Lows(o)  == {k \in 1..Len(o) : o[k].cpu = "low"}
ACs(o)   == {k \in 1..Len(o) : o[k].ac}

\* The inductive invariant: an open gate counts load, a closed one quiet, and the power
\* gate AC.
GatesInv ==
    /\ trace \in Seq(Seen)
    /\ gate \in [blocked : BOOLEAN, reason : {"", "cpu", "invalid"},
                 high : 0..Never, healthy : 0..Never]
    /\ acSince \in 0..Never
    /\ ~gate.blocked => Counting(Highs(trace), gate.high, trace)
    /\ gate.blocked /\ gate.reason # "" => Counting(Lows(trace), gate.healthy, trace)
    /\ ~PowerAlways => Counting(ACs(trace), acSince, trace)

\* What an observation adds to the observations.
LEMMA Added ==
    ASSUME NEW o \in Seq(Seen), NEW x \in Seen
    PROVE  LET p == Append(o, x) IN
           /\ p \in Seq(Seen) /\ Len(o) \in Nat /\ Len(p) = Len(o) + 1
           /\ p[Len(o) + 1] = x /\ \A k \in 1..Len(o) : p[k] = o[k]
           /\ \A k \in 1..(Len(o) + 1) : p[k] \in Seen /\ p[k].now \in 0..MaxTime
<1>1. /\ Append(o, x) \in Seq(Seen) /\ Len(o) \in Nat
      /\ Len(Append(o, x)) = Len(o) + 1
      /\ Append(o, x)[Len(o) + 1] = x /\ \A k \in 1..Len(o) : Append(o, x)[k] = o[k]
  BY SMT
<1>2. \A k \in 1..(Len(o) + 1) : Append(o, x)[k] \in Seen
  BY SMT, <1>1
<1>3. \A y \in Seen : y.now \in 0..MaxTime
  BY DEF Seen
<1> QED BY <1>1, <1>2, <1>3

\* An observation of another kind ends a run.
LEMMA CountEnds ==
    ASSUME NEW n \in Nat, NEW p, Len(p) = n + 1, NEW kind, n + 1 \notin kind
    PROVE  Counting(kind, Never, p) /\ \A j \in 1..(n + 1) : ~Ends(kind, p, j)
<1>1. ASSUME NEW j \in 1..(n + 1) PROVE ~Ends(kind, p, j)
  <2>1. n + 1 \in j..(n + 1)
    BY SMT
  <2> QED BY <2>1 DEF Ends
<1> QED BY <1>1 DEF Counting

\* An observation of the kind goes on with the run, or starts one.
LEMMA CountGoesOn ==
    ASSUME NEW o \in Seq(Seen), NEW x \in Seen, NEW kind, NEW since \in 0..Never,
           Len(o) + 1 \in kind, Counting(kind \cap (1..Len(o)), since, o)
    PROVE  LET s == Since(since, x.now) IN
           Counting(kind, s, Append(o, x)) /\ s \in 0..MaxTime
<1> DEFINE p == Append(o, x)
           n == Len(o)
           s == Since(since, x.now)
           before == kind \cap (1..n)
<1>1. /\ n \in Nat /\ Len(p) = n + 1 /\ p[n + 1] = x /\ \A k \in 1..n : p[k] = o[k]
      /\ \A k \in 1..(n + 1) : p[k].now \in 0..MaxTime
  BY Added
<1>2. x.now \in 0..MaxTime /\ MaxTime \in Nat /\ Never = MaxTime + 1
  BY GatesAssumption DEF Seen, Never
<1>3. Counting(before, since, o)
  OBVIOUS
<1> HIDE DEF p, n, before
<1>4. s \in 0..MaxTime /\ s <= x.now /\ (s = x.now \/ s = since)
      /\ (s # since => since = Never \/ x.now < since)
  BY SMT, <1>2 DEF Since
<1>5. ASSUME NEW j \in 1..n, Ends(kind, p, j)
      PROVE  Ends(before, o, j) /\ o[j].now <= x.now /\ p[j] = o[j]
  <2>1. \A k \in j..(n + 1) : k \in kind /\ p[k].now >= p[j].now
    BY <1>1, <1>5 DEF Ends
  <2>2. n + 1 \in j..(n + 1) /\ \A k \in j..n : k \in j..(n + 1) /\ k \in 1..n
    BY SMT, <1>1
  <2>3. \A k \in j..n : k \in before /\ o[k].now >= o[j].now
    BY <1>1, <2>1, <2>2 DEF before
  <2>4. x.now >= o[j].now /\ o[j].now \in 0..MaxTime /\ p[j] = o[j]
    <3>1. j \in 1..(n + 1)
      BY SMT, <1>1
    <3> QED BY <1>1, <2>1, <2>2, <3>1
  <2>5. o[j].now <= x.now
    BY SMT, <1>2, <2>4
  <2> QED BY <2>3, <2>4, <2>5 DEF Ends, n
<1>6. ASSUME NEW j \in 1..(n + 1), Ends(kind, p, j)
      PROVE  s <= p[j].now
  <2>1. CASE j = n + 1
    BY <1>1, <1>4, <2>1
  <2>2. CASE j # n + 1
    <3>1. j \in 1..n
      BY SMT, <1>1, <2>2
    <3>2. Ends(before, o, j) /\ o[j].now <= x.now /\ p[j] = o[j]
      BY <1>5, <1>6, <3>1
    <3>3. since <= o[j].now
      BY <1>3, <3>1, <3>2 DEF Counting, n
    <3>4. o[j].now \in 0..MaxTime
      <4>1. j \in 1..(n + 1)
        OBVIOUS
      <4> QED BY <1>1, <3>2, <4>1
    <3> QED BY SMT, <1>2, <1>4, <3>2, <3>3, <3>4
  <2> QED BY <2>1, <2>2
<1>7. \E i \in 1..(n + 1) : Ends(kind, p, i) /\ p[i].now = s
  <2>1. CASE s = x.now
    <3>1. n + 1 \in 1..(n + 1) /\ \A k \in (n + 1)..(n + 1) : k = n + 1
      BY SMT, <1>1
    <3>2. x.now >= x.now
      BY SMT, <1>2
    <3>3. Ends(kind, p, n + 1)
      BY <1>1, <3>1, <3>2 DEF Ends, n
    <3> QED BY <1>1, <2>1, <3>1, <3>3
  <2>2. CASE s # x.now
    <3>1. s = since /\ since # Never /\ since <= x.now
      BY SMT, <1>2, <1>4, <2>2
    <3>2. PICK i \in 1..n : Ends(before, o, i) /\ o[i].now = since
      BY <1>3, <3>1 DEF Counting, n
    <3>3. i \in 1..(n + 1) /\ p[i] = o[i] /\ p[i].now = s
      <4>1. i \in 1..(n + 1)
        BY SMT, <1>1
      <4> QED BY <1>1, <3>1, <3>2, <4>1
    <3>4. ASSUME NEW k \in i..(n + 1) PROVE k \in kind /\ p[k].now >= p[i].now
      <4>1. CASE k = n + 1
        <5>1. x.now >= since
          BY SMT, <1>2, <3>1
        <5> QED BY <1>1, <3>1, <3>3, <4>1, <5>1 DEF n
      <4>2. CASE k # n + 1
        <5>1. k \in i..n /\ k \in 1..n
          BY SMT, <1>1, <4>2
        <5>2. k \in before /\ o[k].now >= o[i].now
          BY <3>2, <5>1 DEF Ends, n
        <5> QED BY <1>1, <3>3, <5>1, <5>2 DEF before
      <4> QED BY <4>1, <4>2
    <3>5. Ends(kind, p, i)
      BY <1>1, <3>3, <3>4 DEF Ends
    <3> QED BY <3>3, <3>5
  <2> QED BY <2>1, <2>2
<1>8. Counting(kind, s, p)
  BY <1>1, <1>6, <1>7 DEF Counting
<1> QED BY <1>4, <1>8 DEF p

\* A run lasted for a window exactly when its count did.
LEMMA CountLasts ==
    ASSUME NEW o \in Seq(Seen), o # <<>>, NEW kind, NEW since \in 0..MaxTime,
           Counting(kind, since, o), NEW window \in Nat
    PROVE  (\E i \in 1..Len(o) : Ends(kind, o, i) /\ Latest(o).now >= o[i].now + window)
              <=> Latest(o).now >= since + window
<1>0. Len(o) \in Nat /\ Len(o) \in 1..Len(o) /\ \A k \in 1..Len(o) : o[k] \in Seen
  BY SMT
<1>1. \A y \in Seen : y.now \in 0..MaxTime
  BY DEF Seen
<1>2. Latest(o).now \in 0..MaxTime /\ \A k \in 1..Len(o) : o[k].now \in 0..MaxTime
  BY <1>0, <1>1 DEF Latest
<1>3. since # Never
  BY SMT, GatesAssumption DEF Never
<1>4. PICK f \in 1..Len(o) : Ends(kind, o, f) /\ o[f].now = since
  BY <1>3 DEF Counting
<1>5. ASSUME NEW i \in 1..Len(o), Ends(kind, o, i), Latest(o).now >= o[i].now + window
      PROVE  Latest(o).now >= since + window
  <2>1. since <= o[i].now /\ o[i].now \in 0..MaxTime
    BY <1>2, <1>5 DEF Counting
  <2> QED BY SMT, <1>2, <1>5, <2>1, GatesAssumption
<1> QED BY <1>4, <1>5

\* The kinds of the observations, in the form the properties state them.
LEMMA Kinds ==
    ASSUME NEW o, NEW window
    PROVE  /\ Sustained(High, window, o) <=>
                \E i \in 1..Len(o) : Ends(Highs(o), o, i) /\ Latest(o).now >= o[i].now + window
           /\ Sustained(Low, window, o) <=>
                \E i \in 1..Len(o) : Ends(Lows(o), o, i) /\ Latest(o).now >= o[i].now + window
           /\ Sustained(AC, window, o) <=>
                \E i \in 1..Len(o) : Ends(ACs(o), o, i) /\ Latest(o).now >= o[i].now + window
<1>1. ASSUME NEW i \in 1..Len(o), NEW k \in i..Len(o) PROVE k \in 1..Len(o)
  BY SMT
<1>2. Sustained(High, window, o) <=>
        \E i \in 1..Len(o) : Ends(Highs(o), o, i) /\ Latest(o).now >= o[i].now + window
  BY <1>1 DEF Sustained, High, Ends, Highs
<1>3. Sustained(Low, window, o) <=>
        \E i \in 1..Len(o) : Ends(Lows(o), o, i) /\ Latest(o).now >= o[i].now + window
  BY <1>1 DEF Sustained, Low, Ends, Lows
<1>4. Sustained(AC, window, o) <=>
        \E i \in 1..Len(o) : Ends(ACs(o), o, i) /\ Latest(o).now >= o[i].now + window
  BY <1>1 DEF Sustained, AC, Ends, ACs
<1> QED BY <1>2, <1>3, <1>4

\* The positions of a kind among the observations so far.
LEMMA KindsBefore ==
    ASSUME NEW o \in Seq(Seen), NEW x \in Seen
    PROVE  LET p == Append(o, x) IN
           /\ Highs(p) \cap (1..Len(o)) = Highs(o) /\ (Len(o) + 1 \in Highs(p) <=> x.cpu = "high")
           /\ Lows(p) \cap (1..Len(o)) = Lows(o) /\ (Len(o) + 1 \in Lows(p) <=> x.cpu = "low")
           /\ ACs(p) \cap (1..Len(o)) = ACs(o) /\ (Len(o) + 1 \in ACs(p) <=> x.ac)
<1> DEFINE p == Append(o, x)
<1>1. /\ Len(o) \in Nat /\ Len(p) = Len(o) + 1
      /\ p[Len(o) + 1] = x /\ \A k \in 1..Len(o) : p[k] = o[k]
  BY Added
<1>2. Len(o) + 1 \in 1..(Len(o) + 1) /\ 1..Len(o) \subseteq 1..(Len(o) + 1)
  BY SMT, <1>1
<1> HIDE DEF p
<1>3. /\ Highs(p) \cap (1..Len(o)) = Highs(o) /\ (Len(o) + 1 \in Highs(p) <=> x.cpu = "high")
      /\ Lows(p) \cap (1..Len(o)) = Lows(o) /\ (Len(o) + 1 \in Lows(p) <=> x.cpu = "low")
      /\ ACs(p) \cap (1..Len(o)) = ACs(o) /\ (Len(o) + 1 \in ACs(p) <=> x.ac)
  BY <1>1, <1>2 DEF Highs, Lows, ACs
<1> QED BY <1>3 DEF p

\* Nothing counts at first.
LEMMA InitGates == GatesInit => GatesInv
<1> SUFFICES ASSUME GatesInit PROVE GatesInv
  OBVIOUS
<1>1. trace \in Seq(Seen) /\ Len(trace) = 0
  <2>1. <<>> \in Seq(Seen) /\ Len(<<>>) = 0
    BY SMT
  <2> QED BY <2>1 DEF GatesInit
<1>2. \A j \in 1..Len(trace) : FALSE
  BY SMT, <1>1
<1>3. Never \in 0..Never
  BY SMT, GatesAssumption DEF Never
<1>4. \A kind : Counting(kind, Never, trace)
  BY <1>2 DEF Counting
<1> DEFINE Gate == [blocked : BOOLEAN, reason : {"", "cpu", "invalid"},
                    high : 0..Never, healthy : 0..Never]
<1>5. OpenGate.blocked = FALSE /\ OpenGate.high = Never /\ OpenGate \in Gate
  BY <1>3 DEF OpenGate
<1>6. Shut("").blocked = TRUE /\ Shut("").reason = "" /\ Shut("") \in Gate
  BY <1>3 DEF OpenGate, Shut
<1> QED BY <1>1, <1>3, <1>4, <1>5, <1>6 DEF GatesInit, GatesInv

\* The resource gate after an observation: it counts on, and closes and opens on what lasted.
LEMMA ResourceStep ==
    ASSUME GatesInv, NEW x \in Seen,
           trace' = Append(trace, x), gate' = EvaluateResourceGate(gate, x.cpu, x.now)
    PROVE  /\ gate' \in [blocked : BOOLEAN, reason : {"", "cpu", "invalid"},
                         high : 0..Never, healthy : 0..Never]
           /\ ~gate'.blocked => Counting(Highs(trace'), gate'.high, trace')
           /\ gate'.blocked /\ gate'.reason # "" => Counting(Lows(trace'), gate'.healthy, trace')
           /\ ResourceGateIsWindowed
<1> DEFINE n     == Len(trace)
           now   == x.now
           Gate  == [blocked : BOOLEAN, reason : {"", "cpu", "invalid"},
                     high : 0..Never, healthy : 0..Never]
           shut  == \E i \in 1..Len(trace') : /\ Ends(Highs(trace'), trace', i)
                                              /\ now >= trace'[i].now + ObservationWindow
           quiet == \E i \in 1..Len(trace') : /\ Ends(Lows(trace'), trace', i)
                                              /\ now >= trace'[i].now + HysteresisWindow
<1>1. /\ trace \in Seq(Seen) /\ gate \in Gate
      /\ gate.high \in 0..Never /\ gate.healthy \in 0..Never /\ gate.blocked \in BOOLEAN
  BY DEF GatesInv
<1>2. /\ trace' \in Seq(Seen) /\ n \in Nat /\ Len(trace') = n + 1 /\ trace'[n + 1] = x
      /\ trace' # <<>> /\ Latest(trace') = x
  <2>1. /\ trace' \in Seq(Seen) /\ n \in Nat /\ Len(trace') = n + 1
        /\ trace'[n + 1] = x
    BY <1>1, Added
  <2>2. trace' # <<>>
    BY SMT, <2>1
  <2> QED BY <2>1, <2>2 DEF Latest
<1>3. /\ Highs(trace') \cap (1..n) = Highs(trace) /\ (n + 1 \in Highs(trace') <=> x.cpu = "high")
      /\ Lows(trace') \cap (1..n) = Lows(trace) /\ (n + 1 \in Lows(trace') <=> x.cpu = "low")
  BY <1>1, KindsBefore
<1>4. /\ x.cpu # "high" => Counting(Highs(trace'), Never, trace') /\ ~shut
      /\ x.cpu # "low" => Counting(Lows(trace'), Never, trace') /\ ~quiet
  <2> HIDE DEF n
  <2> QED BY <1>2, <1>3, CountEnds
<1>5. /\ Sustained(High, ObservationWindow, trace') <=> shut
      /\ Sustained(Low, HysteresisWindow, trace') <=> quiet
  BY <1>2, Kinds
<1>6. ASSUME ~gate.blocked, x.cpu = "high"
      PROVE  LET s == Since(gate.high, now) IN
             /\ s \in 0..MaxTime /\ Counting(Highs(trace'), s, trace')
             /\ shut <=> now >= s + ObservationWindow
  <2> DEFINE s == Since(gate.high, now)
  <2>1. Counting(Highs(trace') \cap (1..n), gate.high, trace)
    BY <1>3, <1>6 DEF GatesInv
  <2>2. Counting(Highs(trace'), s, trace') /\ s \in 0..MaxTime
    BY <1>1, <1>3, <1>6, <2>1, CountGoesOn
  <2> HIDE DEF s
  <2>3. shut <=> now >= s + ObservationWindow
    BY <1>2, <2>2, CountLasts, GatesAssumption
  <2> QED BY <2>2, <2>3 DEF s
<1>7. ASSUME gate.blocked, gate.reason # "", x.cpu = "low"
      PROVE  LET s == Since(gate.healthy, now) IN
             /\ s \in 0..MaxTime /\ Counting(Lows(trace'), s, trace')
             /\ quiet <=> now >= s + HysteresisWindow
  <2> DEFINE s == Since(gate.healthy, now)
  <2>1. Counting(Lows(trace') \cap (1..n), gate.healthy, trace)
    BY <1>3, <1>7 DEF GatesInv
  <2>2. Counting(Lows(trace'), s, trace') /\ s \in 0..MaxTime
    BY <1>1, <1>3, <1>7, <2>1, CountGoesOn
  <2> HIDE DEF s
  <2>3. quiet <=> now >= s + HysteresisWindow
    BY <1>2, <2>2, CountLasts, GatesAssumption
  <2> QED BY <2>2, <2>3 DEF s
<1>8. Never \in 0..Never /\ 0..MaxTime \subseteq 0..Never
  BY SMT, GatesAssumption DEF Never
<1> HIDE DEF shut, quiet, n
<1> DEFINE Result(g) ==
      /\ g \in Gate
      /\ ~g.blocked => Counting(Highs(trace'), g.high, trace')
      /\ g.blocked /\ g.reason # "" => Counting(Lows(trace'), g.healthy, trace')
      /\ x.cpu # "invalid" /\ ~gate.blocked => (g.blocked <=> shut)
      /\ x.cpu # "invalid" /\ gate.blocked /\ gate.reason # "" => (~g.blocked <=> quiet)
<1>9. OpenGate \in Gate /\ OpenGate.blocked = FALSE /\ OpenGate.high = Never
  BY <1>8 DEF OpenGate
<1>10. \A r \in {"cpu", "invalid"} : /\ Shut(r) \in Gate /\ Shut(r).blocked = TRUE
                                     /\ Shut(r).healthy = Never
  BY <1>8 DEF Shut, OpenGate
<1>11. ASSUME x.cpu = "invalid" PROVE Result(gate')
  <2>1. gate' = Shut("invalid")
    BY <1>11 DEF EvaluateResourceGate
  <2>2. Result(Shut("invalid"))
    BY <1>4, <1>10, <1>11
  <2> QED BY <2>1, <2>2
<1>12. ASSUME x.cpu # "invalid", ~gate.blocked PROVE Result(gate')
  <2>1. gate' = Unblocked(gate, x.cpu, now)
    BY <1>12 DEF EvaluateResourceGate
  <2>2. CASE x.cpu # "high"
    <3>1. gate' = OpenGate
      BY <2>1, <2>2 DEF Unblocked
    <3>2. Result(OpenGate)
      BY <1>4, <1>9, <1>12, <2>2
    <3> QED BY <3>1, <3>2
  <2>3. CASE x.cpu = "high"
    <3> DEFINE s == Since(gate.high, now)
               g == [OpenGate EXCEPT !.high = s, !.blocked = now >= s + ObservationWindow,
                       !.reason = IF now >= s + ObservationWindow THEN "cpu" ELSE ""]
    <3>1. gate' = g
      BY <2>1, <2>3 DEF Unblocked
    <3>2. /\ s \in 0..MaxTime /\ Counting(Highs(trace'), s, trace')
          /\ shut <=> now >= s + ObservationWindow
      BY <1>6, <1>12, <2>3
    <3> HIDE DEF s
    <3>3. (now >= s + ObservationWindow) \in BOOLEAN
      BY SMT
    <3>4. /\ g.high = s /\ g.healthy = Never /\ (g.blocked <=> now >= s + ObservationWindow)
          /\ g \in Gate
      BY <1>8, <3>2, <3>3 DEF OpenGate
    <3>5. x.cpu # "low"
      BY <2>3
    <3> HIDE DEF g
    <3>6. Result(g)
      BY <1>4, <1>12, <3>2, <3>4, <3>5
    <3> QED BY <3>1, <3>6
  <2> QED BY <2>2, <2>3
<1>13. ASSUME x.cpu # "invalid", gate.blocked, gate.reason # "" PROVE Result(gate')
  <2>1. gate' = Blocked(gate, x.cpu, now)
    BY <1>13 DEF EvaluateResourceGate
  <2>2. CASE x.cpu # "low"
    <3> DEFINE g == [gate EXCEPT !.high = Never, !.healthy = Never]
    <3>1. gate' = g
      BY <2>1, <2>2 DEF Blocked
    <3>2. g \in Gate /\ g.healthy = Never /\ g.blocked = gate.blocked
      BY <1>1, <1>8
    <3> HIDE DEF g
    <3>3. Result(g)
      BY <1>4, <1>13, <2>2, <3>2
    <3> QED BY <3>1, <3>3
  <2>3. CASE x.cpu = "low"
    <3> DEFINE s == Since(gate.healthy, now)
               g == [gate EXCEPT !.high = Never, !.healthy = s]
    <3>1. gate' = IF now >= s + HysteresisWindow THEN OpenGate ELSE g
      BY <2>1, <2>3 DEF Blocked
    <3>2. /\ s \in 0..MaxTime /\ Counting(Lows(trace'), s, trace')
          /\ quiet <=> now >= s + HysteresisWindow
      BY <1>7, <1>13, <2>3
    <3> HIDE DEF s
    <3>3. g \in Gate /\ g.healthy = s /\ g.blocked = gate.blocked
      BY <1>1, <1>8, <3>2
    <3>4. x.cpu # "high"
      BY <2>3
    <3> HIDE DEF g
    <3>5. CASE now >= s + HysteresisWindow
      BY <1>4, <1>9, <1>13, <3>1, <3>2, <3>4, <3>5
    <3>6. CASE ~(now >= s + HysteresisWindow)
      BY <1>13, <3>1, <3>2, <3>3, <3>6
    <3> QED BY <3>5, <3>6
  <2> QED BY <2>2, <2>3
<1>14. ASSUME x.cpu # "invalid", gate.blocked, gate.reason = "" PROVE Result(gate')
  <2>1. gate' = IF x.cpu = "low" THEN OpenGate ELSE Shut("cpu")
    BY <1>14 DEF EvaluateResourceGate
  <2>2. CASE x.cpu = "low"
    <3>1. x.cpu # "high"
      BY <2>2
    <3> QED BY <1>4, <1>9, <1>14, <2>1, <2>2, <3>1
  <2>3. CASE x.cpu # "low"
    BY <1>4, <1>10, <1>14, <2>1, <2>3
  <2> QED BY <2>2, <2>3
<1>15. Result(gate')
  BY <1>1, <1>11, <1>12, <1>13, <1>14
<1>16. gate'.blocked \in BOOLEAN
  BY <1>15
<1>17. /\ (Sustained(High, ObservationWindow, trace')) \in BOOLEAN
       /\ (Sustained(Low, HysteresisWindow, trace')) \in BOOLEAN
  BY DEF Sustained
<1>18. ResourceGateIsWindowed
  BY <1>2, <1>5, <1>15, <1>16, <1>17 DEF ResourceGateIsWindowed
<1> QED BY <1>15, <1>18

\* The power gate after an observation: it counts on, and allows on what lasted.
LEMMA PowerStep ==
    ASSUME GatesInv, NEW x \in Seen, trace' = Append(trace, x),
           acSince' = EvaluatePowerGate(acSince, x.ac, x.now).since,
           power' = EvaluatePowerGate(acSince, x.ac, x.now).allowed
    PROVE  /\ acSince' \in 0..Never
           /\ ~PowerAlways => Counting(ACs(trace'), acSince', trace')
           /\ PowerGateIsWindowed'
<1> DEFINE n       == Len(trace)
           now     == x.now
           verdict == EvaluatePowerGate(acSince, x.ac, now)
           s       == Since(acSince, now)
           lasted  == \E i \in 1..Len(trace') : /\ Ends(ACs(trace'), trace', i)
                                                /\ now >= trace'[i].now + StableACWindow
<1>1. trace \in Seq(Seen) /\ acSince \in 0..Never /\ now \in 0..MaxTime
  BY DEF GatesInv, Seen
<1>2. /\ trace' \in Seq(Seen) /\ n \in Nat /\ Len(trace') = n + 1 /\ trace'[n + 1] = x
      /\ trace' # <<>> /\ Latest(trace') = x
  <2>1. /\ trace' \in Seq(Seen) /\ n \in Nat /\ Len(trace') = n + 1
        /\ trace'[n + 1] = x
    BY <1>1, Added
  <2>2. trace' # <<>>
    BY SMT, <2>1
  <2> QED BY <2>1, <2>2 DEF Latest
<1>3. ACs(trace') \cap (1..n) = ACs(trace) /\ (n + 1 \in ACs(trace') <=> x.ac)
  BY <1>1, KindsBefore
<1>4. Never \in 0..Never /\ 0..MaxTime \subseteq 0..Never
  BY SMT, GatesAssumption DEF Never
<1>5. Sustained(AC, StableACWindow, trace') <=> lasted
  BY <1>2, Kinds
<1>6. (Sustained(AC, StableACWindow, trace')) \in BOOLEAN
  BY DEF Sustained
<1>7. PowerGateIsWindowed' <=> (~PowerAlways /\ StableACWindow > 0
                                  => power' = Sustained(AC, StableACWindow, trace'))
  BY DEF PowerGateIsWindowed
<1>8. CASE PowerAlways
  BY <1>4, <1>7, <1>8 DEF EvaluatePowerGate
<1>9. CASE ~PowerAlways /\ ~x.ac
  <2>1. acSince' = Never /\ power' = FALSE
    BY <1>9 DEF EvaluatePowerGate
  <2> HIDE DEF n
  <2>2. Counting(ACs(trace'), Never, trace') /\ ~lasted
    BY <1>2, <1>3, <1>9, CountEnds
  <2> QED BY <1>4, <1>5, <1>6, <1>7, <2>1, <2>2
<1>10. CASE ~PowerAlways /\ x.ac
  <2>1. Counting(ACs(trace') \cap (1..n), acSince, trace)
    BY <1>3, <1>10 DEF GatesInv
  <2>2. Counting(ACs(trace'), s, trace') /\ s \in 0..MaxTime
    BY <1>1, <1>3, <1>10, <2>1, CountGoesOn
  <2>3. acSince' = s
    BY <1>10 DEF EvaluatePowerGate, Since
  <2>4. power' = IF acSince = Never \/ now < acSince THEN FALSE
                 ELSE now >= acSince + StableACWindow
    BY <1>10 DEF EvaluatePowerGate
  <2>5. StableACWindow > 0 => (power' <=> now >= s + StableACWindow) /\ power' \in BOOLEAN
    <3>1. now < acSince \/ acSince = Never =>
            s = now /\ (StableACWindow > 0 => ~(now >= s + StableACWindow))
      BY SMT, <1>1, GatesAssumption DEF Since
    <3>2. ~(now < acSince \/ acSince = Never) => s = acSince
      BY DEF Since
    <3>3. (now >= acSince + StableACWindow) \in BOOLEAN
      BY SMT
    <3> QED BY <2>4, <3>1, <3>2, <3>3
  <2> HIDE DEF s
  <2>6. lasted <=> now >= s + StableACWindow
    BY <1>2, <2>2, CountLasts, GatesAssumption
  <2> QED BY <1>4, <1>5, <1>6, <1>7, <2>2, <2>3, <2>5, <2>6
<1> QED BY <1>8, <1>9, <1>10

\* Every observation keeps the counts, and leaves the gates as the windows say.
LEMMA NextGates ==
    GatesInv /\ [GatesNext]_gateVars =>
       GatesInv' /\ [ResourceGateIsWindowed /\ PowerGateIsWindowed']_gateVars
<1> SUFFICES ASSUME GatesInv, [GatesNext]_gateVars
             PROVE  GatesInv' /\ [ResourceGateIsWindowed /\ PowerGateIsWindowed']_gateVars
  OBVIOUS
<1>1. CASE GatesNext
  <2>1. PICK r \in Readings, now \in 0..MaxTime : Observe(r[1], r[2], now)
    BY <1>1 DEF GatesNext
  <2> DEFINE x == [cpu |-> r[1], ac |-> r[2], now |-> now]
  <2>2. r[1] \in {"high", "between", "low", "invalid"} /\ r[2] \in BOOLEAN
    BY SMT, GatesAssumption
  <2>3. x \in Seen /\ x.cpu = r[1] /\ x.ac = r[2] /\ x.now = now
    BY <2>2 DEF Seen
  <2>4. /\ trace' = Append(trace, x) /\ gate' = EvaluateResourceGate(gate, r[1], now)
        /\ acSince' = EvaluatePowerGate(acSince, r[2], now).since
        /\ power' = EvaluatePowerGate(acSince, r[2], now).allowed
    BY <2>1 DEF Observe
  <2> HIDE DEF x
  <2>5. /\ gate' \in [blocked : BOOLEAN, reason : {"", "cpu", "invalid"},
                      high : 0..Never, healthy : 0..Never]
        /\ ~gate'.blocked => Counting(Highs(trace'), gate'.high, trace')
        /\ gate'.blocked /\ gate'.reason # "" => Counting(Lows(trace'), gate'.healthy, trace')
        /\ ResourceGateIsWindowed
    BY <2>3, <2>4, ResourceStep
  <2>6. /\ acSince' \in 0..Never
        /\ ~PowerAlways => Counting(ACs(trace'), acSince', trace')
        /\ PowerGateIsWindowed'
    BY <2>3, <2>4, PowerStep
  <2>7. trace' \in Seq(Seen)
    BY <2>3, <2>4, Added DEF GatesInv
  <2>8. GatesInv'
    BY <2>5, <2>6, <2>7 DEF GatesInv, Counting, Ends, Highs, Lows, ACs, Never
  <2> QED BY <2>5, <2>6, <2>8
<1>2. CASE UNCHANGED gateVars
  BY <1>2 DEF gateVars, GatesInv, Counting, Ends, Highs, Lows, ACs, Never
<1> QED BY <1>1, <1>2

(* For every window and every sequence of observations, a clock set back included,
   each count of EvaluateResourceGate and EvaluatePowerGate began with the earliest
   reading of the run the observations end with. *)
THEOREM GatesCountRuns == GatesSpec => []GatesInv
BY InitGates, NextGates, PTL DEF GatesSpec

(* For every window and every sequence of observations, the resource gate closes and
   opens, and the power gate allows, exactly on what lasted for its window. *)
THEOREM GatesFollowWindows == GatesSpec => GatesAreWindowed
BY InitGates, NextGates, PTL DEF GatesSpec, GatesAreWindowed
===============================================================================
