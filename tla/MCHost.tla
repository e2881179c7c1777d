------------------------------- MODULE MCHost -------------------------------
(***************************************************************************)
(* What a step decides and the file it is saved to, for TLC: the plan of   *)
(* every observation of a set, the gates over every short series of        *)
(* observations, and one state file shared by a controller with two        *)
(* threads and a command.  One part moves; the others stand still.         *)
(***************************************************************************)
EXTENDS StateStore, Plan, Gates, TLC

CONSTANTS controller, command, t1, t2, t3

VARIABLE part

Processes == {controller, command}
Threads   == {t1, t2, t3}
HomeOf    == [t \in Threads |-> IF t = t3 THEN command ELSE controller]
Symmetric == Permutations({t1, t2}) \cup Permutations(Value)

store == vars
-----------------------------------------------------------------------------
MCReadings == {<<"high", TRUE>>, <<"between", TRUE>>, <<"low", TRUE>>, <<"low", FALSE>>,
               <<"invalid", TRUE>>}

Base == [mode |-> "enabled", override |-> FALSE, limit |-> 9, present |-> FALSE,
         power |-> TRUE, healthy |-> TRUE, observed |-> TRUE, desktop |-> TRUE,
         engineUp |-> TRUE, wsl |-> TRUE, total |-> 10, available |-> 10, engine |-> 0,
         budget |-> 0, ready |-> <<TRUE, TRUE>>, busy |-> <<0, 0>>, spare |-> <<0, 0>>,
         assigned |-> <<0, 0>>, drain |-> <<0, 0>>, previous |-> <<0, 0>>,
         profiled |-> <<0, 0>>, limits |-> 0,
         orphan |-> [busy |-> 0, spare |-> 0, profiled |-> 0]]

\* A host that serves: demand, burst inventory, held capacity, scarce memory, and
\* a pool that is not ready beside a busy worker of a pool that is gone.
EnabledInputs ==
    {[Base EXCEPT !.busy = b, !.spare = s, !.assigned = a, !.ready = <<TRUE, o = 0>>,
                  !.previous = p, !.override = l # 9, !.limit = l, !.available = m,
                  !.orphan.busy = o] :
       b \in {<<0, 0>>, <<1, 0>>, <<0, 2>>, <<3, 1>>},
       s \in {<<0, 0>>, <<0, 1>>, <<1, 1>>, <<0, 2>>, <<2, 1>>},
       a \in {<<0, 0>>, <<1, 0>>, <<0, 2>>, <<1, 3>>, <<3, -1>>, <<1, 1>>},
       p \in {<<0, 0>>, <<2, 0>>, <<1, 2>>}, l \in {9, 2, 0, -1}, m \in {4, 5, 10},
       o \in 0..1}

\* A host that drains, in every mode, within a memory budget.
DrainInputs ==
    {[Base EXCEPT !.mode = mode, !.power = FALSE, !.busy = b, !.spare = s, !.assigned = a,
                  !.ready = <<r, TRUE>>, !.drain = d, !.available = m, !.override = l # 9,
                  !.limit = l, !.observed = m <= 10, !.healthy = m <= 10, !.budget = 7,
                  !.engine = 6, !.desktop = r] :
       mode \in {"enabled", "disabled", "gaming", "invalid"},
       b \in {<<0, 0>>, <<1, 0>>}, s \in {<<0, 0>>, <<1, 0>>, <<2, 1>>},
       a \in {<<0, 0>>, <<1, 2>>, <<2, 0>>}, r \in BOOLEAN, d \in {<<0, 0>>, <<2, 1>>},
       m \in {1, 4, 11}, l \in {9, 1}}
    \cup
    {[Base EXCEPT !.mode = mode, !.desktop = up, !.engineUp = up, !.wsl = w, !.spare = s,
                  !.orphan.spare = o] :
       mode \in {"disabled", "gaming"}, up \in BOOLEAN, w \in BOOLEAN,
       s \in {<<0, 0>>, <<0, 1>>}, o \in 0..1}
    \cup
    {[Base EXCEPT !.healthy = FALSE, !.observed = FALSE, !.desktop = u, !.spare = s,
                  !.assigned = a, !.drain = <<2, 2>>, !.present = p, !.budget = 7] :
       u \in BOOLEAN, s \in (0..2) \X (0..2), a \in (0..2) \X (0..2), p \in BOOLEAN}

\* Each active worker of the first pool reports this memory limit (none: 0); the
\* others have the memory of their profile.
Measured(i, limit) ==
    LET active == [t \in 1..2 |-> i.busy[t] + i.spare[t]]
    IN  [i EXCEPT !.profiled = IF limit = 0 THEN active ELSE <<0, active[2]>>,
                  !.limits = limit * active[1],
                  !.orphan.profiled = i.orphan.busy + i.orphan.spare]

AllInputs == {Measured(i, 0) : i \in EnabledInputs \cup DrainInputs}
             \cup {Measured(i, 3) : i \in {j \in DrainInputs : j.budget > 0 /\ j.spare[1] = 1}}
TwoEach   == <<2, 2>>
OneWarm   == <<1, 0>>
Sizes     == <<2, 3>>
Margins   == <<1, 1>>
-----------------------------------------------------------------------------
NoGates == gate = OpenGate /\ acSince = Never /\ power = FALSE /\ trace = <<>>
NoStore == Init /\ file = Missing
Idle    == PlanInit /\ in = Measured(Base, 0)

MCInit == \/ part = "store" /\ Init /\ Idle /\ NoGates
          \/ part = "plan" /\ PlanInit /\ NoStore /\ NoGates
          \/ part = "gates" /\ GatesInit /\ NoStore /\ Idle

MCNext ==
    /\ part' = part
    /\ \/ part = "store" /\ Next /\ UNCHANGED <<planVars, gateVars>>
       \/ part = "plan" /\ PlanNext /\ UNCHANGED <<store, gateVars>>
       \/ part = "gates" /\ (GatesNext \/ (Len(trace) = MaxTrace /\ UNCHANGED gateVars))
          /\ UNCHANGED <<store, planVars>>

MCSpec == MCInit /\ [][MCNext]_<<part, store, planVars, gateVars>>
=============================================================================
