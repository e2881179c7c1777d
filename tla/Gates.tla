-------------------------------- MODULE Gates -------------------------------
(***************************************************************************)
(* The resource gate and the power gate of a plan.  Each persists since    *)
(* when an observation has lasted, and opens or closes after a window.     *)
(* The wall clock may be set back between two observations.                *)
(***************************************************************************)
EXTENDS Naturals, Sequences

CONSTANTS ObservationWindow, HysteresisWindow, StableACWindow, PowerAlways,
          Readings,  \* pairs of a CPU reading and whether AC is connected
          MaxTime,   \* latest time
          MaxTrace   \* bound on the number of observations

ASSUME GatesAssumption ==
    /\ ObservationWindow \in Nat /\ HysteresisWindow \in Nat /\ StableACWindow \in Nat
    /\ PowerAlways \in BOOLEAN /\ MaxTime \in Nat /\ MaxTrace \in Nat
    /\ Readings \subseteq {"high", "between", "low", "invalid"} \X BOOLEAN

VARIABLES gate,     \* ResourceGateState
          acSince,  \* PowerGateState
          power,    \* the power gate's verdict
          trace     \* the observations so far

gateVars == <<gate, acSince, power, trace>>

Never == MaxTime + 1     \* a nil time

OpenGate == [blocked |-> FALSE, reason |-> "", high |-> Never, healthy |-> Never]

Shut(reason) == [OpenGate EXCEPT !.blocked = TRUE, !.reason = reason]

\* A count that began later than now starts again.
Since(since, now) == IF since = Never \/ now < since THEN now ELSE since

Unblocked(s, cpu, now) ==
    LET high == Since(s.high, now)
    IN IF cpu # "high" THEN OpenGate
       ELSE [OpenGate EXCEPT !.high = high,
                             !.blocked = now >= high + ObservationWindow,
                             !.reason = IF now >= high + ObservationWindow THEN "cpu" ELSE ""]

\* Mutant: a reading between the thresholds does not end the count.
CountsThroughLoad(s, cpu, now) ==
    LET healthy == Since(s.healthy, now)
    IN IF cpu = "low" /\ now >= healthy + HysteresisWindow THEN OpenGate
       ELSE [s EXCEPT !.high = Never, !.healthy = healthy]

Blocked(s, cpu, now) ==
    LET healthy == Since(s.healthy, now)
    IN IF cpu # "low" THEN [s EXCEPT !.high = Never, !.healthy = Never]
       ELSE IF now >= healthy + HysteresisWindow THEN OpenGate
            ELSE [s EXCEPT !.high = Never, !.healthy = healthy]

\* A gate blocked without a reason was saved by an older version.
EvaluateResourceGate(s, cpu, now) ==
    IF cpu = "invalid" THEN Shut("invalid")
    ELSE IF ~s.blocked THEN Unblocked(s, cpu, now)
    ELSE IF s.reason # "" THEN Blocked(s, cpu, now)
    ELSE IF cpu = "low" THEN OpenGate ELSE Shut("cpu")

\* Mutant: a start in the future is kept, and the window counted from zero.
KeepsFutureStart(since, ac, now) ==
    IF ~ac THEN [since |-> Never, allowed |-> FALSE]
    ELSE IF since = Never THEN [since |-> now, allowed |-> FALSE]
    ELSE [since |-> since, allowed |-> now >= StableACWindow]

\* The observation that starts the count never allows.
EvaluatePowerGate(since, ac, now) ==
    IF PowerAlways THEN [since |-> Never, allowed |-> TRUE]
    ELSE IF ~ac THEN [since |-> Never, allowed |-> FALSE]
    ELSE IF since = Never \/ now < since THEN [since |-> now, allowed |-> FALSE]
    ELSE [since |-> since, allowed |-> now >= since + StableACWindow]

GatesInit == /\ gate \in {OpenGate, Shut("")}
             /\ acSince = Never /\ power = FALSE /\ trace = <<>>

Observe(cpu, ac, now) ==
    LET verdict == EvaluatePowerGate(acSince, ac, now)
    IN /\ Len(trace) < MaxTrace
       /\ gate' = EvaluateResourceGate(gate, cpu, now)
       /\ acSince' = verdict.since /\ power' = verdict.allowed
       /\ trace' = Append(trace, [cpu |-> cpu, ac |-> ac, now |-> now])

GatesNext == \E r \in Readings, now \in 0..MaxTime : Observe(r[1], r[2], now)

GatesSpec == GatesInit /\ [][GatesNext]_gateVars
-----------------------------------------------------------------------------
Latest(observations) == observations[Len(observations)]

\* The observations end with a run of the kind Holds, which lasted for window
\* and in which no clock reading precedes the first.
Sustained(Holds(_), window, observations) ==
    \E i \in 1..Len(observations) :
       /\ \A k \in i..Len(observations) :
             Holds(observations[k]) /\ observations[k].now >= observations[i].now
       /\ Latest(observations).now >= observations[i].now + window

High(o) == o.cpu = "high"
Low(o)  == o.cpu = "low"
AC(o)   == o.ac

(* Workers are only admitted or held back on what lasted: an open gate closes on
   CPU load exactly when it was high for the observation window, and a closed
   one opens exactly when it was low for the hysteresis window, whatever the
   load did in between and also when the wall clock is set back. *)
ResourceGateIsWindowed ==
    trace' # trace /\ Latest(trace').cpu # "invalid" =>
       /\ ~gate.blocked => gate'.blocked = Sustained(High, ObservationWindow, trace')
       /\ gate.blocked /\ gate.reason # "" =>
            ~gate'.blocked = Sustained(Low, HysteresisWindow, trace')

(* Power is allowed exactly while AC has been seen for the stable window without
   a gap; a clock set back behind the start of the count starts it again. *)
PowerGateIsWindowed ==
    ~PowerAlways /\ StableACWindow > 0 =>
       power = Sustained(AC, StableACWindow, trace)

(* Every observation leaves both gates as the windows before it say. *)
GatesAreWindowed == [][ResourceGateIsWindowed /\ PowerGateIsWindowed']_gateVars
=============================================================================
