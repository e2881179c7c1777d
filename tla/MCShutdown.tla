------------------------------ MODULE MCShutdown ------------------------------
(* Instances of Shutdown for TLC.                                              *)
EXTENDS Shutdown

\* Two commands race for the last process, or one meets the process after.
RaceInit == Serving(LastPid, {}) \/ Serving(1, Stoppers)

RaceSpec == RaceInit /\ [][Next]_vars /\ Fairness
===============================================================================
