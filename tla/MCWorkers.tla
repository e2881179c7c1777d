------------------------------ MODULE MCWorkers -----------------------------
(* Workers for TLC: one worker beside one of the past, with faults, or two
   workers at once. *)
EXTENDS Workers

CONSTANTS w1, w2, \* the workers
          Together \* faults that two workers at once may meet

Two == {w1, w2}

MCInit == InitWith({w2}, 0) \/ InitWith({}, MaxFaults - Together)

MCSpec == MCInit /\ [][Next]_vars /\ Fairness
-----------------------------------------------------------------------------
(* The two workers are interchangeable, and one of the past is removed: what must
   happen to a worker is asked of the first. *)

(* Once failures stop, an exited container is finalized and removed. *)
ExitedIsRemoved == ExitedIsRemovedFor(w1)

(* An idle worker whose registration is gone does not hold its slot forever. *)
UnregisteredIsRetired == UnregisteredIsRetiredFor(w1)
=============================================================================
