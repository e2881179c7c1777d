------------------------ MODULE MCListenerCapacity ------------------------
(* Instances of ListenerCapacity for TLC.                                  *)
EXTENDS ListenerCapacity, TLC

PoolSymmetry == Permutations(Pools)

\* Once a write was lost and a record drifted every property holds by its
\* premise, for good.
Relevant == ~(saveFailed /\ drifted)

\* One pool is polled and has assigned jobs, or several are polled and none has.
JobsOfOnePool ==
  \A p \in Pools : count[p] # 0 \/ observed[p].assigned # 0 =>
    \A q \in Pools \ {p} : poll[q] = "none" /\ observed[q] = Blank
===========================================================================
