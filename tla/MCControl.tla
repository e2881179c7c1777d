----------------------------- MODULE MCControl -----------------------------
(* What operators ask of the controller, and the log it keeps: two restart commands
   racing for one controller, force stops beside the reconciler, and the log queue.
   The parts share no state; part says which of them moves in a behaviour. *)
EXTENDS Shutdown, ForceStop, LogQueue, TLC

VARIABLE part

\* Restart commands are interchangeable.
RestartSymmetry == Permutations(Restarters)

Two == 1..2
-----------------------------------------------------------------------------
(* One force stop of two workers and a failure, one beside a command that enables
   the pool again and so starts a worker, one of a pool that was disabled before, which
   another command enables while a failure is still to come, or two force stops of
   one worker. *)
StopInit == \/ InitWith("enabled", <<"idle", "busy">>, {2}, 0, 1)
            \/ /\ part = "force stop"
               /\ \/ InitWith("enabled", <<"idle", "new">>, {2}, 1, 0)
                  \/ InitWith("disabled", <<"idle", "gone">>, {2}, 1, 1)
                  \/ InitWith("enabled", <<"idle", "gone">>, {}, 0, 0)

MCInit == /\ part \in {"restart", "force stop", "log"}
          /\ Init /\ StopInit /\ QueueInit
          /\ part # "restart" => version = [p \in Pids |-> CliVersion]

MCNext == \/ part = "restart" /\ Next /\ UNCHANGED <<part, forceVars, logVars>>
          \/ part = "force stop" /\ ForceStopNext /\ UNCHANGED <<part, vars, logVars>>
          \/ part = "log" /\ QueueNext /\ UNCHANGED <<part, vars, forceVars>>

MCSpec == MCInit /\ [][MCNext]_<<part, vars, forceVars, logVars>>
=============================================================================
