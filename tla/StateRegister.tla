--------------------------- MODULE StateRegister ----------------------------
(***************************************************************************)
(* What a caller of the state store may rely on: one value that changes    *)
(* whole.  A save takes effect at one moment between its call and its      *)
(* return or not at all; one that reports success has taken effect, one    *)
(* that reports failure or dies may have.  A load that reports success     *)
(* returns the value of some moment of the call.                           *)
(***************************************************************************)
CONSTANTS Thread, Value, Missing, Corrupt

VARIABLES value, call, arg, done, got,
          outcome   \* how a thread's last call ended

vars == <<value, call, arg, done, got, outcome>>

Contents == Value \cup {Missing, Corrupt}

Init == /\ value \in Contents
        /\ call = [t \in Thread |-> "none"]
        /\ arg = [t \in Thread |-> Missing] /\ got = [t \in Thread |-> Missing]
        /\ done = {} /\ outcome = [t \in Thread |-> "none"]

Invoke(t, kind, v) ==
    /\ call[t] = "none" /\ call' = [call EXCEPT ![t] = kind] /\ arg' = [arg EXCEPT ![t] = v]
    /\ outcome' = [outcome EXCEPT ![t] = "none"]
    /\ UNCHANGED <<value, done, got>>

Write(t) == /\ call[t] = "save" /\ t \notin done
            /\ value' = arg[t] /\ done' = done \cup {t}
            /\ UNCHANGED <<call, arg, got, outcome>>

Read(t) == /\ call[t] = "load" /\ t \notin done
           /\ got' = [got EXCEPT ![t] = value] /\ done' = done \cup {t}
           /\ UNCHANGED <<value, call, arg, outcome>>

End(T) == /\ call' = [t \in Thread |-> IF t \in T THEN "none" ELSE call[t]]
          /\ arg' = [t \in Thread |-> IF t \in T THEN Missing ELSE arg[t]]
          /\ got' = [t \in Thread |-> IF t \in T THEN Missing ELSE got[t]]
          /\ done' = done \ T /\ UNCHANGED value

Return(t, result) ==
    /\ call[t] # "none" /\ End({t}) /\ outcome' = [outcome EXCEPT ![t] = result]
    /\ result = "ok" /\ call[t] \in {"save", "load"} => t \in done

\* Processes die; what was in flight has happened or will not.
Die(T) == End(T) /\ UNCHANGED outcome

\* Something other than the store damages the file.
Damage == value' = Corrupt /\ UNCHANGED <<call, arg, done, got, outcome>>

Next == \/ \E t \in Thread :
              \/ \E v \in Value : Invoke(t, "save", v)
              \/ Invoke(t, "load", Missing) \/ Invoke(t, "quarantine", Missing)
              \/ Write(t) \/ Read(t)
              \/ \E result \in {"ok", "failed"} : Return(t, result)
        \/ \E T \in SUBSET Thread : Die(T)
        \/ Damage

Spec == Init /\ [][Next]_vars
=============================================================================
