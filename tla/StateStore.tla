----------------------------- MODULE StateStore -----------------------------
(***************************************************************************)
(* One durable state file shared by the threads of several processes: the  *)
(* two-stage lock (an in-process token, then a named Win32 mutex owned by  *)
(* an OS thread), the stages of a durable write, the bounded strict read   *)
(* and the quarantine of a corrupt file.  A process may be killed and the  *)
(* host may lose power between any two stages.                             *)
(***************************************************************************)
EXTENDS Naturals, FiniteSets

CONSTANTS Process, Thread,
          Home,            \* the process of a thread
          Value,           \* contents that decode and validate
          Missing, Corrupt, \* no file; contents that do not
          MaxFaults

ASSUME StateStoreAssumption ==
    /\ Home \in [Thread -> Process] /\ MaxFaults \in Nat
    /\ Missing \notin Value /\ Corrupt \notin Value /\ Missing # Corrupt
    /\ {"none", "ghost"} \cap Thread = {} /\ Value # {}

VARIABLES
    pc, op, arg,
    committed,   \* threads whose replace happened, or that read the file
    failed,      \* threads with a stage that failed
    got,         \* what the read found
    outcome,     \* how a thread's last call ended
    token,       \* processes whose in-process token is free
    owner,       \* owner of the mutex; "ghost" is an OS thread about to end
    synced,      \* threads whose temporary is flushed
    file,        \* contents of the target
    loose,       \* the thread whose contents reached the target unflushed, if any
    evidence,    \* contents preserved by a quarantine
    faults

calls == <<op, arg, outcome>>
disk  == <<file, loose, evidence>>
vars  == <<pc, calls, committed, failed, got, token, owner, synced, disk, faults>>

Contents == Value \cup {Missing, Corrupt}
Locked   == {"create", "write", "sync", "harden", "replace", "verify", "open", "read", "link",
             "secure", "unlock"}

Init == /\ file \in Contents /\ loose = {} /\ evidence = {}
        /\ pc = [t \in Thread |-> "idle"] /\ op = [t \in Thread |-> "none"]
        /\ arg = [t \in Thread |-> Missing]
        /\ committed = {} /\ failed = {}
        /\ got = [t \in Thread |-> Missing] /\ outcome = [t \in Thread |-> "none"]
        /\ token = Process /\ owner = "none" /\ synced = {} /\ faults = 0

Fault == faults < MaxFaults /\ faults' = faults + 1

Go(t, next) == pc' = [pc EXCEPT ![t] = next]
-----------------------------------------------------------------------------
(* The call and the lock. *)
Invoke(t, kind, v) ==
    /\ pc[t] = "idle" /\ Go(t, "token")
    /\ op' = [op EXCEPT ![t] = kind] /\ arg' = [arg EXCEPT ![t] = v]
    /\ outcome' = [outcome EXCEPT ![t] = "none"]
    /\ UNCHANGED <<committed, failed, got, token, owner, synced, disk, faults>>

TakeToken(t) ==
    /\ pc[t] = "token" /\ Home[t] \in token
    /\ token' = token \ {Home[t]} /\ Go(t, "mutex")
    /\ UNCHANGED <<calls, committed, failed, got, owner, synced, disk, faults>>

\* A call's own state ends with it.
End(T) == /\ pc' = [t \in Thread |-> IF t \in T THEN "idle" ELSE pc[t]]
          /\ op' = [t \in Thread |-> IF t \in T THEN "none" ELSE op[t]]
          /\ arg' = [t \in Thread |-> IF t \in T THEN Missing ELSE arg[t]]
          /\ got' = [t \in Thread |-> IF t \in T THEN Missing ELSE got[t]]
          /\ committed' = committed \ T /\ failed' = failed \ T /\ synced' = synced \ T

Return(t, result) == /\ End({t}) /\ outcome' = [outcome EXCEPT ![t] = result]
                     /\ UNCHANGED disk

TokenTimeout(t) ==
    /\ pc[t] = "token" /\ Fault /\ Return(t, "failed") /\ UNCHANGED <<token, owner>>

FirstStage(kind) == CASE kind = "save" -> "create" [] kind = "load" -> "open"
                      [] kind = "quarantine" -> "link"

TimeoutAcquires(t) ==
    /\ pc[t] = "mutex"
    /\ owner' = t /\ Go(t, FirstStage(op[t]))
    /\ UNCHANGED <<calls, committed, failed, got, token, synced, disk, faults>>

\* A mutex abandoned by a dead owner is acquired like a free one.
WaitMutex(t) ==
    /\ pc[t] = "mutex" /\ owner = "none"
    /\ owner' = t /\ Go(t, FirstStage(op[t]))
    /\ UNCHANGED <<calls, committed, failed, got, token, synced, disk, faults>>

MutexTimeout(t) ==
    /\ pc[t] = "mutex" /\ Fault /\ Return(t, "failed")
    /\ token' = token \cup {Home[t]} /\ UNCHANGED owner

Unlock(t) ==
    /\ pc[t] = "unlock" /\ owner' = "none" /\ token' = token \cup {Home[t]}
    /\ Return(t, IF t \in failed THEN "failed" ELSE "ok") /\ UNCHANGED faults

\* The mutex could not be released: its OS thread is made to end.
ReleaseFails(t) ==
    /\ pc[t] = "unlock" /\ Fault /\ owner' = "ghost" /\ token' = token \cup {Home[t]}
    /\ Return(t, "failed")

ThreadEnds == owner = "ghost" /\ owner' = "none"
              /\ UNCHANGED <<pc, calls, committed, failed, got, token, synced, disk, faults>>
-----------------------------------------------------------------------------
(* A durable write: a temporary is created, written, flushed, hardened and moved
   over the target, which is hardened again. *)
Stage(t, from, to) ==
    /\ pc[t] = from /\ Go(t, to)
    /\ UNCHANGED <<calls, failed, token, owner, evidence, faults>>

CreateTemporary(t) == Stage(t, "create", "write") /\ synced' = synced \ {t}
                      /\ UNCHANGED <<committed, got, file, loose>>

WriteTemporary(t) == Stage(t, "write", "sync") /\ UNCHANGED <<committed, got, synced, file, loose>>

ClosesUnflushed(t) == Stage(t, "sync", "harden")
                      /\ UNCHANGED <<committed, got, synced, file, loose>>

Sync(t) == Stage(t, "sync", "harden") /\ synced' = synced \cup {t}
           /\ UNCHANGED <<committed, got, file, loose>>

Harden(t) == Stage(t, "harden", "replace") /\ UNCHANGED <<committed, got, synced, file, loose>>

\* Moving with write-through makes the name durable, not the contents.
AtomicReplace(t) ==
    /\ Stage(t, "replace", "verify")
    /\ file' = arg[t] /\ loose' = {t} \ synced
    /\ committed' = committed \cup {t} /\ UNCHANGED <<got, synced>>

HardenTarget(t) == Stage(t, "verify", "unlock")
                   /\ UNCHANGED <<committed, got, synced, file, loose>>

(* A load reads the file whole; no file is an answer too. *)
Found(t) == /\ got' = [got EXCEPT ![t] = file] /\ committed' = committed \cup {t}
            /\ UNCHANGED <<synced, file, loose>>

Open(t) == \/ file # Missing /\ Stage(t, "open", "read")
              /\ UNCHANGED <<committed, got, synced, file, loose>>
           \/ file = Missing /\ Stage(t, "open", "unlock") /\ Found(t)

ReadAll(t) == Stage(t, "read", "unlock") /\ Found(t)

MovesAside(t) ==
    /\ pc[t] = "link" /\ file # Missing /\ Go(t, "secure")
    /\ evidence' = evidence \cup {file} /\ file' = Missing
    /\ UNCHANGED <<calls, committed, failed, got, token, owner, synced, loose, faults>>

\* A quarantine links the file under a new name and leaves it in place.
Link(t) ==
    /\ pc[t] = "link" /\ file # Missing /\ Go(t, "secure")
    /\ evidence' = evidence \cup {file}
    /\ UNCHANGED <<calls, committed, failed, got, token, owner, synced, file, loose, faults>>

LinkFindsNothing(t) ==
    /\ pc[t] = "link" /\ file = Missing /\ Go(t, "unlock") /\ failed' = failed \cup {t}
    /\ UNCHANGED <<calls, committed, got, token, owner, synced, disk, faults>>

Secure(t) == Stage(t, "secure", "unlock") /\ UNCHANGED <<committed, got, synced, file, loose>>

\* Any stage may fail; after the replace the new contents stay.
StageFails(t) ==
    /\ pc[t] \in Locked \ {"unlock"} /\ Fault /\ Go(t, "unlock")
    /\ failed' = failed \cup {t}
    /\ UNCHANGED <<calls, committed, got, token, owner, synced, disk>>
-----------------------------------------------------------------------------
Kill(p) == /\ Fault /\ End({t \in Thread : Home[t] = p}) /\ token' = token \cup {p}
           /\ owner' = IF owner \in Thread /\ Home[owner] = p THEN "none" ELSE owner
           /\ UNCHANGED <<outcome, disk>>

PowerLoss == /\ Fault /\ End(Thread) /\ token' = Process /\ owner' = "none"
             /\ file' = IF loose = {} THEN file ELSE Corrupt
             /\ loose' = {} /\ UNCHANGED <<outcome, evidence>>

Damage == /\ Fault /\ file # Missing /\ file' = Corrupt /\ loose' = {}
          /\ UNCHANGED <<pc, calls, committed, failed, got, token, owner, synced, evidence>>

Step(t) ==
    \/ TakeToken(t) \/ WaitMutex(t) \/ Unlock(t) \/ CreateTemporary(t) \/ WriteTemporary(t)
    \/ Sync(t) \/ Harden(t) \/ AtomicReplace(t) \/ HardenTarget(t) \/ Open(t) \/ ReadAll(t)
    \/ Link(t) \/ LinkFindsNothing(t) \/ Secure(t)

Fails(t) == TokenTimeout(t) \/ MutexTimeout(t) \/ ReleaseFails(t) \/ StageFails(t)

Next == \/ \E t \in Thread :
              \/ \E v \in Value : Invoke(t, "save", v)
              \/ Invoke(t, "load", Missing) \/ Invoke(t, "quarantine", Missing)
              \/ Step(t) \/ Fails(t)
        \/ ThreadEnds \/ PowerLoss \/ Damage \/ \E p \in Process : Kill(p)

Spec == Init /\ [][Next]_vars

-----------------------------------------------------------------------------
(* The two-stage lock is exclusive over all threads of all processes, through
   timeouts, failed releases and dead owners: no thread has the file open while
   another one replaces it. *)
MutualExclusion ==
    \A t, u \in Thread : pc[t] \in Locked /\ pc[u] \in Locked => t = u

(* Once there is a state file there always is one: quarantine, replace and any
   death between them never turn recovery into a start without state. *)
NeverMissingAgain == [][file # Missing => file' # Missing]_vars

Register == INSTANCE StateRegister
                WITH value <- file, call <- op, done <- committed

(* The store is an atomic register: a save happens whole at its replace, and
   neither a death nor a power loss leaves anything else. *)
ImplementsRegister == Register!Spec
=============================================================================
