----------------------------- MODULE StoreProofs ----------------------------
(* The durable files.  The state store is an atomic register, for any number of
   processes, threads and failures.  The job index keeps running jobs and their
   assignment times, and its size limit, for any limit, any runners and jobs and
   any sequence of calls, failed saves and interrupted saves. *)
EXTENDS StateStore, JobIndex, TLAPS

\* Zenon proves most leaves; a leaf that needs arithmetic or case splits cites SMT.
USE Zenon
-----------------------------------------------------------------------------
(* The state store. *)
Before == {"idle", "token", "mutex", "create", "write", "sync", "harden", "replace", "open",
           "read"}

\* What ties the stage of a thread to its call, its lock and its temporary.
Coherent(t) ==
    /\ pc[t] \in Locked => owner = t
    /\ pc[t] = "idle" <=> op[t] = "none"
    /\ pc[t] \in {"create", "write", "sync", "harden", "replace", "verify"} => op[t] = "save"
    /\ pc[t] \in {"open", "read"} => op[t] = "load"
    /\ pc[t] \in {"link", "secure"} => op[t] = "quarantine"
    /\ op[t] = "save" => arg[t] \in Value
    /\ pc[t] \in Before => t \notin committed
    /\ pc[t] = "verify" => t \in committed
    /\ pc[t] = "unlock" /\ t \notin failed /\ op[t] \in {"save", "load"} => t \in committed
    /\ pc[t] \in {"harden", "replace"} => t \in synced

Types ==
    /\ pc \in [Thread -> {"idle", "token", "mutex"} \cup Locked]
    /\ op \in [Thread -> {"none", "save", "load", "quarantine"}]
    /\ arg \in [Thread -> Value \cup {Missing}]
    /\ got \in [Thread -> Contents] /\ outcome \in [Thread -> {"none", "ok", "failed"}]
    /\ file \in Contents /\ loose = {}

\* The inductive invariant: nothing unflushed ever reaches the target.
StoreInv == Types /\ \A t \in Thread : Coherent(t)

\* No thread is in a call at first.
LEMMA InitStore == Init => StoreInv
  BY SMT, StateStoreAssumption DEF Init, StoreInv, Types, Coherent, Contents, Locked, Before

\* The steps of a thread that stays in its call: everything else of it is kept.
LEMMA CallStep ==
  ASSUME StoreInv, NEW t \in Thread,
         \/ \E v \in Value : Invoke(t, "save", v)
         \/ Invoke(t, "load", Missing) \/ Invoke(t, "quarantine", Missing)
         \/ TakeToken(t) \/ WaitMutex(t)
  PROVE  StoreInv'
<1> USE StateStoreAssumption DEF StoreInv, Types, Coherent, Contents, Locked, Before, Go
<1>1. CASE \E v \in Value : Invoke(t, "save", v)
  BY SMT, <1>1 DEF Invoke, disk
<1>2. CASE Invoke(t, "load", Missing) \/ Invoke(t, "quarantine", Missing)
  BY SMT, <1>2 DEF Invoke, disk
<1>3. CASE TakeToken(t)
  BY ZenonT(60), <1>3 DEF TakeToken, calls, disk
<1>4. CASE WaitMutex(t)
  BY SMT, <1>4 DEF WaitMutex, FirstStage, calls, disk
<1> QED BY <1>1, <1>2, <1>3, <1>4

\* The stages of a save, a load and a quarantine.
LEMMA StageStep ==
  ASSUME StoreInv, NEW t \in Thread,
         \/ CreateTemporary(t) \/ WriteTemporary(t) \/ Sync(t) \/ Harden(t) \/ AtomicReplace(t)
         \/ HardenTarget(t) \/ Open(t) \/ ReadAll(t) \/ Link(t) \/ LinkFindsNothing(t)
         \/ Secure(t) \/ StageFails(t)
  PROVE  StoreInv'
<1> USE DEF StoreInv, Types, Coherent, Contents, Locked, Before, Go, calls
<1>1. CASE CreateTemporary(t) \/ WriteTemporary(t) \/ Sync(t)
  BY SMT, <1>1 DEF CreateTemporary, WriteTemporary, Sync, Stage
<1>2. CASE Harden(t) \/ HardenTarget(t) \/ Secure(t)
  BY SMT, <1>2 DEF Harden, HardenTarget, Secure, Stage
<1>3. CASE AtomicReplace(t)
  BY SMT, <1>3 DEF AtomicReplace, Stage
<1>4. CASE Open(t)
  BY SMT, <1>4 DEF Open, Stage, Found
<1>5. CASE ReadAll(t)
  BY ZenonT(60), <1>5 DEF ReadAll, Stage, Found
<1>6. CASE Link(t) \/ LinkFindsNothing(t)
  BY SMT, <1>6 DEF Link, LinkFindsNothing, disk
<1>7. CASE StageFails(t)
  BY ZenonT(60), <1>7 DEF StageFails, disk, Fault
<1> QED BY <1>1, <1>2, <1>3, <1>4, <1>5, <1>6, <1>7

\* Calls that end, by returning or with their process.
LEMMA EndStep ==
  ASSUME StoreInv, NEW T \in SUBSET Thread, End(T), file' = file, loose' = loose,
         outcome' \in [Thread -> {"none", "ok", "failed"}],
         \A u \in Thread \ T : pc[u] \in Locked => owner' = owner
  PROVE  StoreInv'
<1>1. Types'
  BY DEF StoreInv, Types, Contents, Locked, End
<1>2. ASSUME NEW u \in Thread PROVE Coherent(u)'
  <2>1. CASE u \in T
    BY <2>1, StateStoreAssumption DEF StoreInv, Types, Coherent, Locked, Before, End
  <2>2. CASE u \notin T
    BY <2>2 DEF StoreInv, Types, Coherent, Locked, Before, End
  <2> QED BY <2>1, <2>2
<1> QED BY <1>1, <1>2 DEF StoreInv

\* Every stage, failure and death keeps the inductive invariant.
LEMMA NextStore == StoreInv /\ [Next]_vars => StoreInv'
<1> SUFFICES ASSUME StoreInv, [Next]_vars PROVE StoreInv'
  OBVIOUS
<1>1. ASSUME NEW t \in Thread,
             TokenTimeout(t) \/ MutexTimeout(t) \/ Unlock(t) \/ ReleaseFails(t)
      PROVE  StoreInv'
  <2>1. /\ End({t}) /\ file' = file /\ loose' = loose
        /\ outcome' \in [Thread -> {"none", "ok", "failed"}]
    BY <1>1 DEF TokenTimeout, MutexTimeout, Unlock, ReleaseFails, Return, disk, StoreInv, Types
  <2>2. ASSUME NEW u \in Thread \ {t}, pc[u] \in Locked PROVE owner' = owner
    BY <1>1, <2>2 DEF TokenTimeout, MutexTimeout, Unlock, ReleaseFails, StoreInv, Coherent, Locked
  <2> QED BY <2>1, <2>2, EndStep
<1>2. ASSUME NEW p \in Process, Kill(p) PROVE StoreInv'
  <2> DEFINE T == {t \in Thread : Home[t] = p}
  <2>1. /\ End(T) /\ file' = file /\ loose' = loose
        /\ outcome' \in [Thread -> {"none", "ok", "failed"}]
    BY <1>2 DEF Kill, disk, StoreInv, Types
  <2>2. ASSUME NEW u \in Thread \ T, pc[u] \in Locked PROVE owner' = owner
    BY <1>2, <2>2 DEF Kill, StoreInv, Coherent
  <2> QED BY <2>1, <2>2, EndStep
<1>3. CASE PowerLoss
  <2>1. /\ End(Thread) /\ file' = file /\ loose' = loose
        /\ outcome' \in [Thread -> {"none", "ok", "failed"}]
    BY <1>3 DEF PowerLoss, StoreInv, Types
  <2> QED BY <2>1, EndStep
<1>4. CASE Damage
  BY <1>4 DEF Damage, calls, StoreInv, Types, Coherent, Contents
<1>5. CASE ThreadEnds
  BY <1>5, StateStoreAssumption DEF ThreadEnds, calls, disk, StoreInv, Types, Coherent
<1>6. CASE UNCHANGED vars
  BY <1>6 DEF vars, calls, disk, StoreInv, Types, Coherent
<1> QED
  BY <1>1, <1>2, <1>3, <1>4, <1>5, <1>6, CallStep, StageStep DEF Next, Step, Fails

\* The lock of the state store is exclusive, over any number of processes and
\* threads, failed releases and dead owners.
THEOREM LockIsExclusive == Spec => []MutualExclusion
<1>1. StoreInv => MutualExclusion
  BY DEF StoreInv, Coherent, MutualExclusion
<1> QED BY <1>1, InitStore, NextStore, PTL DEF Spec

\* Neither a save nor a quarantine nor any failure leaves the host without the
\* state file it had.
THEOREM FileStays == Spec => NeverMissingAgain
<1>1. StoreInv /\ [Next]_vars => [file # Missing => file' # Missing]_vars
  <2> SUFFICES ASSUME StoreInv, Next PROVE file # Missing => file' # Missing
    BY DEF vars, calls, disk
  <2>1. ASSUME NEW t \in Thread, AtomicReplace(t) PROVE file' # Missing
    BY <2>1, StateStoreAssumption DEF AtomicReplace, Stage, StoreInv, Coherent
  <2>2. CASE Damage
    BY <2>2, StateStoreAssumption DEF Damage
  <2>3. CASE PowerLoss
    BY <2>3 DEF PowerLoss, StoreInv, Types
  <2>4. ASSUME NEW t \in Thread, Step(t) \/ Fails(t), ~AtomicReplace(t) PROVE file' = file
    BY <2>4 DEF Step, Fails, TakeToken, WaitMutex, Unlock, CreateTemporary, WriteTemporary, Sync,
         Harden, HardenTarget, Open, ReadAll, Link, LinkFindsNothing, Secure, TokenTimeout,
         MutexTimeout, ReleaseFails, StageFails, Stage, Found, Return, disk
  <2>5. ASSUME NEW p \in Process, Kill(p) PROVE file' = file
    BY <2>5 DEF Kill, disk
  <2>6. CASE ThreadEnds
    BY <2>6 DEF ThreadEnds, disk
  <2>7. ASSUME NEW t \in Thread, NEW kind, NEW v, Invoke(t, kind, v) PROVE file' = file
    BY <2>7 DEF Invoke, disk
  <2> QED BY <2>1, <2>2, <2>3, <2>4, <2>5, <2>6, <2>7 DEF Next
<1> QED BY <1>1, InitStore, NextStore, PTL DEF Spec, NeverMissingAgain

\* Every caller of the state store sees an atomic register: a save takes effect
\* at its replace, a load at its read, and everything else stutters.
THEOREM StoreIsRegister == Spec => ImplementsRegister
<1>1. Init => Register!Init
  BY DEF Init, Register!Init, Contents, Register!Contents
<1>2. StoreInv /\ [Next]_vars => [Register!Next]_(Register!vars)
  <2> SUFFICES ASSUME StoreInv, Next PROVE Register!Next \/ UNCHANGED Register!vars
    BY DEF vars, calls, disk, Register!vars
  <2>1. ASSUME NEW t \in Thread, NEW kind, NEW v, Invoke(t, kind, v)
        PROVE  Register!Invoke(t, kind, v)
    BY <2>1 DEF Invoke, Register!Invoke, disk, StoreInv, Coherent
  <2>2. ASSUME NEW t \in Thread, AtomicReplace(t) PROVE Register!Write(t)
    BY <2>2 DEF AtomicReplace, Stage, calls, Register!Write, StoreInv, Coherent, Before
  <2>3. ASSUME NEW t \in Thread, ReadAll(t) \/ (Open(t) /\ file = Missing)
        PROVE  Register!Read(t)
    BY <2>3 DEF ReadAll, Open, Found, Stage, calls, Register!Read, StoreInv, Coherent, Before
  <2>4. ASSUME NEW t \in Thread, TokenTimeout(t) \/ MutexTimeout(t) \/ ReleaseFails(t)
        PROVE  Register!Return(t, "failed")
    BY <2>4 DEF TokenTimeout, MutexTimeout, ReleaseFails, Return, End, disk, Register!Return,
         Register!End, StoreInv, Coherent
  <2>5. ASSUME NEW t \in Thread, Unlock(t)
        PROVE  \E result \in {"ok", "failed"} : Register!Return(t, result)
    <3> DEFINE result == IF t \in failed THEN "failed" ELSE "ok"
    <3>1. Register!Return(t, result)
      BY <2>5 DEF Unlock, Return, End, disk, Register!Return, Register!End, StoreInv, Coherent
    <3> QED BY <3>1
  <2>6. ASSUME NEW p \in Process, Kill(p) PROVE \E T \in SUBSET Thread : Register!Die(T)
    <3> DEFINE T == {t \in Thread : Home[t] = p}
    <3>1. Register!Die(T)
      BY <2>6 DEF Kill, End, disk, Register!Die, Register!End
    <3> QED BY <3>1
  <2>7. CASE PowerLoss
    <3>1. Register!Die(Thread)
      BY <2>7 DEF PowerLoss, End, Register!Die, Register!End, StoreInv, Types
    <3> QED BY <3>1 DEF Register!Next
  <2>8. CASE Damage
    BY <2>8 DEF Damage, calls, Register!Damage, Register!Next
  <2>9. ASSUME NEW t \in Thread,
               \/ TakeToken(t) \/ WaitMutex(t) \/ CreateTemporary(t) \/ WriteTemporary(t) \/ Sync(t)
               \/ Harden(t) \/ HardenTarget(t) \/ (Open(t) /\ file # Missing) \/ Link(t)
               \/ LinkFindsNothing(t) \/ Secure(t) \/ StageFails(t)
        PROVE  UNCHANGED Register!vars
    BY <2>9 DEF TakeToken, WaitMutex, CreateTemporary, WriteTemporary, Sync, Harden, HardenTarget,
         Open, Link, LinkFindsNothing, Secure, StageFails, Stage, calls, disk, Register!vars
  <2>10. CASE ThreadEnds
    BY <2>10 DEF ThreadEnds, calls, disk, Register!vars
  <2> QED
    BY <2>1, <2>2, <2>3, <2>4, <2>5, <2>6, <2>7, <2>8, <2>9, <2>10
       DEF Next, Step, Fails, Register!Next
<1> QED BY <1>1, <1>2, InitStore, NextStore, PTL DEF Spec, ImplementsRegister, Register!Spec
-----------------------------------------------------------------------------
(* The job index: its types and its inductive invariant. *)
Recs == [container : BOOLEAN, job : Jobs \cup {None}, result : Results \cup {None},
         log : BOOLEAN, diag : BOOLEAN, assigned : Nat, started : Nat, completed : Nat,
         finalized : Nat, open : BOOLEAN, tomb : Nat]

PatchSet == [container : BOOLEAN, job : Jobs \cup {None}, result : Results \cup {None},
             log : BOOLEAN, diag : BOOLEAN, assigned : Nat, started : Nat, completed : Nat,
             finalized : Nat, open : {"keep", "open", "closed"}, tomb : Nat]

Catalogs == UNION {[S -> Recs] : S \in SUBSET Runners}

TimeSet == [runner : Runners, job : Jobs \cup {None}, assigned : Nat \ {0}]

\* jobs.json holds no assignment time; the clock is past the zero time.
IndexTypes ==
    /\ jobsFile \in Catalogs /\ \A r \in DOMAIN jobsFile : jobsFile[r].assigned = 0
    /\ times \subseteq TimeSet
    /\ now \in Nat \ {0} /\ promised \subseteq Runners

\* The sidecar has a time for the runner, or for the job it runs.
Known(catalog, ts, r) ==
    \E t \in ts : t.runner = r \/ (t.job = catalog[r].job /\ t.job # None)

\* A promised time is that of a live record and in the sidecar.
IndexInv ==
    /\ IndexTypes
    /\ \A r \in promised : LiveRecord(jobsFile, r) /\ Known(jobsFile, times, r)

\* All fields but the assignment time, which is kept apart.
SameButTime(a, b) ==
    /\ a.container = b.container /\ a.job = b.job /\ a.result = b.result
    /\ a.log = b.log /\ a.diag = b.diag /\ a.started = b.started
    /\ a.completed = b.completed /\ a.finalized = b.finalized
    /\ a.open = b.open /\ a.tomb = b.tomb

\* What is left of a catalogue: nothing is changed, and what is gone was compactable.
Shed(c, e) ==
    /\ e \in Catalogs /\ DOMAIN e \subseteq DOMAIN c /\ \A r \in DOMAIN e : e[r] = c[r]
    /\ \A r \in DOMAIN c \ DOMAIN e : Compactable(c[r])
-----------------------------------------------------------------------------
(* Records and catalogues. *)
\* A catalogue has records for runners.
LEMMA CatalogType ==
    ASSUME NEW c \in Catalogs
    PROVE  /\ DOMAIN c \subseteq Runners /\ c = [r \in DOMAIN c |-> c[r]]
           /\ \A r \in DOMAIN c : c[r] \in Recs
  BY DEF Catalogs

\* Fields of records.
LEMMA RecFields ==
    ASSUME NEW a \in Recs
    PROVE  /\ a.container \in BOOLEAN /\ a.log \in BOOLEAN /\ a.diag \in BOOLEAN
           /\ a.open \in BOOLEAN /\ a.job \in Jobs \cup {None}
           /\ a.result \in Results \cup {None} /\ a.assigned \in Nat /\ a.started \in Nat
           /\ a.completed \in Nat /\ a.finalized \in Nat /\ a.tomb \in Nat
  BY DEF Recs

\* Fields of patches.
LEMMA PatchFields ==
    ASSUME NEW p \in PatchSet
    PROVE  /\ p.container \in BOOLEAN /\ p.log \in BOOLEAN /\ p.diag \in BOOLEAN
           /\ p.open \in {"keep", "open", "closed"} /\ p.job \in Jobs \cup {None}
           /\ p.result \in Results \cup {None} /\ p.assigned \in Nat /\ p.started \in Nat
           /\ p.completed \in Nat /\ p.finalized \in Nat /\ p.tomb \in Nat
  BY DEF PatchSet

\* Setting the assignment time leaves the rest.
LEMMA TimeSetting ==
    ASSUME NEW a \in Recs, NEW x \in Nat
    PROVE  LET b == [a EXCEPT !.assigned = x]
           IN  b \in Recs /\ b.assigned = x /\ SameButTime(b, a)
  BY DEF Recs, SameButTime

\* The blank record is a record.
LEMMA BlankType == Blank \in Recs /\ Blank.tomb = 0 /\ Blank.assigned = 0 /\ Blank.job = None
  BY DEF Blank, Recs

\* A patch merges into a live record field by field.
LEMMA MergeFields ==
    ASSUME NEW a \in Recs, NEW p \in PatchSet, a.tomb = 0
    PROVE  LET m == Merge(a, p) IN
           /\ m \in Recs
           /\ m.job = MergeImmutable(a.job, p.job)
           /\ m.assigned = FirstTime(a.assigned, p.assigned)
           /\ m.started = FirstTime(a.started, p.started)
           /\ m.completed = FirstTime(a.completed, p.completed)
           /\ m.tomb = p.tomb
<1> DEFINE job       == MergeImmutable(a.job, p.job)
           result    == MergeImmutable(a.result, p.result)
           container == a.container \/ p.container
           log       == a.log \/ p.log
           diag      == a.diag \/ p.diag
           assigned  == FirstTime(a.assigned, p.assigned)
           started   == FirstTime(a.started, p.started)
           completed == FirstTime(a.completed, p.completed)
           finalized == FirstTime(a.finalized, p.finalized)
           open      == /\ p.tomb = 0
                        /\ p.open = "open" \/ (p.open = "keep" /\ a.open)
           m == [container |-> container, job |-> job, result |-> result, log |-> log,
                 diag |-> diag, assigned |-> assigned, started |-> started,
                 completed |-> completed, finalized |-> finalized, open |-> open,
                 tomb |-> p.tomb]
<1>1. Merge(a, p) = m
  BY DEF Merge
<1>2. job \in Jobs \cup {None} /\ result \in Results \cup {None}
  BY RecFields, PatchFields DEF MergeImmutable
<1>3. /\ assigned \in Nat /\ started \in Nat /\ completed \in Nat /\ finalized \in Nat
      /\ p.tomb \in Nat
  BY RecFields, PatchFields DEF FirstTime
<1>4. container \in BOOLEAN /\ log \in BOOLEAN /\ diag \in BOOLEAN /\ open \in BOOLEAN
  OBVIOUS
<1> HIDE DEF job, result, container, log, diag, assigned, started, completed, finalized, open
<1>5. m \in Recs
  BY <1>2, <1>3, <1>4 DEF Recs
<1>6. /\ m.job = job /\ m.assigned = assigned /\ m.started = started
      /\ m.completed = completed /\ m.tomb = p.tomb
  OBVIOUS
<1> HIDE DEF m
<1> QED BY <1>1, <1>5, <1>6 DEF job, assigned, started, completed

\* An upsert merges each patch that merges and leaves the rest.
LEMMA Upserted ==
    ASSUME NEW c \in Catalogs, NEW S \in SUBSET Runners, NEW ps \in [S -> PatchSet]
    PROVE  LET d == UpsertEach(c, ps) IN
           /\ d \in Catalogs /\ DOMAIN d = DOMAIN c \cup S
           /\ \A r \in DOMAIN c \cup S :
                d[r] = IF r \in S /\ Mergeable(Current(c, r), ps[r])
                       THEN Merge(Current(c, r), ps[r]) ELSE Current(c, r)
<1> DEFINE d == UpsertEach(c, ps)
<1>1. DOMAIN ps = S /\ DOMAIN c \subseteq Runners
  BY CatalogType
<1>2. d = [r \in DOMAIN c \cup S |->
             IF r \in S /\ Mergeable(Current(c, r), ps[r])
             THEN Merge(Current(c, r), ps[r]) ELSE Current(c, r)]
  BY <1>1 DEF UpsertEach
<1>3. ASSUME NEW r \in DOMAIN c \cup S
      PROVE  (IF r \in S /\ Mergeable(Current(c, r), ps[r])
              THEN Merge(Current(c, r), ps[r]) ELSE Current(c, r)) \in Recs
  <2>1. Current(c, r) \in Recs
    BY CatalogType, BlankType DEF Current
  <2>2. ASSUME r \in S PROVE Merge(Current(c, r), ps[r]) \in Recs
    <3>1. CASE Current(c, r).tomb = 0
      BY <2>1, <2>2, <3>1, MergeFields
    <3>2. CASE Current(c, r).tomb # 0
      BY <2>1, <3>2 DEF Merge
    <3> QED BY <3>1, <3>2
  <2> QED BY <2>1, <2>2
<1> HIDE DEF d
<1>4. d \in [DOMAIN c \cup S -> Recs]
  BY <1>2, <1>3
<1>5. d \in Catalogs
  BY <1>1, <1>4 DEF Catalogs
<1>6. DOMAIN d = DOMAIN c \cup S /\ \A r \in DOMAIN c \cup S :
         d[r] = IF r \in S /\ Mergeable(Current(c, r), ps[r])
                THEN Merge(Current(c, r), ps[r]) ELSE Current(c, r)
  BY <1>2
<1> QED BY <1>5, <1>6 DEF d

\* The loaded index is the file with the times of the sidecar.
LEMMA LoadedIs ==
    ASSUME IndexTypes
    PROVE  /\ Loaded \in Catalogs /\ DOMAIN Loaded = DOMAIN jobsFile
           /\ \A r \in DOMAIN jobsFile :
                /\ SameButTime(Loaded[r], jobsFile[r])
                /\ Loaded[r].assigned # 0 <=> Known(jobsFile, times, r)
<1>0. /\ DOMAIN jobsFile \subseteq Runners
      /\ \A r \in DOMAIN jobsFile : jobsFile[r] \in Recs /\ jobsFile[r].assigned = 0
  BY CatalogType DEF IndexTypes
<1> DEFINE byKey(r) == {t \in times : t.runner = r}
           byJob(r) == {t \in times : t.job = jobsFile[r].job /\ t.job # None}
           found(r) == IF byKey(r) # {} THEN byKey(r) ELSE byJob(r)
           pick(r)  == CHOOSE t \in found(r) : TRUE
           one(r)   == IF jobsFile[r].assigned = 0 /\ found(r) # {}
                       THEN [jobsFile[r] EXCEPT !.assigned = pick(r).assigned]
                       ELSE jobsFile[r]
<1>1. Loaded = [r \in DOMAIN jobsFile |-> one(r)]
  BY DEF Loaded, HydrateAssignTimes
<1>2. ASSUME NEW r \in DOMAIN jobsFile
      PROVE  /\ one(r) \in Recs /\ SameButTime(one(r), jobsFile[r])
             /\ one(r).assigned # 0 <=> Known(jobsFile, times, r)
  <2>1. found(r) # {} <=> Known(jobsFile, times, r)
    BY DEF Known
  <2>2. found(r) \subseteq times
    OBVIOUS
  <2> HIDE DEF found
  <2>3. CASE found(r) = {}
    BY <1>0, <2>1, <2>3 DEF SameButTime
  <2>4. CASE found(r) # {}
    <3>1. pick(r) \in found(r)
      BY <2>4
    <3>2. pick(r).assigned \in Nat /\ pick(r).assigned # 0
      BY <2>2, <3>1 DEF IndexTypes, TimeSet
    <3> HIDE DEF pick
    <3>3. one(r) = [jobsFile[r] EXCEPT !.assigned = pick(r).assigned]
      BY <1>0, <2>4
    <3>4. LET b == [jobsFile[r] EXCEPT !.assigned = pick(r).assigned]
          IN  b \in Recs /\ b.assigned = pick(r).assigned /\ SameButTime(b, jobsFile[r])
      BY <1>0, <3>2, TimeSetting
    <3> QED BY <2>1, <2>4, <3>2, <3>3, <3>4
  <2> QED BY <2>3, <2>4
<1> HIDE DEF one
<1>3. DOMAIN Loaded = DOMAIN jobsFile /\ \A r \in DOMAIN jobsFile : Loaded[r] = one(r)
  BY <1>1
<1>4. Loaded \in [DOMAIN jobsFile -> Recs]
  BY <1>1, <1>2
<1>5. Loaded \in Catalogs
  BY <1>0, <1>4 DEF Catalogs
<1> QED BY <1>2, <1>3, <1>5

\* What is written to jobs.json is the catalogue without times, of the same size.
LEMMA StoredIs ==
    ASSUME NEW c \in Catalogs
    PROVE  LET d == Stored(c) IN
           /\ d \in Catalogs /\ DOMAIN d = DOMAIN c
           /\ \A r \in DOMAIN c : d[r].assigned = 0 /\ SameButTime(d[r], c[r])
           /\ EncodedBytes(d) = EncodedBytes(c)
<1> DEFINE d == Stored(c)
<1>1. DOMAIN d = DOMAIN c /\ \A r \in DOMAIN c : d[r] = [c[r] EXCEPT !.assigned = 0]
  BY DEF Stored
<1>2. d = [r \in DOMAIN c |-> [c[r] EXCEPT !.assigned = 0]]
  BY DEF Stored
<1> HIDE DEF d
<1>3. \A r \in DOMAIN c : [c[r] EXCEPT !.assigned = 0] \in Recs
  BY CatalogType, TimeSetting
<1>4. d \in [DOMAIN c -> Recs]
  BY <1>2, <1>3
<1>5. d \in Catalogs
  BY <1>4, CatalogType DEF Catalogs
<1>6. ASSUME NEW r \in DOMAIN c PROVE d[r].assigned = 0 /\ SameButTime(d[r], c[r])
  <2>1. c[r] \in Recs
    BY CatalogType
  <2> QED BY <1>1, <2>1, TimeSetting
<1>7. ASSUME NEW r \in DOMAIN c, NEW f \in Optional
      PROVE  Present(d[r], f) = Present(c[r], f)
  BY ZenonT(60), <1>6 DEF Present, SameButTime, Optional
<1>8. {x \in (DOMAIN d) \X Optional : Present(d[x[1]], x[2])}
        = {x \in (DOMAIN c) \X Optional : Present(c[x[1]], x[2])}
  BY <1>1, <1>7
<1>9. EncodedBytes(d) = EncodedBytes(c)
  BY <1>1, <1>8 DEF EncodedBytes
<1> QED BY <1>1, <1>5, <1>6, <1>9 DEF d
-----------------------------------------------------------------------------
(* What a save does.  That encodeWithinCapacity sheds compactable records only is
   assumed by the lemmas below and proved at the end. *)
ShedFacts == \A c \in Catalogs : Shed(c, EncodeWithinCapacity(c, Cap).catalog)

\* A save of catalogue m has landed with what is left of it, e.
Landed(m, e, ok) ==
    /\ Shed(m, e) /\ jobsFile' = Stored(e) /\ Fits(jobsFile', Cap)
    /\ times' = AssignTimesFromCatalog(e) \/ (~ok /\ times' = times)

\* A save is refused or lost, or it lands.
LEMMA SaveEffect ==
    ASSUME ShedFacts, NEW m \in Catalogs, NEW ok, Save(m, ok)
    PROVE  \/ ~ok /\ UNCHANGED <<jobsFile, times>>
           \/ \E e \in Catalogs : Landed(m, e, ok)
<1>1. CASE ~ok /\ UNCHANGED <<jobsFile, times, journal>>
  BY <1>1
<1>2. ASSUME NEW encoded, encoded = EncodeWithinCapacity(m, Cap),
             Fits(encoded.catalog, Cap), jobsFile' = Stored(encoded.catalog),
             (~ok /\ UNCHANGED times) \/ times' = AssignTimesFromCatalog(encoded.catalog)
      PROVE  \E e \in Catalogs : Landed(m, e, ok)
  <2> DEFINE e == encoded.catalog
  <2>1. Shed(m, e)
    BY <1>2 DEF ShedFacts
  <2>2. e \in Catalogs
    BY <2>1 DEF Shed
  <2>3. Fits(jobsFile', Cap)
    <3>1. EncodedBytes(Stored(e)) = EncodedBytes(e)
      BY <2>2, StoredIs
    <3> QED BY <1>2, <3>1 DEF Fits
  <2> QED BY <1>2, <2>1, <2>2, <2>3 DEF Landed
<1> QED BY <1>1, <1>2 DEF Save

\* A save that landed keeps the types, and every time of a live record it was given or
\* that the sidecar still has.
LEMMA LandedKept ==
    ASSUME IndexInv, NEW m \in Catalogs, NEW ok, NEW e \in Catalogs, Landed(m, e, ok),
           NEW kept \in SUBSET Runners, ~ok => kept = {},
           promised' = {r \in promised \cup kept : LiveRecord(jobsFile', r)}, now' = now,
           \A r \in DOMAIN m \cap (promised \cup kept) : m[r].tomb = 0 => m[r].assigned # 0,
           \A r \in DOMAIN m \cap promised :
              jobsFile[r].job # None /\ m[r].tomb = 0 => m[r].job = jobsFile[r].job
    PROVE  IndexInv'
<1>1. /\ DOMAIN e \subseteq DOMAIN m /\ \A r \in DOMAIN e : e[r] = m[r]
      /\ DOMAIN e \subseteq Runners /\ \A r \in DOMAIN e : e[r] \in Recs
  BY CatalogType DEF Landed, Shed
<1>2. /\ jobsFile' \in Catalogs /\ DOMAIN jobsFile' = DOMAIN e
      /\ \A r \in DOMAIN e : jobsFile'[r].assigned = 0 /\ SameButTime(jobsFile'[r], e[r])
  BY StoredIs DEF Landed
<1>3. ASSUME NEW r \in DOMAIN e, e[r].assigned # 0
      PROVE  [runner |-> r, job |-> e[r].job, assigned |-> e[r].assigned] \in TimeSet
  <2>1. r \in Runners /\ e[r].job \in Jobs \cup {None} /\ e[r].assigned \in Nat \ {0}
    BY <1>1, <1>3, RecFields
  <2> QED BY <2>1 DEF TimeSet
<1>4. times' \subseteq TimeSet
  <2>1. AssignTimesFromCatalog(e) \subseteq TimeSet
    BY <1>3 DEF AssignTimesFromCatalog
  <2> QED BY <2>1 DEF Landed, IndexInv, IndexTypes
<1>5. IndexTypes'
  BY <1>2, <1>4 DEF IndexInv, IndexTypes
<1>6. ASSUME NEW r \in promised' PROVE Known(jobsFile', times', r)
  <2>1. /\ r \in promised \cup kept /\ r \in DOMAIN e /\ r \in DOMAIN m
        /\ jobsFile'[r].tomb = 0
    BY <1>1, <1>2, <1>6 DEF LiveRecord
  <2>2. m[r].tomb = 0 /\ e[r] = m[r] /\ jobsFile'[r].job = m[r].job
    BY ZenonT(60), <1>1, <1>2, <2>1 DEF SameButTime
  <2>3. m[r].assigned # 0
    BY <2>1, <2>2
  <2>4. CASE times' = AssignTimesFromCatalog(e)
    <3> DEFINE t == [runner |-> r, job |-> e[r].job, assigned |-> e[r].assigned]
    <3>1. t \in times'
      BY <2>1, <2>2, <2>3, <2>4 DEF AssignTimesFromCatalog
    <3>2. t.runner = r
      OBVIOUS
    <3> QED BY <3>1, <3>2 DEF Known
  <2>5. CASE ~ok /\ times' = times
    <3>1. r \in promised
      BY <2>1, <2>5
    <3>2. Known(jobsFile, times, r)
      BY <3>1 DEF IndexInv
    <3>3. PICK t \in times : t.runner = r \/ (t.job = jobsFile[r].job /\ t.job # None)
      BY <3>2 DEF Known
    <3>4. t.runner = r \/ (t.job = jobsFile'[r].job /\ t.job # None)
      BY <2>1, <2>2, <3>1, <3>3
    <3> QED BY <2>5, <3>4 DEF Known
  <2> QED BY <2>4, <2>5 DEF Landed
<1> QED BY <1>5, <1>6 DEF IndexInv

\* A running job's record is not shed.
LEMMA LandedActive ==
    ASSUME NEW m \in Catalogs, NEW ok, NEW e \in Catalogs, Landed(m, e, ok),
           NEW r \in DOMAIN m, ActiveRecord(m[r])
    PROVE  ActiveJob(jobsFile', r) /\ jobsFile'[r].job = m[r].job
<1>1. ~Compactable(m[r])
  BY DEF ActiveRecord, Compactable
<1>2. r \in DOMAIN e /\ e[r] = m[r]
  BY <1>1 DEF Landed, Shed
<1>3. DOMAIN jobsFile' = DOMAIN e /\ SameButTime(jobsFile'[r], e[r])
  BY <1>2, StoredIs DEF Landed
<1> QED BY <1>2, <1>3 DEF ActiveJob, ActiveRecord, SameButTime

\* What a patch does to a record that is there.
LEMMA MergedRecord ==
    ASSUME IndexTypes, NEW S \in SUBSET Runners, NEW ps \in [S -> PatchSet],
           NEW r \in DOMAIN jobsFile, jobsFile[r].tomb = 0
    PROVE  LET m == UpsertEach(Loaded, ps) IN
           /\ r \in DOMAIN m
           /\ (r \in S /\ Mergeable(Loaded[r], ps[r])) \/ m[r] = Loaded[r]
           /\ Loaded[r].assigned # 0 => m[r].assigned # 0
           /\ jobsFile[r].job # None => m[r].job = jobsFile[r].job
           /\ r \in S /\ Mergeable(Loaded[r], ps[r]) =>
                /\ m[r].started = FirstTime(jobsFile[r].started, ps[r].started)
                /\ m[r].completed = FirstTime(jobsFile[r].completed, ps[r].completed)
                /\ m[r].tomb = ps[r].tomb
<1> DEFINE m == UpsertEach(Loaded, ps)
<1>1. /\ r \in DOMAIN Loaded /\ Loaded[r] \in Recs /\ SameButTime(Loaded[r], jobsFile[r])
      /\ Loaded \in Catalogs
  BY LoadedIs, CatalogType
<1>2. Current(Loaded, r) = Loaded[r] /\ Loaded[r].tomb = 0
  BY <1>1 DEF Current, SameButTime
<1>0. /\ m \in Catalogs /\ DOMAIN m = DOMAIN Loaded \cup S
      /\ \A q \in DOMAIN Loaded \cup S :
           m[q] = IF q \in S /\ Mergeable(Current(Loaded, q), ps[q])
                  THEN Merge(Current(Loaded, q), ps[q]) ELSE Current(Loaded, q)
  BY <1>1, Upserted
<1>3. /\ r \in DOMAIN m
      /\ m[r] = IF r \in S /\ Mergeable(Loaded[r], ps[r])
                THEN Merge(Loaded[r], ps[r]) ELSE Loaded[r]
  BY <1>0, <1>1, <1>2
<1> HIDE DEF m
<1>4. CASE ~(r \in S /\ Mergeable(Loaded[r], ps[r]))
  <2>1. m[r] = Loaded[r]
    BY <1>3, <1>4
  <2>2. Loaded[r].job = jobsFile[r].job
    BY <1>1 DEF SameButTime
  <2> QED BY <1>3, <1>4, <2>1, <2>2 DEF m
<1>5. CASE r \in S /\ Mergeable(Loaded[r], ps[r])
  <2>1. m[r] = Merge(Loaded[r], ps[r]) /\ ps[r] \in PatchSet
    BY <1>3, <1>5
  <2> DEFINE n == Merge(Loaded[r], ps[r])
  <2>7. /\ n \in Recs
        /\ n.job = MergeImmutable(Loaded[r].job, ps[r].job)
        /\ n.assigned = FirstTime(Loaded[r].assigned, ps[r].assigned)
        /\ n.started = FirstTime(Loaded[r].started, ps[r].started)
        /\ n.completed = FirstTime(Loaded[r].completed, ps[r].completed)
        /\ n.tomb = ps[r].tomb
    BY <1>1, <1>2, <2>1, MergeFields
  <2> HIDE DEF n
  <2>8. m[r] = n
    BY <2>1 DEF n
  <2>2. /\ m[r].job = MergeImmutable(Loaded[r].job, ps[r].job)
        /\ m[r].assigned = FirstTime(Loaded[r].assigned, ps[r].assigned)
        /\ m[r].started = FirstTime(Loaded[r].started, ps[r].started)
        /\ m[r].completed = FirstTime(Loaded[r].completed, ps[r].completed)
        /\ m[r].tomb = ps[r].tomb
    BY <2>7, <2>8
  <2>3. /\ Loaded[r].job = jobsFile[r].job /\ Loaded[r].started = jobsFile[r].started
        /\ Loaded[r].completed = jobsFile[r].completed
    BY <1>1 DEF SameButTime
  <2>4. CompatibleImmutable(Loaded[r].job, ps[r].job)
    BY <1>2, <1>5 DEF Mergeable
  <2>5. jobsFile[r].job # None => m[r].job = jobsFile[r].job
    BY <2>2, <2>3, <2>4 DEF CompatibleImmutable, MergeImmutable
  <2>6. Loaded[r].assigned # 0 => m[r].assigned # 0
    BY <2>2 DEF FirstTime
  <2> QED BY <1>3, <1>5, <2>2, <2>3, <2>5, <2>6 DEF m
<1> QED BY <1>4, <1>5

\* The times a successful call was given are in the catalogue it saves.
LEMMA GivenTimes ==
    ASSUME IndexTypes, NEW S \in SUBSET Runners, NEW ps \in [S -> PatchSet],
           ~Rejected(Loaded, ps), NEW r \in S, ps[r].assigned # 0
    PROVE  LET m == UpsertEach(Loaded, ps) IN m[r].tomb = 0 => m[r].assigned # 0
<1> DEFINE m == UpsertEach(Loaded, ps)
           a == Current(Loaded, r)
<1>1. Loaded \in Catalogs
  BY LoadedIs
<1>2. /\ m \in Catalogs /\ DOMAIN m = DOMAIN Loaded \cup S
      /\ \A q \in DOMAIN Loaded \cup S :
           m[q] = IF q \in S /\ Mergeable(Current(Loaded, q), ps[q])
                  THEN Merge(Current(Loaded, q), ps[q]) ELSE Current(Loaded, q)
  BY <1>1, Upserted
<1>3. Mergeable(a, ps[r]) /\ ps[r] \in PatchSet
  BY DEF Rejected
<1>4. a \in Recs
  BY <1>1, CatalogType, BlankType DEF Current
<1> HIDE DEF m
<1>5. m[r] = Merge(a, ps[r])
  BY <1>2, <1>3
<1> HIDE DEF a
<1>6. CASE a.tomb # 0
  <2>1. m[r] = a
    BY <1>5, <1>6 DEF Merge
  <2> QED BY <1>6, <2>1 DEF m
<1>7. CASE a.tomb = 0
  <2> DEFINE n == Merge(a, ps[r])
  <2>1. /\ n \in Recs
        /\ n.job = MergeImmutable(a.job, ps[r].job)
        /\ n.assigned = FirstTime(a.assigned, ps[r].assigned)
        /\ n.started = FirstTime(a.started, ps[r].started)
        /\ n.completed = FirstTime(a.completed, ps[r].completed)
        /\ n.tomb = ps[r].tomb
    BY <1>3, <1>4, <1>7, MergeFields
  <2> HIDE DEF n
  <2>2. m[r] = n
    BY <1>5 DEF n
  <2> QED BY <2>1, <2>2 DEF FirstTime, m
<1> QED BY <1>6, <1>7

\* An upsert of any patches keeps the invariant; if it changes jobs.json, a save landed.
LEMMA UpsertEffect ==
    ASSUME ShedFacts, IndexInv, NEW S \in SUBSET Runners, NEW ps \in [S -> PatchSet],
           NEW ok \in BOOLEAN, UpsertMany(ps, ok)
    PROVE  /\ IndexInv'
           /\ \/ jobsFile' = jobsFile
              \/ \E e \in Catalogs : Landed(UpsertEach(Loaded, ps), e, ok)
<1> DEFINE m    == UpsertEach(Loaded, ps)
           kept == {r \in DOMAIN ps : ok /\ ps[r].assigned # 0}
<1>0. IndexTypes
  BY DEF IndexInv
<1>1. /\ Loaded \in Catalogs /\ DOMAIN Loaded = DOMAIN jobsFile
      /\ \A r \in DOMAIN jobsFile :
           /\ SameButTime(Loaded[r], jobsFile[r])
           /\ Loaded[r].assigned # 0 <=> Known(jobsFile, times, r)
  BY <1>0, LoadedIs
<1>2. m \in Catalogs
  BY <1>1, Upserted
<1>3. /\ promised' = {r \in promised \cup kept : LiveRecord(jobsFile', r)} /\ now' = now
      /\ ok => ~Rejected(Loaded, ps)
      /\ \/ m = Loaded /\ UNCHANGED <<jobsFile, times>>
         \/ Save(m, ok)
         \/ ~ok /\ UNCHANGED <<jobsFile, times>>
  BY DEF UpsertMany, Promise
<1>4. kept \in SUBSET Runners /\ (~ok => kept = {})
  OBVIOUS
<1>5. ASSUME NEW r \in DOMAIN m \cap (promised \cup kept), m[r].tomb = 0
      PROVE  m[r].assigned # 0
  <2>1. CASE r \in promised
    <3>1. r \in DOMAIN jobsFile /\ jobsFile[r].tomb = 0 /\ Loaded[r].assigned # 0
      BY <1>1, <2>1 DEF IndexInv, LiveRecord
    <3> QED BY <1>0, <3>1, MergedRecord
  <2>2. CASE r \in kept
    BY <1>0, <1>3, <1>5, <2>2, GivenTimes
  <2> QED BY <1>5, <2>1, <2>2
<1>6. ASSUME NEW r \in DOMAIN m \cap promised, jobsFile[r].job # None
      PROVE  m[r].job = jobsFile[r].job
  <2>1. r \in DOMAIN jobsFile /\ jobsFile[r].tomb = 0
    BY <1>6 DEF IndexInv, LiveRecord
  <2> QED BY <1>0, <1>6, <2>1, MergedRecord
<1> HIDE DEF m, kept
<1>7. ASSUME NEW e \in Catalogs, Landed(m, e, ok) PROVE IndexInv'
  BY <1>2, <1>3, <1>4, <1>5, <1>6, <1>7, LandedKept
<1>8. ASSUME UNCHANGED <<jobsFile, times>>, ~ok \/ m = Loaded PROVE IndexInv'
  <2>1. IndexTypes'
    BY <1>3, <1>4, <1>8 DEF IndexInv, IndexTypes
  <2>2. ASSUME NEW r \in promised' PROVE LiveRecord(jobsFile, r) /\ Known(jobsFile, times, r)
    <3>1. r \in promised \cup kept /\ LiveRecord(jobsFile, r)
      BY <1>3, <1>8, <2>2
    <3>2. CASE r \in promised
      BY <3>1, <3>2 DEF IndexInv
    <3>3. CASE r \in kept
      <4>1. m = Loaded
        BY <1>4, <1>8, <3>3
      <4>2. r \in DOMAIN jobsFile /\ Loaded[r].tomb = 0
        BY <1>1, <3>1 DEF LiveRecord, SameButTime
      <4>3. Loaded[r].assigned # 0
        BY <1>1, <1>5, <3>3, <4>1, <4>2
      <4> QED BY <1>1, <3>1, <4>2, <4>3
    <3> QED BY <3>1, <3>2, <3>3
  <2> QED BY <1>8, <2>1, <2>2 DEF IndexInv
<1>9. ASSUME Save(m, ok)
      PROVE  (~ok /\ UNCHANGED <<jobsFile, times>>) \/ \E e \in Catalogs : Landed(m, e, ok)
  BY <1>2, <1>9, SaveEffect
<1>10. IndexInv' /\ (jobsFile' = jobsFile \/ \E e \in Catalogs : Landed(m, e, ok))
  BY <1>3, <1>7, <1>8, <1>9
<1> QED BY <1>10 DEF m

\* Pruning tombstones keeps the invariant and every live record.
LEMMA PruneEffect ==
    ASSUME ShedFacts, IndexInv, NEW ok \in BOOLEAN, PruneTombstones(ok)
    PROVE  /\ IndexInv'
           /\ \/ jobsFile' = jobsFile
              \/ \E m, e \in Catalogs :
                   /\ Landed(m, e, ok)
                   /\ \A r \in DOMAIN jobsFile : jobsFile[r].tomb = 0 =>
                        r \in DOMAIN m /\ m[r] = Loaded[r]
<1> DEFINE old == {r \in Tombstoned(Loaded) : Loaded[r].tomb <= now - TombstoneRetention}
           m   == [r \in DOMAIN Loaded \ old |-> Loaded[r]]
<1>0. IndexTypes
  BY DEF IndexInv
<1>1. /\ Loaded \in Catalogs /\ DOMAIN Loaded = DOMAIN jobsFile
      /\ \A r \in DOMAIN jobsFile :
           /\ SameButTime(Loaded[r], jobsFile[r])
           /\ Loaded[r].assigned # 0 <=> Known(jobsFile, times, r)
  BY <1>0, LoadedIs
<1>2. /\ Save(m, ok) /\ now' = now
      /\ promised' = {r \in promised \cup {} : LiveRecord(jobsFile', r)}
  BY DEF PruneTombstones, Promise
<1>3. \A r \in old : Loaded[r].tomb # 0
  BY DEF Tombstoned
<1> HIDE DEF old
<1>4. DOMAIN m = DOMAIN Loaded \ old /\ \A r \in DOMAIN m : m[r] = Loaded[r]
  OBVIOUS
<1>5. m \in [DOMAIN Loaded \ old -> Recs] /\ DOMAIN Loaded \ old \subseteq Runners
  BY <1>1, CatalogType
<1>6. m \in Catalogs
  BY <1>5 DEF Catalogs
<1> HIDE DEF m
<1>7. ASSUME NEW r \in DOMAIN jobsFile, jobsFile[r].tomb = 0
      PROVE  r \in DOMAIN m /\ m[r] = Loaded[r]
  <2>1. Loaded[r].tomb = 0
    BY <1>1, <1>7 DEF SameButTime
  <2>2. r \notin old
    BY <1>3, <2>1
  <2> QED BY <1>1, <1>4, <2>2
<1>8. ASSUME NEW r \in DOMAIN m \cap (promised \cup {}) PROVE m[r].assigned # 0
  BY <1>1, <1>4, <1>8 DEF IndexInv, LiveRecord
<1>9. ASSUME NEW r \in DOMAIN m \cap promised PROVE m[r].job = jobsFile[r].job
  BY <1>1, <1>4 DEF SameButTime
<1>10. ASSUME NEW e \in Catalogs, Landed(m, e, ok) PROVE IndexInv'
  <2>1. {} \in SUBSET Runners
    OBVIOUS
  <2> QED BY <1>2, <1>6, <1>8, <1>9, <1>10, <2>1, LandedKept
<1>11. CASE UNCHANGED <<jobsFile, times>>
  BY <1>2, <1>11 DEF IndexInv, IndexTypes
<1>12. (~ok /\ UNCHANGED <<jobsFile, times>>) \/ \E e \in Catalogs : Landed(m, e, ok)
  BY <1>2, <1>6, SaveEffect
<1> QED BY <1>6, <1>7, <1>10, <1>11, <1>12
-----------------------------------------------------------------------------
(* The calls. *)
\* The patch of a call is a patch.
LEMMA CallPatches ==
    ASSUME IndexTypes
    PROVE  /\ \A j \in Jobs :
                LET p == [Patch EXCEPT !.job = j, !.assigned = AssignTime, !.started = now]
                IN  p \in PatchSet /\ p.job = j /\ p.completed = 0 /\ p.tomb = 0
           /\ \A j \in Jobs, res \in Results :
                LET p == [Patch EXCEPT !.job = j, !.result = res, !.assigned = AssignTime,
                                       !.completed = now]
                IN  p \in PatchSet /\ p.job = j /\ p.completed = now /\ p.tomb = 0
           /\ LET p == [Patch EXCEPT !.container = TRUE, !.open = "open"]
              IN  p \in PatchSet /\ p.completed = 0 /\ p.tomb = 0
           /\ LET p == [Patch EXCEPT !.container = TRUE, !.log = TRUE, !.open = "open"]
              IN  p \in PatchSet /\ p.completed = 0 /\ p.tomb = 0
           /\ LET p == [Patch EXCEPT !.container = TRUE, !.diag = TRUE]
              IN  p \in PatchSet /\ p.completed = 0 /\ p.tomb = 0
           /\ LET p == [Patch EXCEPT !.container = TRUE, !.finalized = now, !.open = "closed"]
              IN  p \in PatchSet /\ p.completed = 0 /\ p.tomb = 0
           /\ \A j \in Jobs \cup {None} :
                LET p == [Patch EXCEPT !.container = TRUE, !.job = j, !.tomb = now]
                IN  p \in PatchSet /\ p.job = j /\ p.result = None /\ p.tomb = now
<1>0. now \in Nat /\ AssignTime \in Nat
  BY SMT DEF IndexTypes, AssignTime
<1>1. Patch \in PatchSet /\ Patch.completed = 0 /\ Patch.tomb = 0 /\ Patch.result = None
  BY DEF Patch, PatchSet
<1> HIDE DEF AssignTime
<1>2. ASSUME NEW j \in Jobs
      PROVE  LET p == [Patch EXCEPT !.job = j, !.assigned = AssignTime, !.started = now]
             IN  p \in PatchSet /\ p.job = j /\ p.completed = 0 /\ p.tomb = 0
  BY <1>0, <1>1 DEF PatchSet
<1>3. ASSUME NEW j \in Jobs, NEW res \in Results
      PROVE  LET p == [Patch EXCEPT !.job = j, !.result = res, !.assigned = AssignTime,
                                    !.completed = now]
             IN  p \in PatchSet /\ p.job = j /\ p.completed = now /\ p.tomb = 0
  BY <1>0, <1>1 DEF PatchSet
<1>a. LET p == [Patch EXCEPT !.container = TRUE, !.open = "open"]
      IN  p \in PatchSet /\ p.completed = 0 /\ p.tomb = 0
  BY <1>0, <1>1 DEF PatchSet
<1>4. LET p == [Patch EXCEPT !.container = TRUE, !.log = TRUE, !.open = "open"]
      IN  p \in PatchSet /\ p.completed = 0 /\ p.tomb = 0
  BY <1>0, <1>1 DEF PatchSet
<1>5. LET p == [Patch EXCEPT !.container = TRUE, !.diag = TRUE]
      IN  p \in PatchSet /\ p.completed = 0 /\ p.tomb = 0
  BY <1>0, <1>1 DEF PatchSet
<1>6. LET p == [Patch EXCEPT !.container = TRUE, !.finalized = now, !.open = "closed"]
      IN  p \in PatchSet /\ p.completed = 0 /\ p.tomb = 0
  BY <1>0, <1>1 DEF PatchSet
<1>7. ASSUME NEW j \in Jobs \cup {None}
      PROVE  LET p == [Patch EXCEPT !.container = TRUE, !.job = j, !.tomb = now]
             IN  p \in PatchSet /\ p.job = j /\ p.result = None /\ p.tomb = now
  BY <1>0, <1>1 DEF PatchSet
<1> QED BY <1>2, <1>3, <1>a, <1>4, <1>5, <1>6, <1>7

\* The record of a running job after a call with a patch, for that runner or another,
\* that neither completes nor tombstones it.
LEMMA CallKeepsActive ==
    ASSUME ShedFacts, IndexInv, NEW q \in Runners, NEW p \in PatchSet, NEW ok \in BOOLEAN,
           Upsert(q, p, ok), NEW r \in DOMAIN jobsFile, ActiveJob(jobsFile, r),
           r = q /\ Mergeable(Loaded[r], p) => p.completed = 0 /\ p.tomb = 0
    PROVE  ActiveJob(jobsFile', r) /\ jobsFile'[r].job = jobsFile[r].job
<1> DEFINE ps == [v \in {q} |-> p]
           m  == UpsertEach(Loaded, ps)
<1>1. ps \in [{q} -> PatchSet] /\ {q} \in SUBSET Runners /\ ps[q] = p
  OBVIOUS
<1>2. UpsertMany(ps, ok)
  BY DEF Upsert
<1>3. IndexTypes
  BY DEF IndexInv
<1> HIDE DEF ps
<1>4. jobsFile' = jobsFile \/ \E e \in Catalogs : Landed(m, e, ok)
  BY <1>1, <1>2, UpsertEffect
<1>5. /\ jobsFile[r].tomb = 0 /\ jobsFile[r].job # None /\ jobsFile[r].started # 0
      /\ jobsFile[r].completed = 0
  BY DEF ActiveJob, ActiveRecord
<1>6. /\ r \in DOMAIN m
      /\ (r \in {q} /\ Mergeable(Loaded[r], ps[r])) \/ m[r] = Loaded[r]
      /\ Loaded[r].assigned # 0 => m[r].assigned # 0
      /\ jobsFile[r].job # None => m[r].job = jobsFile[r].job
      /\ r \in {q} /\ Mergeable(Loaded[r], ps[r]) =>
           /\ m[r].started = FirstTime(jobsFile[r].started, ps[r].started)
           /\ m[r].completed = FirstTime(jobsFile[r].completed, ps[r].completed)
           /\ m[r].tomb = ps[r].tomb
  BY <1>1, <1>3, <1>5, MergedRecord
<1>7. Loaded \in Catalogs /\ SameButTime(Loaded[r], jobsFile[r])
  BY <1>3, LoadedIs
<1>8. m \in Catalogs
  BY <1>1, <1>7, Upserted
<1> HIDE DEF m
<1>9. ActiveRecord(m[r])
  <2>1. CASE m[r] = Loaded[r]
    BY <1>5, <1>7, <2>1 DEF ActiveRecord, SameButTime
  <2>2. CASE r = q /\ Mergeable(Loaded[r], ps[r])
    BY <1>1, <1>5, <1>6, <2>2 DEF ActiveRecord, FirstTime
  <2> QED BY <1>6, <2>1, <2>2
<1>10. ASSUME NEW e \in Catalogs, Landed(m, e, ok)
       PROVE  ActiveJob(jobsFile', r) /\ jobsFile'[r].job = m[r].job
  BY <1>6, <1>8, <1>9, <1>10, LandedActive
<1> QED BY <1>4, <1>5, <1>6, <1>10

\* A call for one runner keeps the invariant.
LEMMA CallInv ==
    ASSUME ShedFacts, IndexInv, NEW q \in Runners, NEW p \in PatchSet, NEW ok \in BOOLEAN,
           Upsert(q, p, ok)
    PROVE  IndexInv' /\ SavesFit
<1> DEFINE ps == [v \in {q} |-> p]
<1>1. ps \in [{q} -> PatchSet] /\ {q} \in SUBSET Runners /\ UpsertMany(ps, ok)
  BY DEF Upsert
<1> HIDE DEF ps
<1>2. /\ IndexInv'
      /\ jobsFile' = jobsFile \/ \E e \in Catalogs : Landed(UpsertEach(Loaded, ps), e, ok)
  BY <1>1, UpsertEffect
<1> QED BY <1>2 DEF SavesFit, Landed

\* The completion of a running job takes its record out of the running ones, and only its own.
LEMMA CompletedKeepsActive ==
    ASSUME ShedFacts, IndexInv, NEW q \in Runners, NEW j \in Jobs, NEW res \in Results,
           NEW ok \in BOOLEAN, UpsertCompleted(q, j, res, ok),
           NEW r \in DOMAIN jobsFile, ActiveJob(jobsFile, r)
    PROVE  \/ ActiveJob(jobsFile', r) /\ jobsFile'[r].job = jobsFile[r].job
           \/ /\ q = r /\ j = jobsFile[r].job
              /\ r \in DOMAIN jobsFile' => jobsFile'[r].completed # 0
<1> DEFINE p  == [Patch EXCEPT !.job = j, !.result = res, !.assigned = AssignTime,
                               !.completed = now]
           ps == [v \in {q} |-> p]
           m  == UpsertEach(Loaded, ps)
<1>0. IndexTypes
  BY DEF IndexInv
<1>1. p \in PatchSet /\ p.job = j /\ p.completed = now /\ p.tomb = 0
  BY <1>0, CallPatches
<1>2. Upsert(q, p, ok)
  BY DEF UpsertCompleted
<1> HIDE DEF p
<1>3. CASE ~(r = q /\ Mergeable(Loaded[r], p))
  BY <1>1, <1>2, <1>3, CallKeepsActive
<1>4. CASE r = q /\ Mergeable(Loaded[r], p)
  <2>1. ps \in [{q} -> PatchSet] /\ {q} \in SUBSET Runners /\ ps[r] = p
    BY <1>1, <1>4
  <2>2. UpsertMany(ps, ok)
    BY <1>2 DEF Upsert
  <2> HIDE DEF ps
  <2>3. jobsFile' = jobsFile \/ \E e \in Catalogs : Landed(m, e, ok)
    BY <2>1, <2>2, UpsertEffect
  <2>4. jobsFile[r].tomb = 0 /\ jobsFile[r].job # None /\ jobsFile[r].completed = 0
    BY DEF ActiveJob, ActiveRecord
  <2>5. Loaded \in Catalogs /\ SameButTime(Loaded[r], jobsFile[r])
    BY <1>0, LoadedIs
  <2>6. /\ r \in DOMAIN m
        /\ (r \in {q} /\ Mergeable(Loaded[r], ps[r])) \/ m[r] = Loaded[r]
        /\ Loaded[r].assigned # 0 => m[r].assigned # 0
        /\ jobsFile[r].job # None => m[r].job = jobsFile[r].job
        /\ r \in {q} /\ Mergeable(Loaded[r], ps[r]) =>
             /\ m[r].started = FirstTime(jobsFile[r].started, ps[r].started)
             /\ m[r].completed = FirstTime(jobsFile[r].completed, ps[r].completed)
             /\ m[r].tomb = ps[r].tomb
    BY <1>0, <2>1, <2>4, MergedRecord
  <2>7. m \in Catalogs
    BY <2>1, <2>5, Upserted
  <2> HIDE DEF m
  <2>8. m[r].completed # 0
    BY <1>0, <1>1, <1>4, <2>1, <2>4, <2>6 DEF FirstTime, IndexTypes
  <2>9. j = jobsFile[r].job
    <3>1. CompatibleImmutable(Loaded[r].job, j) /\ Loaded[r].job = jobsFile[r].job
      BY <1>1, <1>4, <2>4, <2>5 DEF Mergeable, SameButTime
    <3>2. j # None
      BY RecordAssumption
    <3> QED BY <2>4, <3>1, <3>2 DEF CompatibleImmutable
  <2>10. ASSUME NEW e \in Catalogs, Landed(m, e, ok), r \in DOMAIN jobsFile'
         PROVE  jobsFile'[r].completed # 0
    <3>1. /\ DOMAIN jobsFile' = DOMAIN e /\ SameButTime(jobsFile'[r], e[r])
          /\ e[r] = m[r]
      BY <2>10, StoredIs DEF Landed, Shed
    <3> QED BY <2>8, <3>1 DEF SameButTime
  <2> QED BY <1>4, <2>3, <2>9, <2>10
<1> QED BY <1>3, <1>4

\* Retention tombstones what it was given and leaves other running jobs.
LEMMA TombstonesKeepActive ==
    ASSUME ShedFacts, IndexInv, NEW batch \in SUBSET Runners, NEW ok \in BOOLEAN,
           UpsertTombstones(batch, ok)
    PROVE  /\ IndexInv' /\ SavesFit
           /\ \A r \in DOMAIN jobsFile : ActiveJob(jobsFile, r) =>
                \/ ActiveJob(jobsFile', r) /\ jobsFile'[r].job = jobsFile[r].job
                \/ r \in batch /\ ~LiveRecord(jobsFile', r)
<1> DEFINE p(r) == [Patch EXCEPT !.container = TRUE, !.job = jobsFile[r].job, !.tomb = now]
           ps   == [r \in batch |-> p(r)]
           m    == UpsertEach(Loaded, ps)
<1>0. IndexTypes
  BY DEF IndexInv
<1>1. ASSUME NEW r \in batch
      PROVE  p(r) \in PatchSet /\ p(r).job = jobsFile[r].job /\ p(r).result = None
             /\ p(r).tomb = now
  <2>1. r \in DOMAIN jobsFile
    BY DEF UpsertTombstones, LiveRecord
  <2>2. jobsFile[r].job \in Jobs \cup {None}
    BY <1>0, <2>1, CatalogType, RecFields DEF IndexTypes
  <2> QED BY <1>0, <2>2, CallPatches
<1>2. UpsertMany(ps, ok)
  BY DEF UpsertTombstones
<1> HIDE DEF p
<1>3. ps \in [batch -> PatchSet] /\ \A r \in batch : ps[r] = p(r)
  BY <1>1
<1> HIDE DEF ps
<1>4. IndexInv' /\ (jobsFile' = jobsFile \/ \E e \in Catalogs : Landed(m, e, ok))
  BY <1>2, <1>3, UpsertEffect
<1>5. Loaded \in Catalogs /\ \A r \in DOMAIN jobsFile : SameButTime(Loaded[r], jobsFile[r])
  BY <1>0, LoadedIs
<1>6. m \in Catalogs
  BY <1>3, <1>5, Upserted
<1>7. ASSUME NEW r \in DOMAIN jobsFile, jobsFile[r].tomb = 0
      PROVE  /\ r \in DOMAIN m
             /\ (r \in batch /\ Mergeable(Loaded[r], ps[r])) \/ m[r] = Loaded[r]
             /\ Loaded[r].assigned # 0 => m[r].assigned # 0
             /\ jobsFile[r].job # None => m[r].job = jobsFile[r].job
             /\ r \in batch /\ Mergeable(Loaded[r], ps[r]) =>
                  /\ m[r].started = FirstTime(jobsFile[r].started, ps[r].started)
                  /\ m[r].completed = FirstTime(jobsFile[r].completed, ps[r].completed)
                  /\ m[r].tomb = ps[r].tomb
  BY <1>0, <1>3, <1>7, MergedRecord
<1> HIDE DEF m
<1>8. ASSUME NEW r \in DOMAIN jobsFile, ActiveJob(jobsFile, r),
             NEW e \in Catalogs, Landed(m, e, ok)
      PROVE  \/ ActiveJob(jobsFile', r) /\ jobsFile'[r].job = jobsFile[r].job
             \/ r \in batch /\ ~LiveRecord(jobsFile', r)
  <2>1. ActiveRecord(jobsFile[r]) /\ jobsFile[r].tomb = 0
    BY <1>8 DEF ActiveJob, ActiveRecord
  <2>2. CASE r \in batch /\ Mergeable(Loaded[r], ps[r])
    <3>1. m[r].tomb = ps[r].tomb
      BY <1>7, <2>1, <2>2
    <3>2. ps[r].tomb = now
      BY <1>1, <1>3, <2>2
    <3>3. now # 0
      BY <1>0 DEF IndexTypes
    <3>4. ASSUME r \in DOMAIN jobsFile'
          PROVE  jobsFile'[r].tomb = m[r].tomb
      <4>1. jobsFile' = Stored(e) /\ Shed(m, e)
        BY <1>8 DEF Landed
      <4>2. DOMAIN jobsFile' = DOMAIN e /\ r \in DOMAIN e
        BY <3>4, <4>1, StoredIs
      <4>3. SameButTime(jobsFile'[r], e[r]) /\ e[r] = m[r]
        BY <4>1, <4>2, StoredIs DEF Shed
      <4> QED BY <4>3 DEF SameButTime
    <3> QED BY <2>2, <3>1, <3>2, <3>3, <3>4 DEF LiveRecord
  <2>3. CASE m[r] = Loaded[r]
    <3>1. ActiveRecord(m[r]) /\ m[r].job = jobsFile[r].job
      BY <1>5, <2>1, <2>3 DEF ActiveRecord, SameButTime
    <3>2. ActiveJob(jobsFile', r) /\ jobsFile'[r].job = m[r].job
      BY <1>6, <1>7, <1>8, <2>1, <3>1, LandedActive
    <3> QED BY <3>1, <3>2
  <2> QED BY <1>7, <2>1, <2>2, <2>3
<1>9. SavesFit
  BY <1>4 DEF SavesFit, Landed
<1> QED BY <1>4, <1>8, <1>9

\* A call for one runner that neither completes nor tombstones keeps every running job.
LEMMA PlainCall ==
    ASSUME ShedFacts, IndexInv, NEW q \in Runners, NEW p \in PatchSet, NEW ok \in BOOLEAN,
           Upsert(q, p, ok), p.completed = 0, p.tomb = 0
    PROVE  IndexInv' /\ SavesFit /\ ActiveSurvives
<1>1. IndexInv' /\ SavesFit
  BY CallInv
<1>2. ASSUME NEW r \in DOMAIN jobsFile, ActiveJob(jobsFile, r)
      PROVE  ActiveJob(jobsFile', r) /\ jobsFile'[r].job = jobsFile[r].job
  BY <1>2, CallKeepsActive
<1>3. ActiveSurvives
  BY <1>2 DEF ActiveSurvives
<1> QED BY <1>1, <1>3

\* Pruning keeps every running job.
LEMMA PruneKeepsActive ==
    ASSUME ShedFacts, IndexInv, NEW ok \in BOOLEAN, PruneTombstones(ok)
    PROVE  IndexInv' /\ SavesFit /\ ActiveSurvives
<1>0. IndexTypes
  BY DEF IndexInv
<1>1. /\ IndexInv'
      /\ \/ jobsFile' = jobsFile
         \/ \E m, e \in Catalogs :
              /\ Landed(m, e, ok)
              /\ \A r \in DOMAIN jobsFile : jobsFile[r].tomb = 0 =>
                   r \in DOMAIN m /\ m[r] = Loaded[r]
  BY PruneEffect
<1>2. SavesFit
  BY <1>1 DEF SavesFit, Landed
<1>3. \A r \in DOMAIN jobsFile : SameButTime(Loaded[r], jobsFile[r])
  BY <1>0, LoadedIs
<1>4. ASSUME NEW r \in DOMAIN jobsFile, ActiveJob(jobsFile, r)
      PROVE  ActiveJob(jobsFile', r) /\ jobsFile'[r].job = jobsFile[r].job
  <2>1. ActiveRecord(jobsFile[r]) /\ jobsFile[r].tomb = 0
    BY <1>4 DEF ActiveJob, ActiveRecord
  <2>2. ActiveRecord(Loaded[r]) /\ Loaded[r].job = jobsFile[r].job
    BY <1>3, <2>1 DEF ActiveRecord, SameButTime
  <2>3. CASE jobsFile' = jobsFile
    BY <1>4, <2>3
  <2>4. ASSUME NEW m \in Catalogs, NEW e \in Catalogs, Landed(m, e, ok),
               \A v \in DOMAIN jobsFile : jobsFile[v].tomb = 0 =>
                   v \in DOMAIN m /\ m[v] = Loaded[v]
        PROVE  ActiveJob(jobsFile', r) /\ jobsFile'[r].job = jobsFile[r].job
    <3>1. r \in DOMAIN m /\ m[r] = Loaded[r]
      BY <2>1, <2>4
    <3>2. ActiveJob(jobsFile', r) /\ jobsFile'[r].job = m[r].job
      BY <2>2, <2>4, <3>1, LandedActive
    <3> QED BY <2>2, <3>1, <3>2
  <2> QED BY <1>1, <2>3, <2>4
<1>5. ActiveSurvives
  BY <1>4 DEF ActiveSurvives
<1> QED BY <1>1, <1>2, <1>5

\* Every step keeps the invariant, the limit and the running jobs.
LEMMA NextIndex ==
    ASSUME ShedFacts, IndexInv, [IndexNext]_indexVars
    PROVE  IndexInv' /\ (UNCHANGED indexVars \/ (SavesFit /\ ActiveSurvives))
<1>0. IndexTypes
  BY DEF IndexInv
<1>1. ASSUME NEW r \in Runners, NEW ok \in BOOLEAN, NEW j \in Jobs, UpsertStarted(r, j, ok)
      PROVE  IndexInv' /\ SavesFit /\ ActiveSurvives
  <2> DEFINE p == [Patch EXCEPT !.job = j, !.assigned = AssignTime, !.started = now]
  <2>1. p \in PatchSet /\ p.completed = 0 /\ p.tomb = 0
    BY <1>0, CallPatches
  <2>2. Upsert(r, p, ok)
    BY <1>1 DEF UpsertStarted
  <2> HIDE DEF p
  <2> QED BY <2>1, <2>2, PlainCall
<1>2. ASSUME NEW r \in Runners, NEW ok \in BOOLEAN, NEW j \in Jobs, NEW res \in Results,
             UpsertCompleted(r, j, res, ok)
      PROVE  IndexInv' /\ SavesFit /\ ActiveSurvives
  <2> DEFINE p == [Patch EXCEPT !.job = j, !.result = res, !.assigned = AssignTime,
                                !.completed = now]
  <2>1. p \in PatchSet
    BY <1>0, CallPatches
  <2>2. Upsert(r, p, ok)
    BY <1>2 DEF UpsertCompleted
  <2> HIDE DEF p
  <2>3. IndexInv' /\ SavesFit
    BY <2>1, <2>2, CallInv
  <2>4. ASSUME NEW q \in DOMAIN jobsFile, ActiveJob(jobsFile, q)
        PROVE  \/ ActiveJob(jobsFile', q) /\ jobsFile'[q].job = jobsFile[q].job
               \/ /\ r = q /\ j = jobsFile[q].job
                  /\ q \in DOMAIN jobsFile' => jobsFile'[q].completed # 0
    BY <1>2, <2>4, CompletedKeepsActive
  <2>5. ActiveSurvives
    BY <1>2, <2>4 DEF ActiveSurvives
  <2> QED BY <2>3, <2>5
<1>3. ASSUME NEW r \in Runners, NEW ok \in BOOLEAN,
             \/ UpsertAdopted(r, ok) \/ UpsertLog(r, ok) \/ UpsertDiagnostics(r, ok)
             \/ UpsertFinalized(r, ok) \/ UpsertStale(r, ok)
      PROVE  IndexInv' /\ SavesFit /\ ActiveSurvives
  <2> DEFINE new  == [Patch EXCEPT !.container = TRUE, !.open = "open"]
             log  == [Patch EXCEPT !.container = TRUE, !.log = TRUE, !.open = "open"]
             diag == [Patch EXCEPT !.container = TRUE, !.diag = TRUE]
             fin  == [Patch EXCEPT !.container = TRUE, !.finalized = now, !.open = "closed"]
  <2>0. new \in PatchSet /\ new.completed = 0 /\ new.tomb = 0
    BY <1>0, CallPatches
  <2>1. log \in PatchSet /\ log.completed = 0 /\ log.tomb = 0
    BY <1>0, CallPatches
  <2>2. diag \in PatchSet /\ diag.completed = 0 /\ diag.tomb = 0
    BY <1>0, CallPatches
  <2>3. fin \in PatchSet /\ fin.completed = 0 /\ fin.tomb = 0
    BY <1>0, CallPatches
  <2>4. \/ Upsert(r, new, ok) \/ Upsert(r, log, ok)
        \/ Upsert(r, diag, ok) \/ Upsert(r, fin, ok)
    BY <1>3 DEF UpsertAdopted, UpsertLog, UpsertDiagnostics, UpsertFinalized, UpsertStale
  <2> HIDE DEF new, log, diag, fin
  <2> QED BY <2>0, <2>1, <2>2, <2>3, <2>4, PlainCall
<1>4. ASSUME NEW batch \in SUBSET Runners, NEW ok \in BOOLEAN, UpsertTombstones(batch, ok)
      PROVE  IndexInv' /\ SavesFit /\ ActiveSurvives
  <2>1. /\ IndexInv' /\ SavesFit
        /\ \A r \in DOMAIN jobsFile : ActiveJob(jobsFile, r) =>
             \/ ActiveJob(jobsFile', r) /\ jobsFile'[r].job = jobsFile[r].job
             \/ r \in batch /\ ~LiveRecord(jobsFile', r)
    BY <1>4, TombstonesKeepActive
  <2>2. ActiveSurvives
    BY <1>4, <2>1 DEF ActiveSurvives
  <2> QED BY <2>1, <2>2
<1>5. ASSUME NEW ok \in BOOLEAN, PruneTombstones(ok)
      PROVE  IndexInv' /\ SavesFit /\ ActiveSurvives
  BY <1>5, PruneKeepsActive
<1>6. ASSUME NowTick
      PROVE  IndexInv' /\ SavesFit /\ ActiveSurvives
  <2>1. now' \in Nat \ {0}
    BY SMT, <1>0, <1>6 DEF IndexTypes, NowTick
  <2>2. IndexInv'
    BY <1>6, <2>1 DEF IndexInv, IndexTypes, NowTick, LiveRecord, Known
  <2>3. SavesFit /\ ActiveSurvives
    BY <1>6 DEF NowTick, SavesFit, ActiveSurvives
  <2> QED BY <2>2, <2>3
<1>7. CASE UNCHANGED indexVars
  <2>1. IndexInv'
    BY <1>7 DEF indexVars, IndexInv, IndexTypes, LiveRecord, Known
  <2> QED BY <1>7, <2>1
<1>8. CASE IndexNext
  BY <1>1, <1>2, <1>3, <1>4, <1>5, <1>6, <1>8 DEF IndexNext
<1> QED BY <1>7, <1>8
-----------------------------------------------------------------------------
(* Compaction.  The facts of counting it rests on are assumed here and shown at
   the end of the module, where the theorems on finite sets are brought in. *)
CountingFacts ==
    /\ \A T \in SUBSET Nat : T # {} => \E m \in T : \A k \in T : m <= k
    /\ \A S \in SUBSET Runners : /\ Cardinality(S) \in Nat
                                 /\ Cardinality(S) = 0 <=> S = {}
    /\ \A S \in SUBSET Runners : \A T \in SUBSET S :
         /\ Cardinality(T) <= Cardinality(S)
         /\ T # S => Cardinality(T) < Cardinality(S)
    /\ \A X \in SUBSET (Runners \X Optional) : Cardinality(X) \in Nat

\* The size of a catalogue is a natural number.
LEMMA BytesNat ==
    ASSUME CountingFacts, NEW c \in Catalogs
    PROVE  EncodedBytes(c) \in Nat
<1> DEFINE n == Cardinality(DOMAIN c)
           X == {x \in (DOMAIN c) \X Optional : Present(c[x[1]], x[2])}
           k == Cardinality(X)
<1>1. DOMAIN c \subseteq Runners
  BY CatalogType
<1>2. X \in SUBSET (Runners \X Optional)
  BY <1>1
<1>3. n \in Nat
  BY <1>1 DEF CountingFacts
<1> HIDE DEF X
<1>4. k \in Nat
  BY <1>2 DEF CountingFacts
<1>5. EncodedBytes(c) = Header + RecordBase * n + k
  BY DEF EncodedBytes, X
<1> HIDE DEF n, k
<1>6. RecordBase * n \in Nat
  BY SMT, <1>3, CatalogAssumption
<1> QED BY SMT, <1>4, <1>5, <1>6, CatalogAssumption

\* A quotient of naturals is one.
LEMMA QuotientNat ==
    ASSUME NEW a \in Nat, NEW b \in Nat, b >= 1
    PROVE  a \div b \in Nat
  BY SMT

\* A pass over the limit drops at least one entry.
LEMMA DropsSome ==
    ASSUME NEW over \in Nat, NEW bytes \in Nat, NEW count \in Nat, count >= 1,
           NEW available \in Nat, available >= 1
    PROVE  /\ DropCount(over, bytes, count, available) \in Nat
           /\ DropCount(over, bytes, count, available) >= 1
<1> DEFINE average == bytes \div count
           unit    == IF average < 1 THEN 1 ELSE average
           wanted  == over \div unit + 1
<1>1. average \in Nat
  BY QuotientNat
<1> HIDE DEF average
<1>2. unit \in Nat /\ unit >= 1
  BY SMT, <1>1
<1> HIDE DEF unit
<1>3. over \div unit \in Nat
  BY <1>2, QuotientNat
<1>4. DropCount(over, bytes, count, available) =
        IF wanted > available THEN available ELSE wanted
  BY DEF DropCount, unit, average
<1> QED BY SMT, <1>3, <1>4

\* The order of eviction is a strict total order.
LEMMA EvictionOrder ==
    ASSUME NEW c \in Catalogs
    PROVE  /\ \A r \in DOMAIN c : EvictionTime(c[r]) \in Nat /\ r \in Nat
           /\ \A r, q \in DOMAIN c :
                r # q => EvictedBefore(c, r, q) \/ EvictedBefore(c, q, r)
           /\ \A r, q, v \in DOMAIN c :
                EvictedBefore(c, r, q) /\ EvictedBefore(c, q, v) => EvictedBefore(c, r, v)
<1>1. \A r \in DOMAIN c : EvictionTime(c[r]) \in Nat /\ r \in Nat
  <2> SUFFICES ASSUME NEW r \in DOMAIN c
               PROVE  EvictionTime(c[r]) \in Nat /\ r \in Nat
    OBVIOUS
  <2>1. c[r] \in Recs /\ r \in Nat
    BY CatalogType, RecordAssumption
  <2>2. c[r].tomb \in Nat /\ c[r].finalized \in Nat /\ c[r].completed \in Nat
    BY <2>1, RecFields
  <2> QED BY <2>1, <2>2 DEF EvictionTime, TerminalTime
<1>2. ASSUME NEW r \in DOMAIN c, NEW q \in DOMAIN c, r # q
      PROVE  EvictedBefore(c, r, q) \/ EvictedBefore(c, q, r)
  BY SMT, <1>1, <1>2 DEF EvictedBefore
<1>3. ASSUME NEW r \in DOMAIN c, NEW q \in DOMAIN c, NEW v \in DOMAIN c,
             EvictedBefore(c, r, q), EvictedBefore(c, q, v)
      PROVE  EvictedBefore(c, r, v)
  BY SMT, <1>1, <1>3 DEF EvictedBefore
<1> QED BY <1>1, <1>2, <1>3

\* compactOldestFirst takes some of the tier it is given, the oldest of it.
LEMMA OldestTaken ==
    ASSUME CountingFacts, NEW c \in Catalogs, NEW tier \in SUBSET DOMAIN c, tier # {},
           NEW over \in Nat
    PROVE  LET V == CompactOldestFirst(c, tier, over) IN
           /\ V \subseteq tier /\ V # {}
           /\ \A r \in V, q \in tier \ V : EvictedBefore(c, r, q)
<1> DEFINE n == DropCount(over, EncodedBytes(c), Cardinality(DOMAIN c), Cardinality(tier))
           older(r) == {q \in tier : EvictedBefore(c, q, r)}
           V == CompactOldestFirst(c, tier, over)
<1>1. V = {r \in tier : Cardinality(older(r)) < n}
  BY DEF CompactOldestFirst
<1>2. DOMAIN c \in SUBSET Runners /\ tier \in SUBSET Runners /\ DOMAIN c # {}
  BY CatalogType
<1>3. n \in Nat /\ n >= 1
  <2>1. /\ Cardinality(DOMAIN c) \in Nat /\ Cardinality(DOMAIN c) # 0
        /\ Cardinality(tier) \in Nat /\ Cardinality(tier) # 0
    BY <1>2 DEF CountingFacts
  <2>2. Cardinality(DOMAIN c) >= 1 /\ Cardinality(tier) >= 1
    BY SMT, <2>1
  <2>3. EncodedBytes(c) \in Nat
    BY BytesNat
  <2> QED BY <2>1, <2>2, <2>3, DropsSome
<1> HIDE DEF n, V
<1>4. /\ \A r \in DOMAIN c : EvictionTime(c[r]) \in Nat /\ r \in Nat
      /\ \A r, q \in DOMAIN c :
           r # q => EvictedBefore(c, r, q) \/ EvictedBefore(c, q, r)
      /\ \A r, q, v \in DOMAIN c :
           EvictedBefore(c, r, q) /\ EvictedBefore(c, q, v) => EvictedBefore(c, r, v)
  BY EvictionOrder
<1>5. V \subseteq tier
  BY <1>1
<1>6. V # {}
  <2> DEFINE T == {EvictionTime(c[r]) : r \in tier}
  <2>1. T \in SUBSET Nat /\ T # {}
    BY <1>4
  <2>2. PICK t \in T : \A k \in T : t <= k
    <3> HIDE DEF T
    <3> QED BY <2>1 DEF CountingFacts
  <2> DEFINE N == {r \in tier : EvictionTime(c[r]) = t}
  <2>3. N \in SUBSET Nat /\ N # {}
    BY <1>4
  <2>4. PICK r \in N : \A k \in N : r <= k
    <3> HIDE DEF N
    <3> QED BY <2>3 DEF CountingFacts
  <2>5. r \in tier /\ EvictionTime(c[r]) = t
    BY <2>4
  <2>6. ASSUME NEW q \in tier PROVE ~EvictedBefore(c, q, r)
    <3>1. t <= EvictionTime(c[q]) /\ EvictionTime(c[q]) \in Nat /\ t \in Nat
      BY <1>4, <2>2, <2>5
    <3>2. EvictionTime(c[q]) = t => r <= q
      BY <2>4
    <3>3. q \in Nat /\ r \in Nat
      BY <1>4, <2>5
    <3> HIDE DEF T, N
    <3> QED BY SMT, <2>5, <3>1, <3>2, <3>3 DEF EvictedBefore
  <2>7. older(r) = {}
    BY <2>6
  <2>8. Cardinality(older(r)) = 0
    BY <1>2, <2>7 DEF CountingFacts
  <2>9. Cardinality(older(r)) < n
    <3> HIDE DEF older
    <3> QED BY SMT, <1>3, <2>8
  <2> QED BY <1>1, <2>5, <2>9
<1>7. ASSUME NEW r \in V, NEW q \in tier \ V
      PROVE  EvictedBefore(c, r, q)
  <2> SUFFICES ASSUME EvictedBefore(c, q, r) PROVE FALSE
    BY <1>4, <1>5
  <2>1. older(q) \in SUBSET older(r) /\ older(r) \in SUBSET Runners
        /\ older(q) \in SUBSET Runners
    BY <1>2, <1>4, <1>5
  <2>2. Cardinality(older(q)) <= Cardinality(older(r))
    <3> HIDE DEF older
    <3> QED BY <2>1 DEF CountingFacts
  <2>3. Cardinality(older(q)) \in Nat /\ Cardinality(older(r)) \in Nat
    <3> HIDE DEF older
    <3> QED BY <2>1 DEF CountingFacts
  <2>4. Cardinality(older(r)) < n
    BY <1>1
  <2>5. Cardinality(older(q)) < n
    <3> HIDE DEF older
    <3> QED BY SMT, <1>3, <2>2, <2>3, <2>4
  <2> QED BY <1>1, <2>5
<1> QED BY <1>5, <1>6, <1>7 DEF V

\* Two records are of one tier.
OneTier(c, r, q) == (c[r].tomb = 0) = (c[q].tomb = 0)

\* What compaction may have made of a catalogue so far.
Reached(c, k) ==
    /\ Shed(c, k)
    /\ \A r \in DOMAIN c \ DOMAIN k :
         /\ c[r].tomb = 0 => Tombstoned(k) = {}
         /\ \A q \in DOMAIN k : Compactable(c[q]) /\ OneTier(c, r, q) => EvictedBefore(c, r, q)

\* There is nothing left to drop, or no need to.
Settled(k, cap) == Fits(k, cap) \/ \A r \in DOMAIN k : ~Compactable(k[r])

\* A catalogue has nothing to drop when both tiers are empty.
LEMMA NoTier ==
    ASSUME NEW k, Tombstoned(k) = {}, Completed(k) = {}
    PROVE  \A r \in DOMAIN k : ~Compactable(k[r])
  BY DEF Tombstoned, Completed

\* What a pass makes of a catalogue.
PassedTo(k, cap, e) ==
    \/ Settled(k, cap) /\ e = k
    \/ \E tier \in {Tombstoned(k), Completed(k)} : \E V \in SUBSET tier :
         /\ ~Settled(k, cap)
         /\ V # {} /\ \A r \in V, q \in tier \ V : EvictedBefore(k, r, q)
         /\ tier = Tombstoned(k) \/ Tombstoned(k) = {}
         /\ e = [r \in DOMAIN k \ V |-> k[r]]

\* A pass leaves what has settled, and drops the oldest of the first tier otherwise.
LEMMA PassEffect ==
    ASSUME CountingFacts, NEW k \in Catalogs, NEW cap \in Int, NEW s, s.catalog = k
    PROVE  PassedTo(k, cap, CompactionPass(s, cap).catalog)
<1> DEFINE over == EncodedBytes(k) - cap
           tier == IF Tombstoned(k) # {} THEN Tombstoned(k) ELSE Completed(k)
           V    == CompactOldestFirst(k, tier, over)
           d    == s.dropped \o InOrder({r \in V : k[r].tomb = 0})
           left == [r \in DOMAIN k \ V |-> k[r]]
<1>1. CompactionPass(s, cap) =
        IF over <= 0 \/ tier = {} THEN s ELSE [catalog |-> left, dropped |-> d]
  BY DEF CompactionPass
<1>2. EncodedBytes(k) \in Nat
  BY BytesNat
<1>3. tier \in {Tombstoned(k), Completed(k)} /\ (tier = Tombstoned(k) \/ Tombstoned(k) = {})
  OBVIOUS
<1>4. CASE over <= 0
  <2>1. Fits(k, cap)
    BY SMT, <1>2, <1>4 DEF Fits
  <2>2. CompactionPass(s, cap) = s
    BY <1>1, <1>4
  <2> QED BY <2>1, <2>2 DEF Settled, PassedTo
<1>5. CASE tier = {}
  <2>1. CompactionPass(s, cap) = s
    BY <1>1, <1>5
  <2>2. Tombstoned(k) = {} /\ Completed(k) = {}
    BY <1>5
  <2> QED BY <2>1, <2>2, NoTier DEF Settled, PassedTo
<1>6. CASE ~(over <= 0) /\ tier # {}
  <2>1. over \in Nat
    BY SMT, <1>2, <1>6
  <2>2. tier \in SUBSET DOMAIN k
    BY DEF Tombstoned, Completed
  <2> HIDE DEF tier, over
  <2>3. CompactionPass(s, cap).catalog = left
    <3>1. CompactionPass(s, cap) = [catalog |-> left, dropped |-> d]
      BY <1>1, <1>6
    <3> HIDE DEF left, d
    <3> QED BY SMT, <3>1
  <2>4. V \subseteq tier /\ V # {} /\ \A r \in V, q \in tier \ V : EvictedBefore(k, r, q)
    BY <1>6, <2>1, <2>2, OldestTaken
  <2> HIDE DEF V
  <2>5. ~Settled(k, cap)
    <3>1. ~Fits(k, cap)
      BY SMT, <1>2, <1>6 DEF Fits, over
    <3>2. \A r \in tier : r \in DOMAIN k /\ Compactable(k[r])
      BY <1>3 DEF Tombstoned, Completed, Compactable
    <3> QED BY <1>6, <3>1, <3>2 DEF Settled
  <2> QED BY <1>3, <2>3, <2>4, <2>5 DEF PassedTo
<1> QED BY <1>4, <1>5, <1>6

\* A pass goes on from what was reached to what may be reached, with fewer records.
LEMMA PassReaches ==
    ASSUME CountingFacts, NEW c \in Catalogs, NEW k \in Catalogs, NEW cap \in Int,
           Reached(c, k), NEW s, s.catalog = k
    PROVE  LET e == CompactionPass(s, cap).catalog IN
           /\ e \in Catalogs /\ Reached(c, e)
           /\ \/ Settled(k, cap) /\ e = k
              \/ ~Settled(k, cap) /\ Cardinality(DOMAIN e) < Cardinality(DOMAIN k)
<1> DEFINE e == CompactionPass(s, cap).catalog
<1>1. PassedTo(k, cap, e)
  BY PassEffect
<1> HIDE DEF e
<1>2. CASE Settled(k, cap) /\ e = k
  BY <1>2 DEF e
<1>3. ASSUME NEW tier \in {Tombstoned(k), Completed(k)}, NEW V \in SUBSET tier,
             V # {} /\ \A r \in V, q \in tier \ V : EvictedBefore(k, r, q),
             tier = Tombstoned(k) \/ Tombstoned(k) = {},
             e = [r \in DOMAIN k \ V |-> k[r]]
      PROVE  /\ e \in Catalogs /\ Reached(c, e)
             /\ Cardinality(DOMAIN e) < Cardinality(DOMAIN k)
  <2>1. tier \subseteq DOMAIN k /\ \A r \in tier : Compactable(k[r])
    BY DEF Tombstoned, Completed, Compactable
  <2>2. DOMAIN e = DOMAIN k \ V /\ \A r \in DOMAIN e : e[r] = k[r]
    BY <1>3
  <2>3. DOMAIN k \subseteq Runners /\ \A r \in DOMAIN k : k[r] \in Recs
    BY CatalogType
  <2>4. e \in Catalogs
    <3>1. e \in [DOMAIN k \ V -> Recs] /\ DOMAIN k \ V \in SUBSET Runners
      BY <1>3, <2>3
    <3> QED BY <3>1 DEF Catalogs
  <2>5. /\ k \in Catalogs /\ DOMAIN k \subseteq DOMAIN c /\ \A r \in DOMAIN k : k[r] = c[r]
        /\ \A r \in DOMAIN c \ DOMAIN k : Compactable(c[r])
    BY DEF Reached, Shed
  <2>6. Shed(c, e)
    <3>1. ASSUME NEW r \in DOMAIN c \ DOMAIN e PROVE Compactable(c[r])
      <4>1. CASE r \in DOMAIN k
        BY <2>1, <2>2, <2>5, <4>1
      <4> QED BY <2>5, <4>1
    <3> QED BY <2>2, <2>4, <2>5, <3>1 DEF Shed
  <2>7. Tombstoned(e) \subseteq Tombstoned(k)
    BY <2>2 DEF Tombstoned
  <2>8. ASSUME NEW r \in DOMAIN c \ DOMAIN e
        PROVE  /\ c[r].tomb = 0 => Tombstoned(e) = {}
               /\ \A q \in DOMAIN e :
                    Compactable(c[q]) /\ OneTier(c, r, q) => EvictedBefore(c, r, q)
    <3>1. CASE r \notin DOMAIN k
      BY <2>2, <2>7, <3>1 DEF Reached
    <3>2. CASE r \in DOMAIN k
      <4>1. r \in V /\ r \in tier /\ k[r] = c[r]
        BY <2>2, <2>5, <3>2
      <4>2. c[r].tomb = 0 => Tombstoned(k) = {}
        BY <1>3, <4>1 DEF Tombstoned
      <4>3. ASSUME NEW q \in DOMAIN e, Compactable(c[q]), OneTier(c, r, q)
            PROVE  EvictedBefore(c, r, q)
        <5>1. q \in DOMAIN k /\ k[q] = c[q] /\ q \notin V
          BY <2>2, <2>5
        <5>2. q \in tier
          <6>1. CASE tier = Tombstoned(k)
            BY <4>1, <4>3, <5>1, <6>1 DEF Tombstoned, OneTier
          <6>2. CASE tier = Completed(k)
            BY <4>1, <4>3, <5>1, <6>2 DEF Completed, OneTier
          <6> QED BY <1>3, <6>1, <6>2
        <5>3. EvictedBefore(k, r, q)
          BY <1>3, <4>1, <5>1, <5>2
        <5> QED BY <4>1, <5>1, <5>3 DEF EvictedBefore
      <4> QED BY <2>7, <4>2, <4>3
    <3> QED BY <3>1, <3>2
  <2>9. Reached(c, e)
    BY <2>6, <2>8 DEF Reached
  <2>10. Cardinality(DOMAIN e) < Cardinality(DOMAIN k)
    <3>1. DOMAIN e \in SUBSET DOMAIN k /\ DOMAIN e # DOMAIN k /\ DOMAIN k \in SUBSET Runners
      BY <1>3, <2>1, <2>2, <2>3
    <3> QED BY <3>1 DEF CountingFacts
  <2> QED BY <2>4, <2>9, <2>10
<1> QED BY <1>1, <1>2, <1>3 DEF PassedTo, e

\* The passes over a catalogue, up to the n-th.
Start(c) == [catalog |-> c, dropped |-> <<>>]

Passes(c, cap, s, n) ==
    s = [i \in 0..n |-> IF i = 0 THEN Start(c) ELSE CompactionPass(s[i - 1], cap)]

\* There are any number of passes.
LEMMA PassesExist ==
    ASSUME CountingFacts, NEW c, NEW cap, NEW most \in Nat
    PROVE  \E s : Passes(c, cap, s, most)
<1> DEFINE T == {n \in Nat : ~\E s : Passes(c, cap, s, n)}
<1> SUFFICES ASSUME T # {} PROVE FALSE
  OBVIOUS
<1>1. T \in SUBSET Nat
  OBVIOUS
<1>2. PICK n \in T : \A k \in T : n <= k
  <2> HIDE DEF T
  <2> QED BY <1>1 DEF CountingFacts
<1>3. n \in Nat /\ ~\E s : Passes(c, cap, s, n)
  OBVIOUS
<1>4. CASE n = 0
  <2> DEFINE z == [i \in 0..0 |-> Start(c)]
  <2>1. \A i \in 0..0 : i = 0
    BY SMT
  <2>2. z = [i \in 0..0 |-> IF i = 0 THEN Start(c) ELSE CompactionPass(z[i - 1], cap)]
    BY <2>1
  <2>3. Passes(c, cap, z, 0)
    BY <2>2 DEF Passes
  <2> QED BY <1>3, <1>4, <2>3
<1>5. CASE n # 0
  <2>1. n - 1 \in Nat /\ ~(n <= n - 1)
    BY SMT, <1>3, <1>5
  <2>2. n - 1 \notin T
    BY <1>2, <2>1
  <2>3. PICK s : Passes(c, cap, s, n - 1)
    BY <2>1, <2>2
  <2> DEFINE last == CompactionPass(s[n - 1], cap)
             e    == [i \in 0..n |-> IF i = n THEN last ELSE s[i]]
  <2>4. ASSUME NEW i \in 0..n
        PROVE  e[i] = IF i = 0 THEN Start(c) ELSE CompactionPass(e[i - 1], cap)
    <3>1. CASE i = 0
      <4>1. i # n /\ i \in 0..(n - 1)
        BY SMT, <1>3, <1>5, <3>1
      <4>2. e[i] = s[i]
        BY <4>1
      <4> HIDE DEF e
      <4>3. s[i] = Start(c)
        BY <2>3, <3>1, <4>1 DEF Passes
      <4> QED BY <3>1, <4>2, <4>3
    <3>2. CASE i # 0 /\ i = n
      <4>1. i - 1 \in 0..n /\ i - 1 # n
        BY SMT, <1>3, <3>2
      <4>2. e[i] = last /\ e[i - 1] = s[i - 1]
        BY <3>2, <4>1
      <4> HIDE DEF e
      <4> QED BY <3>2, <4>2
    <3>3. CASE i # 0 /\ i # n
      <4>1. i - 1 \in 0..n /\ i - 1 # n /\ i \in 0..(n - 1)
        BY SMT, <1>3, <3>3
      <4>2. e[i] = s[i] /\ e[i - 1] = s[i - 1]
        BY <3>3, <4>1
      <4> HIDE DEF e
      <4>3. s[i] = CompactionPass(s[i - 1], cap)
        BY <2>3, <3>3, <4>1 DEF Passes
      <4> QED BY <3>3, <4>2, <4>3
    <3> QED BY <3>1, <3>2, <3>3
  <2>5. e = [i \in 0..n |-> e[i]]
    OBVIOUS
  <2> HIDE DEF e
  <2>6. e = [i \in 0..n |-> IF i = 0 THEN Start(c) ELSE CompactionPass(e[i - 1], cap)]
    BY <2>4, <2>5
  <2>7. Passes(c, cap, e, n)
    BY <2>6 DEF Passes
  <2> QED BY <1>3, <2>7
<1> QED BY <1>4, <1>5

\* encodeWithinCapacity returns the last of its passes.
LEMMA EncodeIsLastPass ==
    ASSUME CountingFacts, NEW c \in Catalogs, NEW cap
    PROVE  \E s : /\ Passes(c, cap, s, Cardinality(DOMAIN c))
                  /\ EncodeWithinCapacity(c, cap) = s[Cardinality(DOMAIN c)]
<1> DEFINE most == Cardinality(DOMAIN c)
           u    == CHOOSE s : Passes(c, cap, s, most)
<1>1. EncodeWithinCapacity(c, cap) = u[most]
  BY DEF EncodeWithinCapacity, Passes, Start
<1>2. most \in Nat
  BY CatalogType DEF CountingFacts
<1> HIDE DEF most
<1>3. Passes(c, cap, u, most)
  BY <1>2, PassesExist
<1> HIDE DEF u
<1> QED BY <1>1, <1>3 DEF most

\* Compaction ends with what may be reached, settled.
LEMMA Compacts ==
    ASSUME CountingFacts, NEW c \in Catalogs, NEW cap \in Int
    PROVE  LET e == EncodeWithinCapacity(c, cap).catalog IN Reached(c, e) /\ Settled(e, cap)
<1> DEFINE most == Cardinality(DOMAIN c)
           e    == EncodeWithinCapacity(c, cap).catalog
<1>0. DOMAIN c \in SUBSET Runners /\ most \in Nat
  BY CatalogType DEF CountingFacts
<1>1. PICK s : Passes(c, cap, s, most) /\ EncodeWithinCapacity(c, cap) = s[most]
  BY EncodeIsLastPass
<1> DEFINE k(n) == s[n].catalog
           Good(n) == /\ k(n) \in Catalogs /\ Reached(c, k(n))
                      /\ Settled(k(n), cap) \/ Cardinality(DOMAIN k(n)) + n <= most
           T == {n \in 0..most : ~Good(n)}
<1>2. Good(0)
  <2>1. 0 \in 0..most
    BY SMT, <1>0
  <2>2. s[0] = Start(c)
    <3> HIDE DEF most
    <3> QED BY <1>1, <2>1 DEF Passes
  <2>3. k(0) = c
    BY SMT, <2>2 DEF Start
  <2>4. Reached(c, c)
    BY DEF Reached, Shed
  <2>5. Cardinality(DOMAIN c) + 0 <= most
    BY SMT, <1>0
  <2> HIDE DEF k, most
  <2> QED BY <2>3, <2>4, <2>5
<1>3. ASSUME NEW n \in 1..most, Good(n - 1)
      PROVE  Good(n)
  <2>0. n \in 0..most /\ n # 0
    BY SMT, <1>0
  <2>1. s[n] = CompactionPass(s[n - 1], cap)
    <3> HIDE DEF most
    <3> QED BY <1>1, <2>0 DEF Passes
  <2>2. k(n - 1) \in Catalogs /\ Reached(c, k(n - 1))
    BY <1>3
  <2>3. /\ k(n) \in Catalogs /\ Reached(c, k(n))
        /\ \/ Settled(k(n - 1), cap) /\ k(n) = k(n - 1)
           \/ /\ ~Settled(k(n - 1), cap)
              /\ Cardinality(DOMAIN k(n)) < Cardinality(DOMAIN k(n - 1))
    BY <2>1, <2>2, PassReaches
  <2> HIDE DEF k
  <2>4. CASE Settled(k(n - 1), cap) /\ k(n) = k(n - 1)
    BY <2>3, <2>4
  <2>5. CASE /\ ~Settled(k(n - 1), cap)
             /\ Cardinality(DOMAIN k(n)) < Cardinality(DOMAIN k(n - 1))
    <3>1. Cardinality(DOMAIN k(n)) \in Nat /\ Cardinality(DOMAIN k(n - 1)) \in Nat
      BY <2>2, <2>3, CatalogType DEF CountingFacts
    <3>2. Cardinality(DOMAIN k(n - 1)) + (n - 1) <= most
      BY <1>3, <2>5
    <3> HIDE DEF most
    <3>3. Cardinality(DOMAIN k(n)) + n <= most
      BY SMT, <1>0, <2>5, <3>1, <3>2
    <3> QED BY <2>3, <3>3 DEF most
  <2> QED BY <2>3, <2>4, <2>5
<1>4. Good(most)
  <2> HIDE DEF Good
  <2>1. ASSUME T # {} PROVE FALSE
    <3>1. T \in SUBSET Nat
      BY SMT, <1>0
    <3>2. PICK n \in T : \A m \in T : n <= m
      <4> HIDE DEF T
      <4> QED BY <2>1, <3>1 DEF CountingFacts
    <3>3. n \in 0..most /\ ~Good(n)
      OBVIOUS
    <3>4. n \in 1..most /\ n - 1 \in 0..most /\ ~(n <= n - 1)
      <4>1. n # 0
        BY <1>2, <3>3
      <4> HIDE DEF most
      <4> QED BY SMT, <1>0, <3>3, <4>1
    <3>5. Good(n - 1)
      BY <3>2, <3>4
    <3> QED BY <1>3, <3>3, <3>4, <3>5
  <2>2. most \in 0..most
    BY SMT, <1>0
  <2> QED BY <2>1, <2>2
<1>5. k(most) = e
  BY <1>1
<1>6. Settled(e, cap)
  <2>1. ASSUME Cardinality(DOMAIN e) + most <= most PROVE Settled(e, cap)
    <3>1. DOMAIN e \in SUBSET Runners
      <4>1. e \in Catalogs
        BY <1>4, <1>5
      <4> HIDE DEF e
      <4> QED BY <4>1, CatalogType
    <3>2. Cardinality(DOMAIN e) \in Nat
      BY <3>1 DEF CountingFacts
    <3> HIDE DEF e, most
    <3>3. Cardinality(DOMAIN e) = 0
      BY SMT, <1>0, <2>1, <3>2
    <3>4. DOMAIN e = {}
      BY <3>1, <3>3 DEF CountingFacts
    <3> QED BY <3>4 DEF Settled
  <2> HIDE DEF k, most, e
  <2> QED BY <1>4, <1>5, <2>1
<1>7. Reached(c, e)
  <2> HIDE DEF k, most, e
  <2> QED BY <1>4, <1>5
<1> QED BY <1>6, <1>7

\* A save sheds no more than compaction allows.
LEMMA ShedHolds ==
    ASSUME CountingFacts PROVE ShedFacts
<1>1. Cap \in Int
  BY SMT, IndexAssumption
<1> QED BY <1>1, Compacts DEF ShedFacts, Reached

\* Compaction keeps to its order, whatever the catalogue in the file.
LEMMA CompactionOrder ==
    ASSUME CountingFacts, IndexInv PROVE CompactionIsOldestFirst
<1>1. jobsFile \in Catalogs
  BY DEF IndexInv, IndexTypes
<1>2. ASSUME NEW cap \in Header..EncodedBytes(jobsFile)
      PROVE  LET kept == EncodeWithinCapacity(jobsFile, cap).catalog
                 gone == DOMAIN jobsFile \ DOMAIN kept
                 oneTier(r, q) == (jobsFile[r].tomb = 0) = (jobsFile[q].tomb = 0)
             IN /\ Fits(kept, cap) \/ \A r \in DOMAIN kept : ~Compactable(kept[r])
                /\ \A r \in gone :
                     /\ Compactable(jobsFile[r])
                     /\ jobsFile[r].tomb = 0 => Tombstoned(kept) = {}
                     /\ \A q \in DOMAIN kept :
                          Compactable(jobsFile[q]) /\ oneTier(r, q)
                            => EvictedBefore(jobsFile, r, q)
  <2> DEFINE kept == EncodeWithinCapacity(jobsFile, cap).catalog
  <2>1. EncodedBytes(jobsFile) \in Nat
    BY <1>1, BytesNat
  <2>2. cap \in Int
    BY SMT, <2>1, CatalogAssumption
  <2>3. Reached(jobsFile, kept) /\ Settled(kept, cap)
    BY <1>1, <2>2, Compacts
  <2> HIDE DEF kept
  <2>4. Fits(kept, cap) \/ \A r \in DOMAIN kept : ~Compactable(kept[r])
    BY <2>3 DEF Settled
  <2>5. \A r \in DOMAIN jobsFile \ DOMAIN kept :
          /\ Compactable(jobsFile[r])
          /\ jobsFile[r].tomb = 0 => Tombstoned(kept) = {}
          /\ \A q \in DOMAIN kept :
               Compactable(jobsFile[q]) /\ ((jobsFile[r].tomb = 0) = (jobsFile[q].tomb = 0))
                 => EvictedBefore(jobsFile, r, q)
    BY <2>3 DEF Reached, Shed, OneTier
  <2> QED BY <2>4, <2>5 DEF kept
<1> QED BY <1>2 DEF CompactionIsOldestFirst

\* The promised times are read back.
LEMMA PromisesKept ==
    ASSUME IndexInv PROVE AssignmentKept
<1>1. IndexTypes /\ \A r \in promised : r \in DOMAIN jobsFile /\ Known(jobsFile, times, r)
  BY DEF IndexInv, LiveRecord
<1> QED BY <1>1, LoadedIs DEF AssignmentKept

\* The index starts empty, or as a release without the limit left it.
LEMMA InitIndex == IndexInit => IndexInv
<1> SUFFICES ASSUME IndexInit PROVE IndexInv
  OBVIOUS
<1> DEFINE old == [Blank EXCEPT !.container = TRUE, !.log = TRUE, !.diag = TRUE,
                                !.finalized = 1]
<1>1. old \in Recs /\ old.assigned = 0
  BY BlankType DEF Recs
<1> HIDE DEF old
<1>0. 1 \in Nat \ {0}
  BY SMT
<1>2. CASE jobsFile = <<>>
  <2>1. DOMAIN jobsFile = {} /\ jobsFile \in [{} -> Recs]
    BY SMT, <1>2
  <2>2. jobsFile \in Catalogs
    BY <2>1 DEF Catalogs
  <2> QED BY <1>0, <2>1, <2>2 DEF IndexInit, IndexInv, IndexTypes
<1>3. CASE jobsFile = [r \in Runners |-> old]
  <2>1. jobsFile \in [Runners -> Recs] /\ \A r \in Runners : jobsFile[r].assigned = 0
    BY <1>1, <1>3
  <2>2. jobsFile \in Catalogs /\ DOMAIN jobsFile = Runners
    BY <2>1 DEF Catalogs
  <2> QED BY <1>0, <2>1, <2>2 DEF IndexInit, IndexInv, IndexTypes
<1> QED BY <1>2, <1>3 DEF IndexInit, LegacyCatalogs, old
-----------------------------------------------------------------------------
(* The theorems, with the library's facts on finite sets. *)
INSTANCE FiniteSetTheorems

\* A non-empty set of naturals has a least member.
LEMMA LeastNatural ==
    ASSUME NEW T, T \subseteq Nat, T # {}
    PROVE  \E m \in T : \A k \in T : m <= k
<1> DEFINE less == {ss \in Nat \X Nat : ss[1] < ss[2]}
<1>1. IsWellFoundedOn(less, Nat)
  BY NatLessThanWellFounded DEF OpToRel
<1> HIDE DEF less
<1>2. PICK m \in T : \A k \in T : ~(<<k, m>> \in less)
  BY <1>1, WFMin
<1>3. ASSUME NEW k \in T PROVE m <= k
  <2>1. <<k, m>> \in Nat \X Nat /\ ~(<<k, m>> \in less)
    BY <1>2
  <2>2. ~(k < m)
    BY <2>1 DEF less
  <2> QED BY SMT, <2>2
<1> QED BY <1>3

\* The runners are finitely many, and so are their records' optional fields.
LEMMA CountingHolds == CountingFacts
<1>1. IsFiniteSet(Runners)
  BY RecordAssumption
<1>2. ASSUME NEW S \in SUBSET Runners
      PROVE  /\ IsFiniteSet(S) /\ Cardinality(S) \in Nat
             /\ Cardinality(S) = 0 <=> S = {}
  <2>1. IsFiniteSet(S)
    BY <1>1, FS_Subset
  <2> QED BY <2>1, FS_CardinalityType, FS_EmptySet
<1>3. ASSUME NEW S \in SUBSET Runners, NEW T \in SUBSET S
      PROVE  /\ Cardinality(T) <= Cardinality(S)
             /\ T # S => Cardinality(T) < Cardinality(S)
  <2>1. IsFiniteSet(S)
    BY <1>2
  <2>2. /\ Cardinality(T) <= Cardinality(S)
        /\ Cardinality(S) = Cardinality(T) => S = T
    BY <2>1, FS_Subset
  <2>3. Cardinality(T) \in Nat /\ Cardinality(S) \in Nat
    BY <1>2
  <2> QED BY SMT, <2>2, <2>3
<1>4. IsFiniteSet(Optional)
  <2>1. IsFiniteSet({"container"} \cup {"log"} \cup {"diag"} \cup {"job"} \cup {"result"}
                      \cup {"tomb"})
    BY FS_Singleton, FS_Union
  <2> QED BY <2>1 DEF Optional
<1>5. IsFiniteSet(Runners \X Optional)
  BY <1>1, <1>4, FS_Product
<1>6. ASSUME NEW X \in SUBSET (Runners \X Optional) PROVE Cardinality(X) \in Nat
  BY <1>5, FS_Subset, FS_CardinalityType
<1>7. ASSUME NEW T \in SUBSET Nat, T # {} PROVE \E m \in T : \A k \in T : m <= k
  BY <1>7, LeastNatural
<1> QED BY <1>2, <1>3, <1>6, <1>7 DEF CountingFacts

\* The files of the index keep the invariant, whichever saves fail and wherever a save is
\* interrupted.
THEOREM IndexInvariant == IndexSpec => []IndexInv
<1>1. IndexInv /\ [IndexNext]_indexVars => IndexInv'
  BY CountingHolds, ShedHolds, NextIndex
<1> QED BY <1>1, InitIndex, PTL DEF IndexSpec

\* A call of the store that reported success kept the assignment time it was given: it is
\* read back until the record goes, whatever later saves fail or are interrupted between
\* jobs.json and the sidecar.
THEOREM AssignmentsAreKept == IndexSpec => []AssignmentKept
  BY PromisesKept, IndexInvariant, PTL

\* encodeWithinCapacity stops at the first catalogue that fits or has nothing left to drop,
\* drops compactable records only, oldest first within a tier, and no completed record
\* while a tombstone is left: for every catalogue jobs.json can hold, and every limit.
THEOREM CompactionDropsOldest == IndexSpec => []CompactionIsOldestFirst
<1>1. IndexInv => CompactionIsOldestFirst
  BY CountingHolds, CompactionOrder
<1> QED BY <1>1, IndexInvariant, PTL

\* No save loses the mapping of a running job, nor leaves jobs.json over its limit.
THEOREM SavesKeepRunningJobs == IndexSpec => SavesKeepActive
<1>1. IndexInv /\ [IndexNext]_indexVars => [ActiveSurvives /\ SavesFit]_indexVars
  BY CountingHolds, ShedHolds, NextIndex
<1> QED BY <1>1, IndexInvariant, PTL DEF IndexSpec, SavesKeepActive
=============================================================================
