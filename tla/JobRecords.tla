----------------------------- MODULE JobRecords -----------------------------
(***************************************************************************)
(* The records of the job index and how a patch merges into one.  A        *)
(* catalogue is a function from runner names to records, so it is always   *)
(* in the order jobindex.Sort gives it.  Times are naturals and 0 is the   *)
(* zero time; a path, being a function of the worker, is a Boolean.  No    *)
(* state: MessageSession, Artifacts and, through JobCatalog, JobIndex add  *)
(* it.                                                                     *)
(***************************************************************************)
EXTENDS Integers, Sequences, FiniteSets

CONSTANTS Runners,      \* runner names of one pool, a set of naturals
          Jobs,         \* GitHub job identifiers
          Results,      \* job results GitHub reports
          None          \* an absent job or result

ASSUME RecordAssumption ==
    /\ Runners \subseteq Nat /\ IsFiniteSet(Runners)
    /\ None \notin Jobs \cup Results
-----------------------------------------------------------------------------
Blank == [container |-> FALSE, job |-> None, result |-> None, log |-> FALSE,
          diag |-> FALSE, assigned |-> 0, started |-> 0, completed |-> 0,
          finalized |-> 0, open |-> FALSE, tomb |-> 0]

Patch == [container |-> FALSE, job |-> None, result |-> None, log |-> FALSE,
          diag |-> FALSE, assigned |-> 0, started |-> 0, completed |-> 0,
          finalized |-> 0, open |-> "keep", tomb |-> 0]

CompatibleImmutable(current, incoming) ==
    incoming = None \/ current = None \/ current = incoming

Mergeable(record, patch) ==
    \/ record.tomb # 0
    \/ /\ CompatibleImmutable(record.job, patch.job)
       /\ CompatibleImmutable(record.result, patch.result)

MergeImmutable(current, incoming) == IF incoming = None THEN current ELSE incoming

FirstTime(current, incoming) == IF current = 0 THEN incoming ELSE current

Merge(record, patch) ==
    IF record.tomb # 0 THEN record ELSE
    [container |-> record.container \/ patch.container,
     job       |-> MergeImmutable(record.job, patch.job),
     result    |-> MergeImmutable(record.result, patch.result),
     log       |-> record.log \/ patch.log,
     diag      |-> record.diag \/ patch.diag,
     assigned  |-> FirstTime(record.assigned, patch.assigned),
     started   |-> FirstTime(record.started, patch.started),
     completed |-> FirstTime(record.completed, patch.completed),
     finalized |-> FirstTime(record.finalized, patch.finalized),
     open      |-> /\ patch.tomb = 0
                   /\ patch.open = "open" \/ (patch.open = "keep" /\ record.open),
     tomb      |-> patch.tomb]

Current(catalog, r) == IF r \in DOMAIN catalog THEN catalog[r] ELSE Blank

\* The catalogue after every patch that merges; the others are skipped.  A call
\* has one patch for each of its runners.
UpsertEach(catalog, patches) ==
    [r \in DOMAIN catalog \cup DOMAIN patches |->
       IF r \in DOMAIN patches /\ Mergeable(Current(catalog, r), patches[r])
       THEN Merge(Current(catalog, r), patches[r]) ELSE Current(catalog, r)]

Rejected(catalog, patches) ==
    \E r \in DOMAIN patches : ~Mergeable(Current(catalog, r), patches[r])

Validate(catalog) ==
    \A r, q \in DOMAIN catalog :
       r # q /\ catalog[r].job # None => catalog[r].job # catalog[q].job

ActiveRecord(record) ==
    /\ record.tomb = 0
    /\ record.job # None /\ record.started # 0 /\ record.completed = 0

ActiveJob(catalog, r) == r \in DOMAIN catalog /\ ActiveRecord(catalog[r])

LiveRecord(catalog, r) == r \in DOMAIN catalog /\ catalog[r].tomb = 0

Tombstoned(catalog) == {r \in DOMAIN catalog : catalog[r].tomb # 0}
=============================================================================
