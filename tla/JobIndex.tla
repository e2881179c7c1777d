------------------------------ MODULE JobIndex ------------------------------
(***************************************************************************)
(* The durable job index: jobindex.FileStore, its lock and its three       *)
(* files.  Every operation runs under one lock shared by every process, so *)
(* nobody sees the middle of a save; what can go wrong is that a save      *)
(* fails, or the process dies, between the files it writes.  An operation  *)
(* is therefore one action that keeps any prefix of its writes.            *)
(***************************************************************************)
EXTENDS JobCatalog

CONSTANTS Cap,        \* maximumJobState, the byte limit of a save
          TombstoneRetention, \* diagnostics retention, in ticks
          MaxNow      \* bound on the clock

ASSUME IndexAssumption ==
    Cap \in Nat /\ TombstoneRetention \in Nat /\ MaxNow \in Nat

VARIABLES jobsFile,   \* jobs.json
          times,      \* runner-assign-times.json
          journal,    \* jobs-drop.json
          now,        \* the clock
          promised    \* history: runners whose assignment time was saved

indexVars == <<jobsFile, times, journal, now, promised>>
-----------------------------------------------------------------------------
Loaded == HydrateAssignTimes(jobsFile, times)

\* The assignment time GitHub reports, one for every event of a job.
AssignTime == 1

\* Mutant: the sidecar's failure is swallowed, as the journal's is.
SaveIgnoresSidecar(catalog, ok) ==
    LET encoded == EncodeWithinCapacity(catalog, Cap) IN
    /\ Fits(encoded.catalog, Cap)
    /\ jobsFile' = Stored(encoded.catalog)
    /\ journal' = AppendDropJournal(journal, encoded.dropped)
    /\ times' \in {times, AssignTimesFromCatalog(encoded.catalog)}

\* Mutant: the file is written whatever its size.
SaveUnbounded(catalog, ok) ==
    /\ jobsFile' = Stored(catalog)
    /\ journal' = journal
    /\ times' = AssignTimesFromCatalog(catalog)

\* The outcomes of saveUnlocked: refused, lost before the replace, landed but
\* stopped before the sidecar, or complete (and even then hardening may fail).
Save(catalog, ok) ==
    \/ ~ok /\ UNCHANGED <<jobsFile, times, journal>>
    \/ \E encoded \in {EncodeWithinCapacity(catalog, Cap)} :
       /\ Fits(encoded.catalog, Cap)
       /\ jobsFile' = Stored(encoded.catalog)
       /\ journal' \in {journal, AppendDropJournal(journal, encoded.dropped)}
       /\ \/ ~ok /\ UNCHANGED times
          \/ times' = AssignTimesFromCatalog(encoded.catalog)

\* Runners whose assignment time a successful call promised to keep.
Promise(kept) ==
    promised' = {r \in promised \cup kept : LiveRecord(jobsFile', r)}

UpsertMany(patches, ok) ==
    \E loaded \in {Loaded} : \E merged \in {UpsertEach(loaded, patches)} :
    /\ IF merged = loaded THEN UNCHANGED <<jobsFile, times, journal>>
       ELSE IF Validate(merged) THEN Save(merged, ok)
       ELSE ~ok /\ UNCHANGED <<jobsFile, times, journal>>
    /\ ok => ~Rejected(loaded, patches)
    /\ Promise({r \in DOMAIN patches : ok /\ patches[r].assigned # 0})
    /\ UNCHANGED now

Upsert(r, patch, ok) == UpsertMany([q \in {r} |-> patch], ok)

UpsertStarted(r, j, ok) ==
    Upsert(r, [Patch EXCEPT !.job = j, !.assigned = AssignTime, !.started = now], ok)

UpsertCompleted(r, j, result, ok) ==
    Upsert(r, [Patch EXCEPT !.job = j, !.result = result, !.assigned = AssignTime,
                            !.completed = now], ok)

\* A listing indexes the containers it finds, before any artifact of theirs.
UpsertAdopted(r, ok) ==
    Upsert(r, [Patch EXCEPT !.container = TRUE, !.open = "open"], ok)

UpsertLog(r, ok) ==
    Upsert(r, [Patch EXCEPT !.container = TRUE, !.log = TRUE, !.open = "open"], ok)

\* Diagnostics are indexed also when the log could not be.
UpsertDiagnostics(r, ok) ==
    Upsert(r, [Patch EXCEPT !.container = TRUE, !.diag = TRUE], ok)

UpsertFinalized(r, ok) ==
    /\ LiveRecord(jobsFile, r)
    /\ jobsFile[r].container /\ jobsFile[r].log /\ jobsFile[r].diag
    /\ Upsert(r, [Patch EXCEPT !.container = TRUE, !.finalized = now,
                               !.open = "closed"], ok)

UpsertStale(r, ok) ==
    /\ LiveRecord(jobsFile, r) /\ jobsFile[r].open /\ jobsFile[r].container
    /\ Upsert(r, [Patch EXCEPT !.container = TRUE, !.finalized = now,
                               !.open = "closed"], ok)

\* Retention tombstones closed, finalised records in one batch.
UpsertTombstones(batch, ok) ==
    /\ batch # {}
    /\ \A r \in batch : /\ LiveRecord(jobsFile, r)
                        /\ ~jobsFile[r].open /\ jobsFile[r].finalized # 0
    /\ UpsertMany([r \in batch |-> [Patch EXCEPT !.container = TRUE,
                                    !.job = jobsFile[r].job, !.tomb = now]], ok)

PruneTombstones(ok) ==
    LET old == {r \in Tombstoned(Loaded) : Loaded[r].tomb <= now - TombstoneRetention}
    IN /\ old # {}
       /\ Save([r \in DOMAIN Loaded \ old |-> Loaded[r]], ok)
       /\ Promise({})
       /\ UNCHANGED now

NowTick == /\ now < MaxNow
           /\ now' = now + 1
           /\ UNCHANGED <<jobsFile, times, journal, promised>>

\* The file may have been left over the limit by a release without the limit.
LegacyCatalogs ==
    {<<>>} \cup {[r \in Runners |-> [Blank EXCEPT !.container = TRUE, !.log = TRUE,
                                       !.diag = TRUE, !.finalized = 1]]}

IndexInit == /\ jobsFile \in LegacyCatalogs
             /\ times = {} /\ journal = <<>> /\ now = 1 /\ promised = {}

IndexNext ==
    \/ \E r \in Runners, ok \in BOOLEAN :
         \/ \E j \in Jobs :
              \/ UpsertStarted(r, j, ok)
              \/ \E result \in Results : UpsertCompleted(r, j, result, ok)
         \/ UpsertAdopted(r, ok) \/ UpsertLog(r, ok) \/ UpsertDiagnostics(r, ok)
         \/ UpsertFinalized(r, ok) \/ UpsertStale(r, ok)
    \/ \E batch \in SUBSET Runners, ok \in BOOLEAN : UpsertTombstones(batch, ok)
    \/ \E ok \in BOOLEAN : PruneTombstones(ok)
    \/ NowTick

IndexSpec == IndexInit /\ [][IndexNext]_indexVars
-----------------------------------------------------------------------------
\* No save loses the mapping of a running job: a record that ActiveJob reports
\* keeps its job until its own completion is saved or retention tombstones it (the
\* same save may then drop it).  CompactableUnderCapacityPressure promises this over
\* the limit ("evicting it would unmark a busy worker until the event lands").
ActiveSurvives ==
    \A r \in DOMAIN jobsFile : ActiveJob(jobsFile, r) =>
       \/ ActiveJob(jobsFile', r) /\ jobsFile'[r].job = jobsFile[r].job
       \/ /\ \E result \in Results, ok \in BOOLEAN :
               UpsertCompleted(r, jobsFile[r].job, result, ok)
          /\ r \in DOMAIN jobsFile' => jobsFile'[r].completed # 0
       \/ /\ \E batch \in SUBSET Runners, ok \in BOOLEAN :
               r \in batch /\ UpsertTombstones(batch, ok)
          /\ ~LiveRecord(jobsFile', r)

\* What encodeWithinCapacity may drop, for every limit: it stops at the first
\* catalogue that fits or has nothing left to drop, drops compactable records
\* only, oldest first within a tier, and no completed record while a tombstone
\* is left.
CompactionIsOldestFirst ==
    \A cap \in Header..EncodedBytes(jobsFile) :
      LET kept == EncodeWithinCapacity(jobsFile, cap).catalog
          gone == DOMAIN jobsFile \ DOMAIN kept
          oneTier(r, q) == (jobsFile[r].tomb = 0) = (jobsFile[q].tomb = 0)
      IN /\ Fits(kept, cap) \/ \A r \in DOMAIN kept : ~Compactable(kept[r])
         /\ \A r \in gone :
              /\ Compactable(jobsFile[r])
              /\ jobsFile[r].tomb = 0 => Tombstoned(kept) = {}
              /\ \A q \in DOMAIN kept :
                   Compactable(jobsFile[q]) /\ oneTier(r, q) => EvictedBefore(jobsFile, r, q)

\* A call that reported success kept the assignment time it was given: it is
\* still read back after any later failed or interrupted save, until the record
\* goes ("Upsert never claims success after losing assignment evidence").
AssignmentKept == \A r \in promised : Loaded[r].assigned # 0

\* A save that lands leaves jobs.json within maximumJobState, the first save
\* over an oversized file of an older release included.
SavesFit == jobsFile' # jobsFile => Fits(jobsFile', Cap)

\* Both at once, for every save: the limit is kept, and never at the expense of
\* a running job.
SavesKeepActive == [][ActiveSurvives /\ SavesFit]_indexVars
=============================================================================
