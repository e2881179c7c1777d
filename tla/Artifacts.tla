----------------------------- MODULE Artifacts ------------------------------
(***************************************************************************)
(* Worker artifacts: FileArtifactSink, the watch that saves a worker's log, *)
(* diagnostics and resource evidence before it removes the container, and  *)
(* the sweeps that bound what is kept.  A sweep runs at every listing of   *)
(* the containers, by the reconciler or by a handler of the controller's   *)
(* requests, and in an operator's command, which is another process.  No   *)
(* lock is held over a sweep: sweeps overlap, and the inventory of one may *)
(* miss a container started after it.  Index writes and file operations    *)
(* are atomic; watches and sweeps interleave between them.  A file takes   *)
(* one unit of space.                                                      *)
(***************************************************************************)
EXTENDS JobRecords

CONSTANTS Space,        \* TotalCapBytes, in files
          Retention,    \* diagnostics retention, in ticks
          MaxTime,      \* bound on the clock
          Sweepers,     \* who sweeps, one sweep at a time each
          Reconciler,   \* the sweeper that also starts the containers
          MaxLapses,    \* bound on failed steps, ends of the controller, lost
                        \* containers, a damaged journal
          MaxCommands   \* bound on the sweeps of the other sweepers

ASSUME ArtifactsAssumption ==
    /\ {Space, MaxTime, MaxLapses, MaxCommands} \subseteq Nat
    /\ Retention \in Nat \ {0} /\ Reconciler \in Sweepers

VARIABLES
  box,      \* container of each worker: none, live, exited, removed or lost
  watch,    \* the watch of each worker: its step, off if there is none
  bad,      \* whether that watch has met an error
  index,    \* the job index
  named,    \* the artifacts the index's drop journal names
  legible,  \* whether that journal can be read
  file,     \* modification time of each artifact, 0 if absent
  clock,
  sweep,    \* each sweeper's sweep
  last,     \* lastCleanupAt of the controller's sink, 0 if never
  alone,    \* history: the sweeper no other has overlapped since it began, if any
  missed,   \* history: workers started behind the inventory of a sweep
  settled,  \* history: what the last cleanup left has not been disturbed
  lapses, commands

artifactVars == <<box, watch, bad, index, named, legible, file, clock, sweep, last, alone,
                  missed, settled, lapses, commands>>

Kinds  == {"log", "diag", "res"}
\* The paths of a record; that of the evidence follows from that of the archive.
Paths(record) == {k \in Kinds : IF k = "log" THEN record.log ELSE record.diag}
Exists == {w \in Runners : box[w] \in {"live", "exited"}}
Files  == {f \in Runners \X Kinds : file[f[1]][f[2]] # 0}
NoSweep == [pc |-> "off", op |-> "list", adopted |-> {}, todo |-> {}, seen |-> <<>>,
            at |-> 0, total |-> 0, protected |-> 0, failed |-> {}, batch |-> {},
            err |-> FALSE]
Busy == {p \in Sweepers : sweep[p].pc # "off"}
Listing == {p \in Busy : sweep[p].op = "list"}
Lapse == lapses < MaxLapses /\ lapses' = lapses + 1
-----------------------------------------------------------------------------
(* Containers.  Names are generated in order.  The reconciler lists and starts
   one after the other, so no container starts during its own sweep; the sweeps of
   others go on meanwhile. *)
Start(w) ==
    /\ box[w] = "none" /\ \A v \in Runners : v < w => box[v] # "none"
    /\ Reconciler \notin Busy
    /\ box' = [box EXCEPT ![w] = "live"] /\ watch' = [watch EXCEPT ![w] = "open"]
    /\ missed' = IF Busy = {} THEN missed ELSE missed \cup {w}
    /\ settled' = "no"
    /\ UNCHANGED <<bad, index, named, legible, file, clock, sweep, last, alone, lapses,
                   commands>>

Exit(w) ==
    /\ box[w] = "live" /\ box' = [box EXCEPT ![w] = "exited"]
    /\ UNCHANGED <<watch, bad, index, named, legible, file, clock, sweep, last, alone,
                   missed, settled, lapses, commands>>

\* A container removed by someone else.
Lose(w) ==
    /\ w \in Exists /\ Lapse /\ box' = [box EXCEPT ![w] = "lost"]
    /\ settled' = "no"
    /\ UNCHANGED <<watch, bad, index, named, legible, file, clock, sweep, last, alone,
                   missed, commands>>

\* A sweep takes less than a tick.
ClockTick ==
    /\ Busy = {} /\ clock < MaxTime /\ clock' = clock + 1
    /\ UNCHANGED <<box, watch, bad, index, named, legible, file, sweep, last, alone,
                   missed, settled, lapses, commands>>
-----------------------------------------------------------------------------
(* The watch of a worker.  A failed save leaves bad set: the later saves are still
   tried, the container is kept, and the next listing starts a new watch.  A write
   that reports an error may have landed. *)
Step(w, from, to) == watch[w] = from /\ watch' = [watch EXCEPT ![w] = to]
Fine == UNCHANGED <<bad, lapses>>
Broken(w) == bad' = [bad EXCEPT ![w] = TRUE] /\ Lapse
Publish(w, kind) == file' = [file EXCEPT ![w][kind] = clock]
Indexed(w, patch) ==
    index' = UpsertEach(index, [v \in {w} |-> [patch EXCEPT !.container = TRUE]])
WatchFrame ==
    settled' = "no"
    /\ UNCHANGED <<named, legible, clock, sweep, last, alone, missed, commands>>

OpenLog(w) ==
    /\ Step(w, "open", "stream") /\ w \in Exists
    /\ \/ Fine /\ Indexed(w, [Patch EXCEPT !.log = TRUE, !.open = "open"])
       \/ Broken(w) /\ (UNCHANGED index
                         \/ Indexed(w, [Patch EXCEPT !.log = TRUE, !.open = "open"]))
    /\ UNCHANGED <<box, file>> /\ WatchFrame

\* The log is published when the stream ends, whole or not; the wait answers once
\* the container exited.
CloseLog(w) ==
    /\ Step(w, "stream", "res") /\ box[w] \in {"exited", "lost"}
    /\ \/ Fine /\ (IF bad[w] THEN UNCHANGED file ELSE Publish(w, "log"))
       \/ ~bad[w] /\ Broken(w) /\ (UNCHANGED file \/ Publish(w, "log"))
    /\ UNCHANGED <<box, index>> /\ WatchFrame

\* Evidence that is already there is final; what cannot be copied has a fallback.
WriteResourceEvidence(w) ==
    /\ Step(w, "res", "diag")
    /\ \/ Fine /\ (IF file[w]["res"] # 0 THEN UNCHANGED file ELSE Publish(w, "res"))
       \/ Broken(w) /\ UNCHANGED file
    /\ UNCHANGED <<box, index>> /\ WatchFrame

\* A failed flush may leave the archive, which the next watch then only indexes.
WriteDiagnostics(w) ==
    /\ \/ /\ Step(w, "diag", "index") /\ Fine /\ box[w] = "exited"
          /\ IF file[w]["diag"] # 0 THEN UNCHANGED file ELSE Publish(w, "diag")
       \/ /\ Step(w, "diag", "finalize") /\ Broken(w)
          /\ UNCHANGED file \/ Publish(w, "diag")
       \/ /\ Step(w, "diag", "finalize") /\ box[w] = "lost"
          /\ bad' = [bad EXCEPT ![w] = TRUE] /\ UNCHANGED <<file, lapses>>
    /\ UNCHANGED <<box, index>> /\ WatchFrame

IndexDiagnostics(w) ==
    /\ Step(w, "index", "finalize")
    /\ \/ Fine /\ Indexed(w, [Patch EXCEPT !.diag = TRUE])
       \/ Broken(w) /\ (UNCHANGED index \/ Indexed(w, [Patch EXCEPT !.diag = TRUE]))
    /\ UNCHANGED <<box, file>> /\ WatchFrame

CompleteSet(w) ==
    /\ LiveRecord(index, w) /\ index[w].container /\ index[w].log /\ index[w].diag
    /\ \A k \in Kinds : file[w][k] # 0

EndWatch(w) == watch' = [watch EXCEPT ![w] = "off"] /\ bad' = [bad EXCEPT ![w] = FALSE]

\* Mutant: the record is closed whatever was saved.
FinalizesAnyway(w) ==
    /\ Step(w, "finalize", "remove") /\ Fine
    /\ Indexed(w, [Patch EXCEPT !.finalized = clock, !.open = "closed"])
    /\ UNCHANGED <<box, file>> /\ WatchFrame

\* An incomplete set of artifacts ends the watch and keeps the container.
Finalize(w) ==
    /\ watch[w] = "finalize"
    /\ \/ /\ ~bad[w] /\ CompleteSet(w) /\ Step(w, "finalize", "remove") /\ Fine
          /\ Indexed(w, [Patch EXCEPT !.finalized = clock, !.open = "closed"])
       \/ /\ bad[w] \/ ~CompleteSet(w)
          /\ EndWatch(w) /\ UNCHANGED <<index, lapses>>
       \/ /\ ~bad[w] /\ CompleteSet(w) /\ EndWatch(w) /\ Lapse
          /\ UNCHANGED index
             \/ Indexed(w, [Patch EXCEPT !.finalized = clock, !.open = "closed"])
    /\ UNCHANGED <<box, file>> /\ WatchFrame

ContainerRemove(w) ==
    /\ watch[w] = "remove" /\ EndWatch(w)
    /\ \/ box' = [box EXCEPT ![w] = IF @ = "exited" THEN "removed" ELSE @]
          /\ UNCHANGED lapses
       \/ Lapse /\ UNCHANGED box
    /\ UNCHANGED <<index, file>> /\ WatchFrame

\* The wait of a container that is gone answers not found.
WatchLost(w) ==
    /\ box[w] = "lost" /\ watch[w] \in {"open", "stream"} /\ EndWatch(w)
    /\ UNCHANGED file \/ (watch[w] = "stream" /\ ~bad[w] /\ Publish(w, "log"))
    /\ UNCHANGED <<box, index, lapses>> /\ WatchFrame
-----------------------------------------------------------------------------
(* A sweep.  Its inventory is taken first; the records of the containers in it are
   opened, and open records of containers not in it are closed, from one load of
   the index; what it may delete is decided from a second load. *)
Sets(p, s) == sweep' = [sweep EXCEPT ![p] = s]
To(p, pc) == Sets(p, [sweep[p] EXCEPT !.pc = pc])
Fails(p)  == Sets(p, NoSweep)
SweepFrame == UNCHANGED <<box, watch, bad, clock, alone, missed, named, legible, commands>>
Waits(p) == last' = IF sweep[p].op = "list" THEN sweep[p].at ELSE last

Begin(p, op) ==
    /\ p \notin Busy /\ (p = Reconciler => op = "list")
    /\ IF p = Reconciler THEN UNCHANGED commands
       ELSE commands < MaxCommands /\ commands' = commands + 1
    /\ Sets(p, [NoSweep EXCEPT !.pc = "adopt", !.op = op, !.adopted = Exists])
    /\ alone' = IF Busy = {} THEN {p} ELSE {}
    /\ settled' = CASE Busy # {} -> "no" [] Busy = {} /\ op = "purge" -> settled
                    [] OTHER -> "sweeping"
    /\ UNCHANGED <<box, watch, bad, index, named, legible, file, clock, last, missed, lapses>>

Adoption == [Patch EXCEPT !.container = TRUE, !.open = "open"]

\* Records of the inventory are opened one by one, up to the first failure.
Adopt(p) ==
    /\ sweep[p].pc = "adopt"
    /\ \E done \in SUBSET sweep[p].adopted :
         /\ index' = UpsertEach(index, [w \in done |-> Adoption])
         /\ IF done # sweep[p].adopted THEN Lapse /\ Fails(p)
            ELSE /\ Sets(p, [sweep[p] EXCEPT !.pc = "close", !.at = clock, !.seen = index'])
                 /\ UNCHANGED lapses
    /\ UNCHANGED <<file, last, settled>> /\ SweepFrame

\* Mutant: a record that was finalised once is taken for closed.
SkipsFinalized(p) ==
    {w \in DOMAIN sweep[p].seen \ sweep[p].adopted :
       /\ LiveRecord(sweep[p].seen, w) /\ sweep[p].seen[w].open
       /\ sweep[p].seen[w].finalized = 0}

Stale(p) ==
    {w \in DOMAIN sweep[p].seen \ sweep[p].adopted :
       /\ LiveRecord(sweep[p].seen, w) /\ sweep[p].seen[w].open
       /\ sweep[p].seen[w].container}

Closing(p) == [Patch EXCEPT !.container = TRUE, !.finalized = sweep[p].at, !.open = "closed"]

\* CleanupEvery is one tick.
Due(p) == last = 0 \/ sweep[p].at - last >= 1

\* Stale records are closed, up to the first failure.
CloseStale(p) ==
    /\ sweep[p].pc = "close"
    /\ \E done \in SUBSET Stale(p) :
         /\ index' = UpsertEach(index, [w \in done |-> Closing(p)])
         /\ IF done # Stale(p) THEN Lapse /\ Fails(p)
            ELSE /\ To(p, IF sweep[p].op = "list" /\ ~Due(p) THEN "watch" ELSE "load")
                 /\ UNCHANGED lapses
    /\ UNCHANGED <<file, last, settled>> /\ SweepFrame

\* A cleanup that is due, or a purge, loads the index again.
Load(p) ==
    /\ sweep[p].pc = "load"
    /\ \/ /\ Sets(p, [sweep[p] EXCEPT !.seen = index,
                         !.pc = IF sweep[p].op = "purge" THEN "purge" ELSE "space"])
          /\ UNCHANGED <<last, lapses>>
       \/ Lapse /\ Fails(p) /\ Waits(p)
    /\ UNCHANGED <<index, file, settled>> /\ SweepFrame
-----------------------------------------------------------------------------
(* cleanup. *)
\* Mutant: only the index protects a file.
IgnoresInventory(p) ==
    {f \in Runners \X Kinds :
       LiveRecord(sweep[p].seen, f[1]) /\ f[2] \in Paths(sweep[p].seen[f[1]])}

Referenced(p) ==
    {f \in Runners \X Kinds :
       \/ f[1] \in sweep[p].adopted
       \/ LiveRecord(sweep[p].seen, f[1]) /\ f[2] \in Paths(sweep[p].seen[f[1]])}

Candidates(p) ==
    {w \in DOMAIN sweep[p].seen \ sweep[p].adopted :
       /\ LiveRecord(sweep[p].seen, w) /\ ~sweep[p].seen[w].open
       /\ sweep[p].seen[w].finalized # 0}

CandidatePaths(p) ==
    {f \in Runners \X Kinds : f[1] \in Candidates(p) /\ f[2] \in Paths(sweep[p].seen[f[1]])}

Without(gone) == [w \in Runners |-> [k \in Kinds |->
                    IF <<w, k>> \in gone THEN 0 ELSE file[w][k]]]

\* The unreferenced files are tried oldest first while the total is over the limit:
\* some go, the stuck ones refuse to.
Swept(p, gone, stuck) ==
    LET loose == Files \ Referenced(p)
        older(f) == {g \in loose : file[g[1]][g[2]] < file[f[1]][f[2]]}
    IN /\ gone \cup stuck \subseteq loose
       /\ gone \cup stuck = loose \/ Cardinality(Files \ gone) <= Space
       /\ gone = {} \/ Cardinality(Files \ gone) + 1 > Space
       /\ \A f \in gone \cup stuck : older(f) \subseteq gone \cup stuck
       /\ \A f \in stuck : Cardinality(Files \ (gone \cap older(f))) > Space

\* Mutant: what may be evicted counts as protected.
ProtectsCandidates(p, left, stuck) == left \cap (Referenced(p) \cup stuck)

Protected(p, left, stuck) == left \cap ((Referenced(p) \ CandidatePaths(p)) \cup stuck)

\* The sweep over the limit has a scan of its own, without which it removes nothing
\* and the cleanup goes on.
SweepUnreferenced(p) ==
    /\ sweep[p].pc = "space"
    /\ \E unread \in BOOLEAN, stuck \in SUBSET (Files \ Referenced(p)) :
       \E gone \in SUBSET (Files \ (Referenced(p) \cup stuck)) :
         /\ IF unread THEN Cardinality(Files) > Space /\ gone = {} /\ stuck = {}
                      ELSE Swept(p, gone, stuck)
         /\ IF stuck = {} /\ ~unread THEN UNCHANGED lapses ELSE Lapse
         /\ file' = Without(gone)
         /\ Sets(p, [sweep[p] EXCEPT !.pc = "evict", !.todo = Candidates(p),
                       !.total = Cardinality(Files \ gone),
                       !.protected = Cardinality(Protected(p, Files \ gone, stuck)),
                       !.err = unread \/ stuck # {}])
    /\ UNCHANGED <<index, last, settled>> /\ SweepFrame

Prune(p) ==
    index' = [w \in {v \in DOMAIN index : \/ index[v].tomb = 0
                                          \/ index[v].tomb > sweep[p].at - Retention}
                 |-> index[w]]

\* The scan of the total fails, before the sweep over the limit or after it; the
\* tombstones still go, unless that fails too.
ScanFails(p) ==
    /\ sweep[p].pc = "space" /\ Lapse /\ Fails(p) /\ Waits(p) /\ settled' = "no"
    /\ \E stuck \in SUBSET (Files \ Referenced(p)) :
       \E gone \in SUBSET (Files \ (Referenced(p) \cup stuck)) :
         /\ gone = {} \/ Swept(p, gone, stuck)
         /\ file' = Without(gone)
    /\ Prune(p) \/ UNCHANGED index
    /\ SweepFrame

\* Mutant: what may not go counts against the limit.
PressureOnTotal(p) == sweep[p].total > Space

CapDeletionPressure(p) ==
    sweep[p].total > Space /\ sweep[p].total - sweep[p].protected > Space

Expired(p, w) == sweep[p].at - sweep[p].seen[w].finalized >= Retention

\* Mutant: the removal's error is only reported.
TombstonesAnyway(gone, mine) == TRUE

\* A record some file of which could not be removed is not tombstoned.
Tombstonable(gone, mine) == gone = mine

\* The first candidate that is neither expired nor under pressure ends the loop.
Evict(p, w) ==
    /\ sweep[p].pc = "evict" /\ w \in sweep[p].todo
    /\ \A v \in sweep[p].todo : sweep[p].seen[w].finalized <= sweep[p].seen[v].finalized
    /\ Expired(p, w) \/ CapDeletionPressure(p)
    /\ LET mine == {f \in Files : f[1] = w /\ f[2] \in Paths(sweep[p].seen[w])} IN
       \E gone \in SUBSET mine :
         /\ IF gone = mine THEN UNCHANGED lapses ELSE Lapse
         /\ file' = Without(gone)
         /\ Sets(p, [sweep[p] EXCEPT !.todo = @ \ {w}, !.total = @ - Cardinality(gone),
               !.batch = IF Tombstonable(gone, mine) THEN @ \cup {w} ELSE @,
               !.failed = IF gone = mine THEN @ ELSE @ \cup {w},
               !.err = @ \/ gone # mine])
    /\ UNCHANGED <<index, last, settled>> /\ SweepFrame

Evicted(p) ==
    \/ sweep[p].todo = {}
    \/ \E w \in sweep[p].todo :
         /\ \A v \in sweep[p].todo : sweep[p].seen[w].finalized <= sweep[p].seen[v].finalized
         /\ ~Expired(p, w) /\ ~CapDeletionPressure(p)

Buried(p) == UpsertEach(index, [w \in sweep[p].batch |->
                              [Patch EXCEPT !.container = TRUE, !.tomb = sweep[p].at]])

Tombstone(p) ==
    /\ sweep[p].pc = "evict" /\ Evicted(p)
    /\ \/ index' = Buried(p) /\ To(p, "orphans") /\ UNCHANGED lapses
       \/ /\ sweep[p].batch # {} /\ Lapse
          /\ UNCHANGED index \/ index' = Buried(p)
          /\ Sets(p, [sweep[p] EXCEPT !.pc = "orphans", !.err = TRUE])
    /\ UNCHANGED <<file, last, settled>> /\ SweepFrame

Orphans(p) == {f \in Files \ Referenced(p) : file[f[1]][f[2]] <= sweep[p].at - Retention}

\* Orphans go, then expired tombstones, each of which may fail.  The controller's
\* sink waits for CleanupEvery after a failed sweep too, and only watches after a
\* good one.
SweepOrphans(p) ==
    /\ sweep[p].pc = "orphans"
    /\ \E stuck \in SUBSET Orphans(p), pruned \in BOOLEAN :
         LET err == sweep[p].err \/ stuck # {} \/ ~pruned IN
         /\ IF stuck = {} /\ pruned THEN UNCHANGED lapses ELSE Lapse
         /\ file' = Without(Orphans(p) \ stuck)
         /\ IF pruned THEN Prune(p) ELSE UNCHANGED index
         /\ IF sweep[p].op = "list" /\ ~err THEN To(p, "watch") ELSE Fails(p)
         /\ settled' = IF settled = "sweeping" /\ ~err THEN "yes" ELSE "no"
    /\ Waits(p) /\ SweepFrame

\* A listing that went well watches every container it found.
EnsureWatch(p) ==
    /\ sweep[p].pc = "watch" /\ Fails(p)
    /\ watch' = [w \in Runners |-> IF w \in sweep[p].adopted \cap Exists /\ watch[w] = "off"
                                   THEN "open" ELSE watch[w]]
    /\ UNCHANGED <<box, bad, index, named, legible, file, clock, last, alone, missed,
                   settled, lapses, commands>>

\* Mutant: the drop journal is not consulted.
IgnoresJournal(p) == Files \ Referenced(p)

\* A journal that cannot be read is only reported: the purge goes on without it.
Purgeable(p) == Files \ (Referenced(p) \cup (IF legible THEN named ELSE {}))

\* PurgeUnreferencedNow deletes what nothing refers to, to the first failure.
Purge(p) ==
    /\ sweep[p].pc = "purge" /\ Fails(p)
    /\ \E gone \in SUBSET Purgeable(p) :
         /\ IF gone = Purgeable(p) THEN UNCHANGED lapses ELSE Lapse
         /\ file' = Without(gone)
    /\ UNCHANGED <<index, last, settled>> /\ SweepFrame

ControllerCrash ==
    /\ Lapse
    /\ watch' = [w \in Runners |-> "off"] /\ bad' = [w \in Runners |-> FALSE]
    /\ sweep' = [p \in Sweepers |-> IF sweep[p].op = "list" THEN NoSweep ELSE sweep[p]]
    /\ last' = 0
    /\ UNCHANGED <<box, index, named, legible, file, clock, alone, missed, settled, commands>>

\* Runtime.Close ends the watches; the logs streamed so far are published.
RuntimeClose ==
    /\ Lapse /\ Listing = {}
    /\ file' = [w \in Runners |-> IF watch[w] = "stream" /\ ~bad[w]
                                  THEN [file[w] EXCEPT !["log"] = clock] ELSE file[w]]
    /\ watch' = [w \in Runners |-> "off"] /\ bad' = [w \in Runners |-> FALSE]
    /\ last' = 0 /\ settled' = "no"
    /\ UNCHANGED <<box, index, named, legible, clock, sweep, alone, missed, commands>>

\* The operator's command ends where it is; a listing whose context is cancelled
\* leaves the eviction, and what it removed keeps its records.
Interrupt(p) ==
    /\ p \in Busy /\ (sweep[p].op = "list" => sweep[p].pc = "evict")
    /\ Lapse /\ Fails(p) /\ Waits(p)
    /\ UNCHANGED <<index, file, settled>> /\ SweepFrame

\* External: the journal's file is damaged, or grows over its limit.
DamageJournal ==
    /\ legible /\ named # {} /\ Lapse /\ legible' = FALSE
    /\ UNCHANGED <<box, watch, bad, index, named, file, clock, sweep, last, alone, missed,
                   settled, commands>>
-----------------------------------------------------------------------------
\* Earlier workers have left evidence: closed records of two ages, or files whose
\* record the index has shed under its size limit, which its journal then names.
ArtifactsInitWith(time, shed, now0, lapsed, commanded) ==
    /\ box = [w \in Runners |-> IF w \in DOMAIN time THEN "removed" ELSE "none"]
    /\ watch = [w \in Runners |-> "off"] /\ bad = [w \in Runners |-> FALSE]
    /\ index = [w \in DOMAIN time \ shed |->
                  [Blank EXCEPT !.container = TRUE, !.log = TRUE, !.diag = TRUE,
                                !.finalized = time[w]]]
    /\ file = [w \in Runners |->
                 [k \in Kinds |-> IF w \in DOMAIN time THEN time[w] ELSE 0]]
    /\ named = shed \X Kinds
    /\ legible = TRUE /\ clock = now0 /\ sweep = [p \in Sweepers |-> NoSweep]
    /\ last = 0 /\ alone = {} /\ missed = {} /\ settled = "no"
    /\ lapses = lapsed /\ commands = commanded

ArtifactsInit ==
    \E past \in SUBSET Runners : \E time \in [past -> 1..2], shed \in SUBSET past :
       \E now0 \in 2..MaxTime : ArtifactsInitWith(time, shed, now0, 0, 0)

Watch(w) == \/ OpenLog(w) \/ CloseLog(w) \/ WriteResourceEvidence(w)
            \/ WriteDiagnostics(w) \/ IndexDiagnostics(w)
            \/ Finalize(w) \/ ContainerRemove(w) \/ WatchLost(w)

Sweep(p) == \/ Adopt(p) \/ CloseStale(p) \/ Load(p) \/ SweepUnreferenced(p)
            \/ \E w \in Runners : Evict(p, w)
            \/ Tombstone(p) \/ SweepOrphans(p) \/ ScanFails(p) \/ EnsureWatch(p) \/ Purge(p)

ArtifactsNext ==
    \/ \E w \in Runners : Start(w) \/ Exit(w) \/ Lose(w) \/ Watch(w)
    \/ \E p \in Sweepers :
         \/ \E op \in {"list", "cleanup", "purge"} : Begin(p, op)
         \/ Sweep(p) \/ Interrupt(p)
    \/ ClockTick \/ ControllerCrash \/ RuntimeClose \/ DamageJournal

ArtifactsSpec == ArtifactsInit /\ [][ArtifactsNext]_artifactVars
-----------------------------------------------------------------------------
(* Retention "skips every open or freshly adopted record": while its container
   exists, no sweep deletes an artifact of a worker, indexed or not yet indexed,
   or freezes its record, however many sweeps overlap, unless the container
   started behind the inventory of one. *)
LiveKept ==
    \A w \in Exists \ missed :
       /\ \A k \in Kinds : file[w][k] # 0 => file'[w][k] # 0
       /\ LiveRecord(index, w) => LiveRecord(index', w)

(* A container is removed only over the whole of its evidence, whatever sweeps
   ran meanwhile: log, archive and resource evidence are on disk and the record
   is finalised. *)
RemovedOverEvidence ==
    [][\A w \in Runners \ missed : box[w] = "exited" /\ box'[w] = "removed" =>
         /\ \A k \in Kinds : file[w][k] # 0
         /\ LiveRecord(index, w) /\ index[w].finalized # 0]_artifactVars

(* A record is evicted before its time only if the evidence that may go is over
   the limit, and only after every older closed record, save those whose files
   could not be removed and those of a container that someone else removed, the
   watch of which may still write.  The limit is what a sweep alone respects: one
   that another overlaps still counts the files the other removed. *)
EvictedForCause ==
    [][\A p \in Sweepers : \A w \in sweep[p].todo \ sweep'[p].todo :
         sweep'[p].pc = "evict" =>
         /\ \/ Expired(p, w) \/ p \notin alone
            \/ Cardinality({f \in Files : f[1] \notin Exists \ missed}) > Space
         /\ \A v \in Candidates(p) \ (sweep[p].failed \cup missed) :
              box[v] # "lost" /\ sweep[p].seen[v].finalized < sweep[p].seen[w].finalized =>
                \A k \in Paths(sweep[p].seen[v]) : file[v][k] = 0]_artifactVars

(* A tombstone says that the files its record named are gone, so they "are not
   rediscovered as live evidence", also after removals that failed half-way.  The
   watch of a container that someone else removed may write behind it. *)
TombstoneIsEmpty ==
    \A w \in Tombstoned(index) \ missed :
       box[w] # "lost" => \A k \in Paths(index[w]) : file[w][k] = 0

(* A cleanup that went well, alone and undisturbed, leaves no more than the limit
   of evidence beside that of unfinished records and existing containers. *)
Unfinished(w) == w \in DOMAIN index /\ (index[w].open \/ index[w].finalized = 0)

SpaceEnforced ==
    settled = "yes" =>
      Cardinality({f \in Files : f[1] \notin Exists /\ ~Unfinished(f[1])}) <= Space

(* The purge leaves alone what the drop journal still names, as long as it can read
   the journal. *)
JournalKept ==
    \A p \in Sweepers :
       sweep[p].pc = "purge" /\ sweep'[p].pc = "off" /\ legible =>
         \A f \in named : file'[f[1]][f[2]] = file[f[1]][f[2]]

(* No sweep deletes the evidence of a container that exists, and no purge what a
   readable drop journal names.  Only the purge consults the journal: retention by
   age and by space deletes what it names like any other unreferenced file. *)
ProtectedKept == [][LiveKept /\ JournalKept]_artifactVars

(* A record that a sweep opened again, its inventory being older than the removal
   of the container, or that a dead watch left open, is closed by the next cleanup
   that went well, alone and undisturbed. *)
OpenIsClosed ==
    settled = "yes" => \A w \in DOMAIN index : index[w].open => w \in Exists

(* A cleanup that went well, alone and undisturbed, has done its work: the space is
   kept and no record is left open without its container. *)
CleanupSettles == SpaceEnforced /\ OpenIsClosed
=============================================================================
