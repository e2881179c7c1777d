--------------------------- MODULE ArtifactsProofs ---------------------------
(* The inductive invariant of the worker artifacts and the theorems that follow
   from it.  A step is first reduced to what it does to containers, watches, the
   index and the files; each part of the invariant is then proved from that. *)
EXTENDS Artifacts, TLAPS

\* Zenon proves most leaves; a leaf that needs arithmetic or case splits cites SMT.
USE Zenon

Boxes   == {"none", "live", "exited", "removed", "lost"}
Watches == {"off", "open", "stream", "res", "diag", "index", "finalize", "remove"}

Records == [container : BOOLEAN, job : {None}, result : {None}, log : BOOLEAN,
            diag : BOOLEAN, assigned : {0}, started : {0}, completed : {0},
            finalized : Nat, open : BOOLEAN, tomb : Nat]

Catalogs == UNION {[S -> Records] : S \in SUBSET Runners}

IsSweep(s) ==
    s \in [pc : {"off", "adopt", "close", "load", "space", "evict", "orphans", "watch",
                 "purge"},
           op : {"list", "cleanup", "purge"}, adopted : SUBSET Runners,
           todo : SUBSET Runners, seen : Catalogs, at : Nat, total : {s.total},
           protected : {s.protected}, failed : SUBSET Runners, batch : SUBSET Runners,
           err : BOOLEAN]

\* The sweeps of one tick have its time.
SweepType(p) ==
    IsSweep(sweep[p]) /\ (sweep[p].pc \in {"off", "adopt"} \/ sweep[p].at = clock)

\* Every variable has its type; the clock is past the zero time.
TypeInv ==
    /\ box \in [Runners -> Boxes] /\ watch \in [Runners -> Watches]
    /\ bad \in [Runners -> BOOLEAN]
    /\ index \in Catalogs
    /\ named \in SUBSET (Runners \X Kinds)
    /\ file \in [Runners -> [Kinds -> Nat]]
    /\ clock \in Nat \ {0}
    /\ sweep = [p \in Sweepers |-> sweep[p]]
    /\ \A p \in Sweepers : SweepType(p)
    /\ missed \in SUBSET Runners
    /\ settled \in {"no", "sweeping", "yes"}

\* What exists is inside a sweep's inventory, save what started behind it.
InventoryOf(p) ==
    /\ \A w \in DOMAIN sweep[p].seen : box[w] # "none"
    /\ \A w \in sweep[p].adopted : box[w] # "none"
    /\ sweep[p].pc # "off" => Exists \ missed \subseteq sweep[p].adopted

\* What has never started has left nothing.
InventoryInv ==
    /\ \A w \in Runners : watch[w] # "off" => box[w] \in {"live", "exited", "lost"}
    /\ \A w \in DOMAIN index : box[w] # "none"
    /\ \A f \in named : box[f[1]] = "removed"
    /\ \A p \in Sweepers : InventoryOf(p)

\* What a cleanup has chosen is closed and outside the inventory, and what it has
\* dealt with is gone or has failed.
ChosenBy(p) ==
    /\ sweep[p].pc \in {"off", "adopt", "close", "load", "space", "purge"}
         => sweep[p].todo = {} /\ sweep[p].batch = {} /\ sweep[p].failed = {}
    /\ sweep[p].todo \cup sweep[p].batch \subseteq Candidates(p)
    /\ sweep[p].batch \cap sweep[p].todo = {}
    /\ sweep[p].failed \cap (sweep[p].todo \cup sweep[p].batch) = {}

ChosenInv == \A p \in Sweepers : ChosenBy(p)

\* A live record that a sweep has read is still there, tombstoned in this tick at the
\* earliest; that of a worker outside the inventory is as the sweep has read it.
Recent(w) == w \in DOMAIN index /\ index[w].tomb \in {0, clock}

SeenBy(p) ==
    /\ sweep[p].pc \in {"space", "evict"} =>
         \A w \in DOMAIN sweep[p].seen : sweep[p].seen[w].tomb = 0 =>
            /\ Recent(w)
            /\ sweep[p].seen[w].finalized # 0 => index[w].finalized # 0
            /\ w \notin sweep[p].adopted \cup missed /\ box[w] # "lost"
                 => Paths(index[w]) = Paths(sweep[p].seen[w])
    /\ sweep[p].pc = "evict" =>
         \A w \in Candidates(p) \ (sweep[p].todo \cup sweep[p].failed \cup missed) :
            box[w] # "lost" => \A k \in Paths(sweep[p].seen[w]) : file[w][k] = 0

SeenInv == \A p \in Sweepers : SeenBy(p)

\* A tombstone belongs to a container that is gone, and its files are.
TombstoneInv ==
    /\ \A w \in Tombstoned(index) \ missed : w \notin Exists
    /\ TombstoneIsEmpty

\* A container about to be removed has all its evidence.
RemovalInv ==
    \A w \in Exists \ missed : watch[w] = "remove" =>
       /\ \A k \in Kinds : file[w][k] # 0
       /\ LiveRecord(index, w) /\ index[w].finalized # 0

\* A sweep alone has no other beside it, and only such a sweep settles anything.
AloneInv ==
    /\ \A p \in alone : Busy \subseteq {p}
    /\ settled # "no" => Busy \subseteq alone

\* The files a cleanup alone may still count on are at least as many as it has counted.
Loose == {f \in Files : f[1] \notin Exists \ missed}

CountBy(p) ==
    sweep[p].pc = "evict" =>
      /\ sweep[p].total \in Int /\ sweep[p].protected \in Int
      /\ sweep[p].total - sweep[p].protected <= Cardinality(Loose)

CountInv == \A p \in Sweepers \cap alone : CountBy(p)

\* A record with a tombstone was finalised and is closed; an open one has a container.
RecordInv ==
    \A w \in DOMAIN index :
       /\ index[w].tomb # 0 => ~index[w].open /\ index[w].finalized # 0
       /\ index[w].open => index[w].container

\* A sweep that is not disturbed works on the index and the containers as they are.
SettledBy(p) ==
    /\ sweep[p].pc # "off" /\ settled # "no" => sweep[p].adopted = Exists
    /\ sweep[p].pc \in {"close", "space", "evict", "purge"} /\ settled # "no"
         => sweep[p].seen = index
    /\ sweep[p].pc \in {"space", "evict", "orphans"} => sweep[p].op # "purge"
    /\ sweep[p].pc \in {"adopt", "close", "load", "space", "evict", "orphans"}
         /\ sweep[p].op # "purge" => settled # "yes"
    /\ sweep[p].pc \in {"load", "space", "evict", "orphans"} /\ settled # "no" =>
         \A w \in DOMAIN index : index[w].open => w \in Exists

SettledInv == OpenIsClosed /\ \A p \in Sweepers : SettledBy(p)

\* What an undisturbed cleanup has counted, what it left, and what is then left.
Kept(p) == Referenced(p) \ CandidatePaths(p)

Counted == {f \in Files : f[1] \notin Exists /\ ~Unfinished(f[1])}

EvictBy(p) ==
    sweep[p].pc = "evict" /\ settled # "no" /\ ~sweep[p].err =>
      /\ sweep[p].total = Cardinality(Files)
      /\ sweep[p].protected = Cardinality(Files \cap Kept(p))
      /\ sweep[p].total <= Space \/ Files \subseteq Referenced(p)
      /\ \A w \in Candidates(p) \ sweep[p].todo : \A k \in Paths(sweep[p].seen[w]) : file[w][k] = 0

LeftBy(p) ==
    sweep[p].pc = "orphans" /\ settled # "no" /\ ~sweep[p].err => Cardinality(Counted) <= Space

SpaceInv ==
    /\ settled = "yes" => Cardinality(Counted) <= Space
    /\ \A p \in Sweepers : EvictBy(p) /\ LeftBy(p)
-----------------------------------------------------------------------------
(* What the index's upserts do. *)
Patches == [container : {TRUE}, job : {None}, result : {None}, log : BOOLEAN,
            diag : BOOLEAN, assigned : {0}, started : {0}, completed : {0},
            finalized : Nat, open : {"keep", "open", "closed"}, tomb : Nat]

\* A catalogue has records for runners.
LEMMA CatalogType ==
    ASSUME NEW c \in Catalogs
    PROVE  DOMAIN c \subseteq Runners /\ \A w \in DOMAIN c : c[w] \in Records
  BY DEF Catalogs

\* A record that is not yet there starts blank.
LEMMA CurrentType ==
    ASSUME NEW c \in Catalogs, NEW w \in Runners
    PROVE  /\ Current(c, w) \in Records
           /\ w \notin DOMAIN c => Current(c, w) = Blank
           /\ w \in DOMAIN c => Current(c, w) = c[w]
  BY SMT DEF Catalogs, Current, Blank, Records

\* Merging a patch into a live record sets each field by its own rule.
LEMMA MergeFields ==
    ASSUME NEW r \in Records, NEW p \in Patches, r.tomb = 0
    PROVE  /\ Merge(r, p) \in Records
           /\ Merge(r, p).container
           /\ Merge(r, p).log = (r.log \/ p.log)
           /\ Merge(r, p).diag = (r.diag \/ p.diag)
           /\ Merge(r, p).finalized = IF r.finalized = 0 THEN p.finalized ELSE r.finalized
           /\ Merge(r, p).open = (p.tomb = 0 /\ (p.open = "open" \/ (p.open = "keep" /\ r.open)))
           /\ Merge(r, p).tomb = p.tomb
<1>1. /\ r.container \in BOOLEAN /\ r.log \in BOOLEAN /\ r.diag \in BOOLEAN
      /\ r.open \in BOOLEAN /\ r.finalized \in Nat
      /\ r.job = None /\ r.result = None
      /\ r.assigned = 0 /\ r.started = 0 /\ r.completed = 0
  BY SMT DEF Records
<1>2. /\ p.container = TRUE /\ p.log \in BOOLEAN /\ p.diag \in BOOLEAN
      /\ p.finalized \in Nat /\ p.tomb \in Nat
      /\ p.job = None /\ p.result = None
      /\ p.assigned = 0 /\ p.started = 0 /\ p.completed = 0
  BY DEF Patches
<1> DEFINE m ==
        [container |-> r.container \/ p.container, job |-> None, result |-> None,
         log |-> r.log \/ p.log, diag |-> r.diag \/ p.diag,
         assigned |-> 0, started |-> 0, completed |-> 0,
         finalized |-> IF r.finalized = 0 THEN p.finalized ELSE r.finalized,
         open |-> p.tomb = 0 /\ (p.open = "open" \/ (p.open = "keep" /\ r.open)),
         tomb |-> p.tomb]
<1>3. Merge(r, p) = m
  BY <1>1, <1>2 DEF Merge, FirstTime, MergeImmutable
<1>4. m \in Records
  BY SMT, <1>1, <1>2 DEF Records
<1>5. m.container /\ m.log = (r.log \/ p.log) /\ m.diag = (r.diag \/ p.diag)
  BY <1>2
<1>6. m.open = (p.tomb = 0 /\ (p.open = "open" \/ (p.open = "keep" /\ r.open)))
  OBVIOUS
<1>7. /\ m.finalized = IF r.finalized = 0 THEN p.finalized ELSE r.finalized
      /\ m.tomb = p.tomb
  BY SMT
<1> HIDE DEF m
<1> QED BY <1>3, <1>4, <1>5, <1>6, <1>7

\* A tombstoned record takes no patch.
LEMMA MergeTombstone ==
    ASSUME NEW r \in Records, NEW p \in Patches, r.tomb # 0
    PROVE  Merge(r, p) = r
  BY DEF Merge

\* Upserting one patch for the workers of S merges it into their records.
LEMMA Upserted ==
    ASSUME NEW c \in Catalogs, NEW S \in SUBSET Runners, NEW p \in Patches
    PROVE  LET d == UpsertEach(c, [w \in S |-> p])
           IN  /\ d \in Catalogs
               /\ DOMAIN d = DOMAIN c \cup S
               /\ \A w \in S : d[w] = Merge(Current(c, w), p)
               /\ \A w \in DOMAIN c \ S : d[w] = c[w]
<1> DEFINE d == UpsertEach(c, [w \in S |-> p])
<1>1. DOMAIN c \subseteq Runners
  BY DEF Catalogs
<1>2. \A w \in S : Mergeable(Current(c, w), p)
  <2> SUFFICES ASSUME NEW w \in S PROVE Mergeable(Current(c, w), p)
    OBVIOUS
  <2>1. p.job = None /\ p.result = None
    BY SMT DEF Patches
  <2> QED BY <2>1 DEF Mergeable, CompatibleImmutable
<1>3. DOMAIN [w \in S |-> p] = S /\ \A w \in S : [v \in S |-> p][w] = p
  OBVIOUS
<1>4. d = [r \in DOMAIN c \cup S |-> IF r \in S THEN Merge(Current(c, r), p)
                                                ELSE Current(c, r)]
  BY <1>2, <1>3 DEF UpsertEach
<1> HIDE DEF d
<1>5. DOMAIN d = DOMAIN c \cup S
  BY <1>4
<1>6. \A w \in S : d[w] = Merge(Current(c, w), p)
  BY <1>4
<1>7. \A w \in DOMAIN c \ S : d[w] = c[w]
  BY <1>4 DEF Current
<1>8. ASSUME NEW w \in DOMAIN c \cup S PROVE d[w] \in Records
  <2>1. w \in Runners /\ Current(c, w) \in Records
    BY <1>1, CurrentType
  <2>2. Merge(Current(c, w), p) \in Records
    BY <2>1, MergeFields, MergeTombstone
  <2> QED BY <1>4, <2>1, <2>2
<1>9. d \in [DOMAIN c \cup S -> Records]
  BY <1>4, <1>8
<1>10. d \in Catalogs
  BY <1>1, <1>9 DEF Catalogs
<1> QED BY <1>5, <1>6, <1>7, <1>10 DEF d

\* From c to d only records of S have grown; none has got or lost a tombstone.
Grows(c, d, S) ==
    /\ d \in Catalogs
    /\ DOMAIN c \subseteq DOMAIN d /\ DOMAIN d \subseteq DOMAIN c \cup S
    /\ \A w \in DOMAIN c : w \notin S \/ c[w].tomb # 0 => d[w] = c[w]
    /\ \A w \in DOMAIN d : d[w].tomb # 0 => w \in DOMAIN c /\ d[w] = c[w]
    /\ \A w \in DOMAIN c : c[w].finalized # 0 => d[w].finalized # 0
    /\ \A w \in DOMAIN d : d[w].container \/ (w \in DOMAIN c /\ d[w] = c[w])

\* An upsert of a patch without tombstone grows the records.
LEMMA UpsertGrows ==
    ASSUME NEW c \in Catalogs, NEW S \in SUBSET Runners, NEW p \in Patches,
           p.tomb = 0
    PROVE  Grows(c, UpsertEach(c, [w \in S |-> p]), S)
<1> DEFINE d == UpsertEach(c, [w \in S |-> p])
<1>1. /\ d \in Catalogs
      /\ DOMAIN d = DOMAIN c \cup S
      /\ \A w \in S : d[w] = Merge(Current(c, w), p)
      /\ \A w \in DOMAIN c \ S : d[w] = c[w]
  BY Upserted
<1> HIDE DEF d
<1>2. DOMAIN c \subseteq Runners
  BY DEF Catalogs
<1>3. ASSUME NEW w \in DOMAIN c, w \notin S \/ c[w].tomb # 0 PROVE d[w] = c[w]
  BY SMT, <1>1, <1>2, <1>3, CurrentType, MergeTombstone
<1>4. ASSUME NEW w \in S, Current(c, w).tomb = 0
      PROVE  /\ d[w].tomb = 0 /\ d[w].container
             /\ Current(c, w).finalized # 0 => d[w].finalized # 0
  <2>1. Current(c, w) \in Records
    BY CurrentType
  <2> QED BY SMT, <1>1, <1>4, <2>1, MergeFields
<1>5. ASSUME NEW w \in DOMAIN d, d[w].tomb # 0 PROVE w \in DOMAIN c /\ d[w] = c[w]
  <2>1. CASE w \in S
    <3>1. Current(c, w).tomb # 0
      BY <1>4, <1>5, <2>1
    <3>2. w \in DOMAIN c
      BY SMT, <2>1, <3>1, CurrentType DEF Blank
    <3> QED BY SMT, <1>1, <2>1, <3>1, <3>2, CurrentType, MergeTombstone
  <2> QED BY <1>1, <2>1
<1>6. ASSUME NEW w \in DOMAIN c, c[w].finalized # 0 PROVE d[w].finalized # 0
  BY <1>2, <1>3, <1>4, <1>6, CurrentType
<1>7. ASSUME NEW w \in DOMAIN d PROVE d[w].container \/ (w \in DOMAIN c /\ d[w] = c[w])
  <2>1. CASE w \in S /\ Current(c, w).tomb = 0
    BY <1>4, <2>1
  <2>2. CASE w \in S /\ Current(c, w).tomb # 0
    <3>1. w \in DOMAIN c
      BY SMT, <2>2, CurrentType DEF Blank
    <3> QED BY <1>2, <1>3, <2>2, <3>1, CurrentType
  <2> QED BY <1>1, <2>1, <2>2
<1> QED BY <1>1, <1>3, <1>5, <1>6, <1>7 DEF Grows, d

\* An index that is left alone has grown by nothing.
LEMMA StaysGrows ==
    ASSUME NEW c \in Catalogs, NEW S
    PROVE  Grows(c, c, S)
  BY DEF Grows

\* From c to d no record names other files.
SamePaths(c, d) == \A w \in DOMAIN c \cap DOMAIN d : Paths(d[w]) = Paths(c[w])

\* A patch that names no file leaves what a record names.
LEMMA UpsertPaths ==
    ASSUME NEW c \in Catalogs, NEW S \in SUBSET Runners, NEW p \in Patches,
           p.log = FALSE, p.diag = FALSE
    PROVE  SamePaths(c, UpsertEach(c, [w \in S |-> p]))
<1> DEFINE d == UpsertEach(c, [w \in S |-> p])
<1>1. /\ \A w \in S : d[w] = Merge(Current(c, w), p)
      /\ \A w \in DOMAIN c \ S : d[w] = c[w]
  BY Upserted
<1> HIDE DEF d
<1>2. ASSUME NEW w \in DOMAIN c PROVE Paths(d[w]) = Paths(c[w])
  <2>1. c[w] \in Records /\ Current(c, w) = c[w]
    BY CatalogType, CurrentType
  <2>2. c[w].log \in BOOLEAN /\ c[w].diag \in BOOLEAN
    BY <2>1 DEF Records
  <2>3. CASE w \in S /\ c[w].tomb = 0
    <3>1. Merge(c[w], p).log = (c[w].log \/ p.log) /\ Merge(c[w], p).diag = (c[w].diag \/ p.diag)
      BY <2>1, <2>3, MergeFields
    <3>2. d[w].log = c[w].log /\ d[w].diag = c[w].diag
      BY <1>1, <2>1, <2>2, <2>3, <3>1
    <3> QED BY <3>2 DEF Paths
  <2>4. CASE w \in S /\ c[w].tomb # 0
    BY <1>1, <2>1, <2>4, MergeTombstone
  <2> QED BY <1>1, <2>3, <2>4
<1> QED BY <1>2 DEF SamePaths, d

\* The index write of a watch grows the record of its worker.
LEMMA IndexedGrows ==
    ASSUME index \in Catalogs, NEW w \in Runners, NEW p,
           [p EXCEPT !.container = TRUE] \in Patches,
           [p EXCEPT !.container = TRUE].tomb = 0, Indexed(w, p)
    PROVE  Grows(index, index', {w})
<1>1. {w} \in SUBSET Runners
  OBVIOUS
<1> QED BY <1>1, UpsertGrows DEF Indexed
-----------------------------------------------------------------------------
(* What the steps of a watch do. *)
WatchEffect(w) ==
    /\ watch[w] # "off"
    /\ box' \in [Runners -> Boxes] /\ watch' \in [Runners -> Watches]
    /\ bad' \in [Runners -> BOOLEAN] /\ file' \in [Runners -> [Kinds -> Nat]]
    /\ \A v \in Runners \ {w} : box'[v] = box[v] /\ watch'[v] = watch[v] /\ file'[v] = file[v]
    /\ \/ box'[w] = box[w]
       \/ /\ watch[w] = "remove" /\ watch'[w] = "off"
          /\ box[w] = "exited" /\ box'[w] = "removed"
    /\ \A k \in Kinds : file'[w][k] \in {file[w][k], clock}
    /\ Grows(index, index', {w})
    /\ watch'[w] = "remove" =>
         /\ \A k \in Kinds : file'[w][k] # 0
         /\ LiveRecord(index', w) /\ index'[w].finalized # 0
    /\ settled' = "no"
    /\ UNCHANGED <<named, clock, sweep, alone, missed>>

\* A step of the watch that only moves it on and may publish one file.
LEMMA PublishingStep ==
    ASSUME TypeInv, NEW w \in Runners, NEW from, NEW to \in Watches \ {"remove"},
           from # "off", Step(w, from, to), bad' \in [Runners -> BOOLEAN],
           NEW k \in Kinds, UNCHANGED file \/ Publish(w, k),
           Grows(index, index', {w}), UNCHANGED box, WatchFrame
    PROVE  WatchEffect(w)
<1>1. /\ watch' \in [Runners -> Watches] /\ watch'[w] = to
      /\ \A v \in Runners \ {w} : watch'[v] = watch[v]
  BY SMT DEF TypeInv, Step
<1>2. /\ file' \in [Runners -> [Kinds -> Nat]]
      /\ \A v \in Runners \ {w} : file'[v] = file[v]
      /\ \A j \in Kinds : file'[w][j] \in {file[w][j], clock}
  <2>1. CASE UNCHANGED file
    BY <2>1 DEF TypeInv
  <2>2. CASE Publish(w, k)
    BY SMT, <2>2 DEF TypeInv, Publish
  <2> QED BY <2>1, <2>2
<1> QED BY <1>1, <1>2 DEF WatchEffect, TypeInv, WatchFrame, Step

\* The patches before they name the container.
BarePatches == [container : BOOLEAN, job : {None}, result : {None}, log : BOOLEAN,
                diag : BOOLEAN, assigned : {0}, started : {0}, completed : {0},
                finalized : Nat, open : {"keep", "open", "closed"}, tomb : Nat]

\* Naming the container makes a patch of a bare one.
LEMMA ContainerPatch ==
    ASSUME NEW p \in BarePatches
    PROVE  /\ [p EXCEPT !.container = TRUE] \in Patches
           /\ [p EXCEPT !.container = TRUE].tomb = p.tomb
           /\ [p EXCEPT !.container = TRUE].finalized = p.finalized
  BY DEF BarePatches, Patches

\* The patch that changes nothing is a bare one.
LEMMA EmptyPatch == Patch \in BarePatches /\ Patch.tomb = 0
  BY DEF BarePatches, Patch

\* The patches the watch writes.
LEMMA WatchPatches ==
    ASSUME TypeInv
    PROVE  /\ [[Patch EXCEPT !.log = TRUE, !.open = "open"] EXCEPT !.container = TRUE]
                \in {p \in Patches : p.tomb = 0}
           /\ [[Patch EXCEPT !.diag = TRUE] EXCEPT !.container = TRUE]
                \in {p \in Patches : p.tomb = 0}
           /\ [[Patch EXCEPT !.finalized = clock, !.open = "closed"] EXCEPT !.container = TRUE]
                \in {p \in Patches : p.tomb = 0 /\ p.finalized = clock}
<1>1. /\ [Patch EXCEPT !.log = TRUE, !.open = "open"] \in BarePatches
      /\ [Patch EXCEPT !.log = TRUE, !.open = "open"].tomb = 0
  BY EmptyPatch DEF BarePatches
<1>2. [Patch EXCEPT !.diag = TRUE] \in BarePatches /\ [Patch EXCEPT !.diag = TRUE].tomb = 0
  BY EmptyPatch DEF BarePatches
<1>3. clock \in Nat
  BY DEF TypeInv
<1>4. /\ [Patch EXCEPT !.finalized = clock, !.open = "closed"] \in BarePatches
      /\ [Patch EXCEPT !.finalized = clock, !.open = "closed"].tomb = 0
      /\ [Patch EXCEPT !.finalized = clock, !.open = "closed"].finalized = clock
  BY <1>3, EmptyPatch DEF BarePatches
<1> QED BY <1>1, <1>2, <1>4, ContainerPatch

\* An error of the watch is noted in a Boolean.
LEMMA BadType ==
    ASSUME TypeInv, NEW w \in Runners,
           Fine \/ Broken(w) \/ bad' = [bad EXCEPT ![w] = TRUE] \/ EndWatch(w)
    PROVE  bad' \in [Runners -> BOOLEAN]
  BY DEF TypeInv, Fine, Broken, EndWatch

\* OpenLog to IndexDiagnostics.
LEMMA SavingEffect ==
    ASSUME TypeInv, NEW w \in Runners,
           \/ OpenLog(w) \/ CloseLog(w) \/ WriteResourceEvidence(w)
           \/ WriteDiagnostics(w) \/ IndexDiagnostics(w)
    PROVE  WatchEffect(w)
<1>0. index \in Catalogs /\ Grows(index, index, {w})
  BY StaysGrows DEF TypeInv
<1>1. {"stream", "res", "diag", "index", "finalize"} \subseteq Watches \ {"remove"}
  BY DEF Watches
<1>2. Kinds = {"log", "diag", "res"}
  BY DEF Kinds
<1>3. CASE OpenLog(w)
  <2>1. Grows(index, index', {w})
    BY <1>0, <1>3, IndexedGrows, WatchPatches DEF OpenLog
  <2>2. bad' \in [Runners -> BOOLEAN]
    BY <1>3, BadType DEF OpenLog
  <2>3. Step(w, "open", "stream") /\ UNCHANGED box /\ UNCHANGED file /\ WatchFrame
    BY <1>3 DEF OpenLog
  <2> QED BY <1>1, <1>2, <2>1, <2>2, <2>3, PublishingStep
<1>4. CASE CloseLog(w)
  <2>1. Grows(index, index', {w})
    BY <1>0, <1>4 DEF CloseLog
  <2>2. bad' \in [Runners -> BOOLEAN]
    BY <1>4, BadType DEF CloseLog
  <2>3. Step(w, "stream", "res") /\ UNCHANGED box /\ WatchFrame
    BY <1>4 DEF CloseLog
  <2>4. UNCHANGED file \/ Publish(w, "log")
    BY <1>4 DEF CloseLog
  <2> QED BY <1>1, <1>2, <2>1, <2>2, <2>3, <2>4, PublishingStep
<1>5. CASE WriteResourceEvidence(w)
  <2>1. Grows(index, index', {w})
    BY <1>0, <1>5 DEF WriteResourceEvidence
  <2>2. bad' \in [Runners -> BOOLEAN]
    BY <1>5, BadType DEF WriteResourceEvidence
  <2>3. Step(w, "res", "diag") /\ UNCHANGED box /\ WatchFrame
    BY <1>5 DEF WriteResourceEvidence
  <2>4. UNCHANGED file \/ Publish(w, "res")
    BY <1>5 DEF WriteResourceEvidence
  <2> QED BY <1>1, <1>2, <2>1, <2>2, <2>3, <2>4, PublishingStep
<1>6. CASE WriteDiagnostics(w)
  <2>1. Grows(index, index', {w})
    BY <1>0, <1>6 DEF WriteDiagnostics
  <2>2. bad' \in [Runners -> BOOLEAN]
    BY <1>6, BadType DEF WriteDiagnostics
  <2>3. UNCHANGED box /\ WatchFrame
    BY <1>6 DEF WriteDiagnostics
  <2>4. UNCHANGED file \/ Publish(w, "diag")
    BY <1>6 DEF WriteDiagnostics
  <2>5. Step(w, "diag", "index") \/ Step(w, "diag", "finalize")
    BY <1>6 DEF WriteDiagnostics
  <2> QED BY <1>1, <1>2, <2>1, <2>2, <2>3, <2>4, <2>5, PublishingStep
<1>7. CASE IndexDiagnostics(w)
  <2>1. Grows(index, index', {w})
    BY <1>0, <1>7, IndexedGrows, WatchPatches DEF IndexDiagnostics
  <2>2. bad' \in [Runners -> BOOLEAN]
    BY <1>7, BadType DEF IndexDiagnostics
  <2>3. Step(w, "index", "finalize") /\ UNCHANGED box /\ UNCHANGED file /\ WatchFrame
    BY <1>7 DEF IndexDiagnostics
  <2> QED BY <1>1, <1>2, <2>1, <2>2, <2>3, PublishingStep
<1> QED BY <1>3, <1>4, <1>5, <1>6, <1>7

\* A watch that ends leaves the files and writes at most the index.
LEMMA EndingStep ==
    ASSUME TypeInv, NEW w \in Runners, watch[w] # "off", EndWatch(w),
           NEW k \in Kinds, UNCHANGED file \/ Publish(w, k),
           Grows(index, index', {w}), WatchFrame,
           \/ UNCHANGED box
           \/ /\ watch[w] = "remove"
              /\ box' = [box EXCEPT ![w] = IF @ = "exited" THEN "removed" ELSE @]
    PROVE  WatchEffect(w)
<1>1. /\ watch' \in [Runners -> Watches] /\ watch'[w] = "off"
      /\ \A v \in Runners \ {w} : watch'[v] = watch[v]
  BY SMT DEF TypeInv, EndWatch, Watches
<1>2. /\ file' \in [Runners -> [Kinds -> Nat]]
      /\ \A v \in Runners \ {w} : file'[v] = file[v]
      /\ \A j \in Kinds : file'[w][j] \in {file[w][j], clock}
  <2>1. CASE UNCHANGED file
    BY <2>1 DEF TypeInv
  <2>2. CASE Publish(w, k)
    BY SMT, <2>2 DEF TypeInv, Publish
  <2> QED BY <2>1, <2>2
<1>3. /\ box' \in [Runners -> Boxes]
      /\ \A v \in Runners \ {w} : box'[v] = box[v]
      /\ \/ box'[w] = box[w]
         \/ watch[w] = "remove" /\ box[w] = "exited" /\ box'[w] = "removed"
  BY SMT DEF TypeInv, Boxes
<1>4. bad' \in [Runners -> BOOLEAN]
  BY BadType
<1> QED BY <1>1, <1>2, <1>3, <1>4 DEF WatchEffect, WatchFrame

\* The record that Finalize closes is live and has its time.
LEMMA FinalizedRecord ==
    ASSUME TypeInv, NEW w \in Runners, LiveRecord(index, w),
           Indexed(w, [Patch EXCEPT !.finalized = clock, !.open = "closed"])
    PROVE  LiveRecord(index', w) /\ index'[w].finalized # 0
<1> DEFINE p == [[Patch EXCEPT !.finalized = clock, !.open = "closed"] EXCEPT !.container = TRUE]
<1>1. p \in Patches /\ p.tomb = 0 /\ p.finalized = clock
  BY WatchPatches
<1> DEFINE only == {w}
           d    == UpsertEach(index, [v \in only |-> p])
<1>2. index' = d
  BY DEF Indexed
<1>3. index \in Catalogs /\ only \in SUBSET Runners /\ w \in only /\ clock # 0
  BY DEF TypeInv
<1> HIDE DEF p, only
<1>4. w \in DOMAIN d /\ d[w] = Merge(Current(index, w), p)
  <2>1. /\ DOMAIN d = DOMAIN index \cup only
        /\ \A v \in only : d[v] = Merge(Current(index, v), p)
    BY <1>1, <1>3, Upserted
  <2> HIDE DEF d
  <2> QED BY <1>3, <2>1
<1>5. Current(index, w) \in Records /\ Current(index, w).tomb = 0
  BY <1>3, CurrentType DEF LiveRecord
<1> HIDE DEF d
<1> QED BY SMT, <1>1, <1>2, <1>3, <1>4, <1>5, MergeFields DEF LiveRecord

\* Finalize, ContainerRemove and WatchLost.
LEMMA ClosingEffect ==
    ASSUME TypeInv, NEW w \in Runners, Finalize(w) \/ ContainerRemove(w) \/ WatchLost(w)
    PROVE  WatchEffect(w)
<1>0. index \in Catalogs /\ Grows(index, index, {w})
  BY StaysGrows DEF TypeInv
<1>1. "log" \in Kinds
  BY DEF Kinds
<1>2. CASE Finalize(w)
  <2>1. Grows(index, index', {w})
    BY <1>0, <1>2, IndexedGrows, WatchPatches DEF Finalize
  <2>2. CASE /\ CompleteSet(w) /\ Step(w, "finalize", "remove") /\ Fine
             /\ Indexed(w, [Patch EXCEPT !.finalized = clock, !.open = "closed"])
    <3>1. /\ watch' \in [Runners -> Watches] /\ watch'[w] = "remove" /\ watch[w] # "off"
          /\ \A v \in Runners \ {w} : watch'[v] = watch[v]
      BY SMT, <2>2 DEF TypeInv, Step, Watches
    <3>2. LiveRecord(index', w) /\ index'[w].finalized # 0
      BY <2>2, FinalizedRecord DEF CompleteSet
    <3>3. \A k \in Kinds : file'[w][k] # 0
      BY <1>2, <2>2 DEF CompleteSet, Finalize
    <3>4. bad' \in [Runners -> BOOLEAN]
      BY <2>2, BadType
    <3>5. UNCHANGED box /\ UNCHANGED file /\ WatchFrame
      BY <1>2 DEF Finalize
    <3> QED BY <2>1, <3>1, <3>2, <3>3, <3>4, <3>5 DEF WatchEffect, TypeInv, WatchFrame
  <2>3. CASE EndWatch(w)
    <3>1. watch[w] # "off" /\ UNCHANGED box /\ UNCHANGED file /\ WatchFrame
      BY <1>2 DEF Finalize
    <3> QED BY <1>1, <2>1, <2>3, <3>1, EndingStep
  <2> QED BY <1>2, <2>2, <2>3 DEF Finalize
<1>3. CASE ContainerRemove(w)
  <2>1. /\ watch[w] = "remove" /\ EndWatch(w) /\ WatchFrame
        /\ UNCHANGED index /\ UNCHANGED file
        /\ \/ UNCHANGED box
           \/ box' = [box EXCEPT ![w] = IF @ = "exited" THEN "removed" ELSE @]
    BY <1>3 DEF ContainerRemove
  <2> QED BY <1>0, <1>1, <2>1, EndingStep
<1>4. CASE WatchLost(w)
  <2>1. /\ watch[w] # "off" /\ EndWatch(w) /\ WatchFrame
        /\ UNCHANGED index /\ (UNCHANGED file \/ Publish(w, "log")) /\ UNCHANGED box
    BY <1>4 DEF WatchLost
  <2> QED BY <1>0, <1>1, <2>1, EndingStep
<1> QED BY <1>2, <1>3, <1>4

\* Every step of a watch.
LEMMA WatchSteps ==
    ASSUME TypeInv, NEW w \in Runners, Watch(w)
    PROVE  WatchEffect(w)
  BY SavingEffect, ClosingEffect DEF Watch
-----------------------------------------------------------------------------
(* What the steps of a sweep do. *)
\* A file that is not deleted keeps its time.
LEMMA WithoutFiles ==
    ASSUME TypeInv, NEW gone, file' = Without(gone)
    PROVE  /\ file' \in [Runners -> [Kinds -> Nat]]
           /\ \A w \in Runners, k \in Kinds :
                file'[w][k] = IF <<w, k>> \in gone THEN 0 ELSE file[w][k]
           /\ Files' = Files \ gone
<1>1. \A w \in Runners, k \in Kinds : file[w][k] \in Nat
  BY DEF TypeInv
<1>2. file' \in [Runners -> [Kinds -> Nat]]
  BY SMT, <1>1 DEF Without
<1>3. \A w \in Runners, k \in Kinds :
        file'[w][k] = IF <<w, k>> \in gone THEN 0 ELSE file[w][k]
  BY SMT DEF Without
<1>4. Files' = Files \ gone
  <2> SUFFICES ASSUME NEW f \in Runners \X Kinds
               PROVE  file'[f[1]][f[2]] # 0 <=> file[f[1]][f[2]] # 0 /\ f \notin gone
    BY SMT DEF Files
  <2>1. f = <<f[1], f[2]>> /\ f[1] \in Runners /\ f[2] \in Kinds
    BY SMT
  <2> QED BY SMT, <1>3, <2>1
<1> QED BY <1>2, <1>3, <1>4

\* The empty catalogue, and a sweep that is not there.
LEMMA NoSweepType ==
    /\ IsSweep(NoSweep) /\ NoSweep.pc = "off" /\ NoSweep.op = "list"
    /\ NoSweep.adopted = {} /\ NoSweep.todo = {} /\ NoSweep.batch = {}
    /\ NoSweep.failed = {} /\ DOMAIN NoSweep.seen = {}
<1>1. <<>> \in [{} -> Records] /\ DOMAIN <<>> = {}
  BY SMT
<1>2. <<>> \in Catalogs
  BY <1>1 DEF Catalogs
<1>3. 0 \in Nat /\ 0 \in Int
  BY SMT
<1>4. IsSweep(NoSweep)
  BY <1>2, <1>3 DEF NoSweep, IsSweep
<1> QED BY <1>1, <1>4 DEF NoSweep

\* The fields of a sweep.
LEMMA SweepFields ==
    ASSUME TypeInv, NEW p \in Sweepers
    PROVE  /\ IsSweep(sweep[p])
           /\ sweep[p].adopted \subseteq Runners /\ sweep[p].todo \subseteq Runners
           /\ sweep[p].failed \subseteq Runners /\ sweep[p].batch \subseteq Runners
           /\ sweep[p].seen \in Catalogs /\ sweep[p].at \in Nat
           /\ sweep[p].err \in BOOLEAN
<1>1. IsSweep(sweep[p])
  BY DEF TypeInv, SweepType
<1> QED BY <1>1 DEF IsSweep

\* A step of one sweeper leaves the sweeps of the others alone.
Only(p) ==
    /\ sweep' = [q \in Sweepers |-> sweep'[q]]
    /\ \A q \in Sweepers \ {p} : sweep'[q] = sweep[q]

\* What is written for one sweeper is its sweep, and no other.
LEMMA SetsOne ==
    ASSUME TypeInv, NEW p \in Sweepers, NEW s, Sets(p, s)
    PROVE  sweep'[p] = s /\ Only(p)
<1>1. sweep = [q \in Sweepers |-> sweep[q]]
  BY DEF TypeInv
<1>2. sweep' = [q \in Sweepers |-> IF q = p THEN s ELSE sweep[q]]
  BY <1>1 DEF Sets
<1> QED BY <1>2 DEF Only

\* The patches a sweep writes.
LEMMA SweepPatches ==
    ASSUME TypeInv, NEW p \in Sweepers
    PROVE  /\ Adoption \in Patches /\ Adoption.tomb = 0
           /\ Adoption.open = "open" /\ Adoption.log = FALSE /\ Adoption.diag = FALSE
           /\ Closing(p).log = FALSE /\ Closing(p).diag = FALSE
           /\ Closing(p) \in Patches /\ Closing(p).tomb = 0 /\ Closing(p).finalized = sweep[p].at
           /\ Closing(p).open = "closed"
           /\ [Patch EXCEPT !.container = TRUE, !.tomb = sweep[p].at] \in Patches
           /\ [Patch EXCEPT !.container = TRUE, !.tomb = sweep[p].at].tomb = sweep[p].at
<1>1. sweep[p].at \in Nat
  BY SweepFields
<1>2. /\ Adoption \in Patches /\ Adoption.tomb = 0 /\ Adoption.open = "open"
  BY EmptyPatch DEF Adoption, BarePatches, Patches
<1>3. /\ Closing(p) \in Patches /\ Closing(p).tomb = 0 /\ Closing(p).finalized = sweep[p].at
      /\ Closing(p).open = "closed"
  BY <1>1, EmptyPatch DEF Closing, BarePatches, Patches
<1>4. /\ [Patch EXCEPT !.container = TRUE, !.tomb = sweep[p].at] \in Patches
      /\ [Patch EXCEPT !.container = TRUE, !.tomb = sweep[p].at].tomb = sweep[p].at
  BY <1>1, EmptyPatch DEF BarePatches, Patches
<1>5. /\ Adoption.log = FALSE /\ Adoption.diag = FALSE
      /\ Closing(p).log = FALSE /\ Closing(p).diag = FALSE
  BY DEF Adoption, Closing, Patch
<1> QED BY <1>2, <1>3, <1>4, <1>5

\* Begin takes the inventory.
LEMMA BeginEffect ==
    ASSUME TypeInv, NEW p \in Sweepers, NEW op \in {"list", "cleanup", "purge"}, Begin(p, op)
    PROVE  /\ sweep[p].pc = "off" /\ IsSweep(sweep'[p]) /\ Only(p)
           /\ sweep'[p].pc = "adopt" /\ sweep'[p].op = op /\ sweep'[p].adopted = Exists
           /\ sweep'[p].todo = {} /\ sweep'[p].batch = {} /\ sweep'[p].failed = {}
           /\ DOMAIN sweep'[p].seen = {}
           /\ Busy = {} => alone' = {p}
                           /\ settled' = IF op = "purge" THEN settled ELSE "sweeping"
           /\ Busy # {} => alone' = {} /\ settled' = "no"
           /\ UNCHANGED <<box, watch, bad, index, named, file, clock, missed>>
<1>1. Exists \in SUBSET Runners
  BY DEF Exists
<1>2. sweep'[p] = [NoSweep EXCEPT !.pc = "adopt", !.op = op, !.adopted = Exists] /\ Only(p)
  BY SetsOne DEF Begin
<1>3. /\ IsSweep(sweep'[p]) /\ sweep'[p].pc = "adopt" /\ sweep'[p].op = op
      /\ sweep'[p].adopted = Exists
  BY <1>1, <1>2, NoSweepType DEF IsSweep
<1>4. /\ sweep'[p].todo = NoSweep.todo /\ sweep'[p].batch = NoSweep.batch
      /\ sweep'[p].failed = NoSweep.failed /\ sweep'[p].seen = NoSweep.seen
  BY <1>2, NoSweepType DEF IsSweep
<1>5. /\ Busy = {} => alone' = {p}
                      /\ settled' = IF op = "purge" THEN settled ELSE "sweeping"
      /\ Busy # {} => alone' = {} /\ settled' = "no"
  BY SMT DEF Begin
<1>6. sweep[p].pc = "off" /\ UNCHANGED <<box, watch, bad, index, named, file, clock, missed>>
  BY DEF Begin, Busy
<1> QED BY <1>2, <1>3, <1>4, <1>5, <1>6, NoSweepType

\* Adopt opens records of the inventory and, if all are open, loads the index.
LEMMA AdoptEffect ==
    ASSUME TypeInv, NEW p \in Sweepers, Adopt(p)
    PROVE  /\ sweep[p].pc = "adopt" /\ IsSweep(sweep'[p]) /\ Only(p)
           /\ Grows(index, index', sweep[p].adopted) /\ SamePaths(index, index')
           /\ \/ sweep'[p] = NoSweep
              \/ /\ sweep'[p].pc = "close" /\ sweep'[p].op = sweep[p].op /\ sweep'[p].seen = index'
                 /\ sweep'[p].adopted = sweep[p].adopted /\ sweep'[p].todo = sweep[p].todo
                 /\ sweep'[p].batch = sweep[p].batch /\ sweep'[p].failed = sweep[p].failed
                 /\ sweep'[p].at = clock
           /\ UNCHANGED <<box, watch, bad, named, file, clock, alone, missed, settled>>
<1>0. PICK done \in SUBSET sweep[p].adopted :
        /\ index' = UpsertEach(index, [w \in done |-> Adoption])
        /\ \/ Sets(p, NoSweep)
           \/ Sets(p, [sweep[p] EXCEPT !.pc = "close", !.at = clock, !.seen = index'])
  BY DEF Adopt, Fails
<1>1. /\ index' = UpsertEach(index, [w \in done |-> Adoption])
      /\ \/ sweep'[p] = NoSweep
         \/ sweep'[p] = [sweep[p] EXCEPT !.pc = "close", !.at = clock, !.seen = index']
      /\ Only(p)
  BY <1>0, SetsOne
<1>2. done \in SUBSET Runners /\ index \in Catalogs /\ clock \in Nat /\ IsSweep(sweep[p])
  BY SweepFields DEF TypeInv
<1>3. Grows(index, index', done)
  BY <1>1, <1>2, SweepPatches, UpsertGrows
<1>4. /\ Grows(index, index', sweep[p].adopted) /\ index' \in Catalogs
      /\ SamePaths(index, index')
  BY <1>1, <1>2, <1>3, SweepPatches, UpsertPaths DEF Grows
<1>5. CASE sweep'[p] = [sweep[p] EXCEPT !.pc = "close", !.at = clock, !.seen = index']
  <2>1. IsSweep(sweep'[p])
    BY <1>2, <1>4, <1>5 DEF IsSweep
  <2>2. /\ sweep'[p].pc = "close" /\ sweep'[p].op = sweep[p].op /\ sweep'[p].seen = index'
        /\ sweep'[p].adopted = sweep[p].adopted /\ sweep'[p].todo = sweep[p].todo
        /\ sweep'[p].batch = sweep[p].batch /\ sweep'[p].failed = sweep[p].failed
        /\ sweep'[p].at = clock
    BY <1>2, <1>5 DEF IsSweep
  <2> QED BY <1>1, <1>4, <2>1, <2>2 DEF Adopt, SweepFrame
<1> QED BY <1>1, <1>4, <1>5, NoSweepType DEF Adopt, SweepFrame

\* What every later step of a sweep keeps of it.
SameSweep(p) ==
    /\ IsSweep(sweep'[p]) /\ sweep'[p].op = sweep[p].op /\ sweep'[p].at = sweep[p].at
    /\ sweep'[p].adopted = sweep[p].adopted

\* CloseStale closes stale records.
LEMMA CloseStaleEffect ==
    ASSUME TypeInv, NEW p \in Sweepers, CloseStale(p)
    PROVE  /\ sweep[p].pc = "close" /\ IsSweep(sweep'[p]) /\ Only(p)
           /\ Grows(index, index', Stale(p)) /\ SamePaths(index, index')
           /\ \A w \in DOMAIN index' : index'[w].open => w \in DOMAIN index /\ index[w].open
           /\ \/ sweep'[p] = NoSweep
              \/ /\ SameSweep(p) /\ sweep'[p].pc \in {"watch", "load"}
                 /\ sweep'[p].seen = sweep[p].seen /\ sweep'[p].todo = sweep[p].todo
                 /\ sweep'[p].batch = sweep[p].batch /\ sweep'[p].failed = sweep[p].failed
                 /\ \A w \in Stale(p) : index'[w].tomb = 0 => ~index'[w].open
           /\ UNCHANGED <<box, watch, bad, named, file, clock, alone, missed, settled>>
<1>0. PICK done \in SUBSET Stale(p) :
        /\ index' = UpsertEach(index, [w \in done |-> Closing(p)])
        /\ IF done # Stale(p) THEN Sets(p, NoSweep)
           ELSE Sets(p, [sweep[p] EXCEPT
                           !.pc = IF sweep[p].op = "list" /\ ~Due(p) THEN "watch" ELSE "load"])
  BY DEF CloseStale, Fails, To
<1>1. /\ index' = UpsertEach(index, [w \in done |-> Closing(p)])
      /\ IF done # Stale(p) THEN sweep'[p] = NoSweep
         ELSE sweep'[p] = [sweep[p] EXCEPT
                           !.pc = IF sweep[p].op = "list" /\ ~Due(p) THEN "watch" ELSE "load"]
      /\ Only(p)
  BY <1>0, SetsOne
<1>2. done \in SUBSET Runners /\ index \in Catalogs /\ IsSweep(sweep[p])
  BY SweepFields, CatalogType DEF TypeInv, Stale
<1>3. Grows(index, index', done)
  BY <1>1, <1>2, SweepPatches, UpsertGrows
<1>4. /\ Grows(index, index', Stale(p)) /\ index' \in Catalogs
      /\ SamePaths(index, index')
  BY <1>1, <1>2, <1>3, SweepPatches, UpsertPaths DEF Grows
<1>5. ASSUME NEW w \in done, index'[w].tomb = 0 PROVE ~index'[w].open
  <2> DEFINE d == UpsertEach(index, [v \in done |-> Closing(p)])
  <2>1. Closing(p) \in Patches /\ index' = d
    BY <1>1, SweepPatches
  <2>2. \A v \in done : d[v] = Merge(Current(index, v), Closing(p))
    BY <1>2, <2>1, Upserted
  <2> HIDE DEF d
  <2>3. w \in Runners /\ Current(index, w) \in Records
    BY <1>1, <1>2, CurrentType
  <2>4. Current(index, w).tomb = 0
    BY <1>5, <2>1, <2>2, <2>3, MergeTombstone, SweepPatches
  <2> DEFINE r == Current(index, w)
  <2>5. r \in Records /\ r.tomb = 0 /\ index'[w] = Merge(r, Closing(p))
    BY <2>1, <2>2, <2>3, <2>4
  <2> HIDE DEF r
  <2>6. Merge(r, Closing(p)).open =
          (Closing(p).tomb = 0 /\ (Closing(p).open = "open" \/ (Closing(p).open = "keep" /\ r.open)))
    BY <2>1, <2>5, MergeFields
  <2> QED BY <2>5, <2>6, SweepPatches
<1>6. ASSUME NEW w \in DOMAIN index', index'[w].open PROVE w \in DOMAIN index /\ index[w].open
  <2>1. CASE w \in done
    BY <1>3, <1>5, <1>6, <2>1 DEF Grows
  <2>2. CASE w \notin done
    BY <1>3, <1>6, <2>2 DEF Grows
  <2> QED BY <2>1, <2>2
<1>7. CASE done = Stale(p)
  <2> DEFINE pc == IF sweep[p].op = "list" /\ ~Due(p) THEN "watch" ELSE "load"
  <2>1. pc \in {"watch", "load"}
    BY SMT
  <2>2. sweep'[p] = [sweep[p] EXCEPT !.pc = pc]
    BY <1>1, <1>7
  <2> HIDE DEF pc
  <2>3. IsSweep(sweep'[p])
    BY <1>2, <2>1, <2>2 DEF IsSweep
  <2>4. /\ sweep'[p].pc = pc /\ sweep'[p].op = sweep[p].op /\ sweep'[p].seen = sweep[p].seen
        /\ sweep'[p].at = sweep[p].at
        /\ sweep'[p].adopted = sweep[p].adopted /\ sweep'[p].todo = sweep[p].todo
        /\ sweep'[p].batch = sweep[p].batch /\ sweep'[p].failed = sweep[p].failed
    BY <1>2, <2>2 DEF IsSweep
  <2> QED BY <1>1, <1>4, <1>5, <1>6, <1>7, <2>1, <2>3, <2>4
          DEF CloseStale, SweepFrame, SameSweep
<1> QED BY <1>1, <1>4, <1>6, <1>7, NoSweepType DEF CloseStale, SweepFrame

\* Load reads the index again.
LEMMA LoadEffect ==
    ASSUME TypeInv, NEW p \in Sweepers, Load(p)
    PROVE  /\ sweep[p].pc = "load" /\ IsSweep(sweep'[p]) /\ Only(p)
           /\ \/ sweep'[p] = NoSweep
              \/ /\ SameSweep(p) /\ sweep'[p].pc \in {"purge", "space"}
                 /\ sweep'[p].pc = "purge" <=> sweep[p].op = "purge"
                 /\ sweep'[p].seen = index /\ sweep'[p].todo = sweep[p].todo
                 /\ sweep'[p].batch = sweep[p].batch /\ sweep'[p].failed = sweep[p].failed
           /\ UNCHANGED <<box, watch, bad, index, named, file, clock, alone, missed, settled>>
<1> DEFINE pc == IF sweep[p].op = "purge" THEN "purge" ELSE "space"
<1>1. pc \in {"purge", "space"} /\ (pc = "purge" <=> sweep[p].op = "purge")
  BY SMT
<1>2. Sets(p, NoSweep) \/ Sets(p, [sweep[p] EXCEPT !.seen = index, !.pc = pc])
  BY DEF Load, Fails
<1> HIDE DEF pc
<1>3. /\ sweep'[p] = NoSweep \/ sweep'[p] = [sweep[p] EXCEPT !.seen = index, !.pc = pc]
      /\ Only(p)
  BY <1>2, SetsOne
<1>4. IsSweep(sweep[p]) /\ index \in Catalogs
  BY SweepFields DEF TypeInv
<1>5. CASE sweep'[p] = [sweep[p] EXCEPT !.seen = index, !.pc = pc]
  <2>1. IsSweep(sweep'[p])
    BY <1>1, <1>4, <1>5 DEF IsSweep
  <2>2. /\ sweep'[p].pc = pc /\ sweep'[p].op = sweep[p].op /\ sweep'[p].seen = index
        /\ sweep'[p].at = sweep[p].at
        /\ sweep'[p].adopted = sweep[p].adopted /\ sweep'[p].todo = sweep[p].todo
        /\ sweep'[p].batch = sweep[p].batch /\ sweep'[p].failed = sweep[p].failed
    BY <1>4, <1>5 DEF IsSweep
  <2> QED BY <1>1, <1>3, <2>1, <2>2 DEF Load, SweepFrame, SameSweep
<1> QED BY <1>3, <1>5, NoSweepType DEF Load, SweepFrame

\* SweepUnreferenced deletes files outside the inventory's and the index's, and
\* counts what is left.
LEMMA UnreferencedEffect ==
    ASSUME TypeInv, NEW p \in Sweepers, SweepUnreferenced(p)
    PROVE  /\ sweep[p].pc = "space" /\ SameSweep(p) /\ Only(p) /\ sweep'[p].pc = "evict"
           /\ sweep'[p].seen = sweep[p].seen /\ sweep'[p].todo = Candidates(p)
           /\ sweep'[p].batch = sweep[p].batch /\ sweep'[p].failed = sweep[p].failed
           /\ \E stuck \in SUBSET (Files \ Referenced(p)), gone \in SUBSET (Files \ Referenced(p)) :
                /\ file' = Without(gone)
                /\ sweep'[p].total = Cardinality(Files \ gone)
                /\ sweep'[p].protected = Cardinality(Protected(p, Files \ gone, stuck))
                /\ ~sweep'[p].err => /\ stuck = {}
                                  /\ \/ gone = Files \ Referenced(p)
                                     \/ Cardinality(Files \ gone) <= Space
           /\ UNCHANGED <<box, watch, bad, index, named, clock, alone, missed, settled>>
<1>1. PICK unread \in BOOLEAN, stuck \in SUBSET (Files \ Referenced(p)) :
        \E gone \in SUBSET (Files \ (Referenced(p) \cup stuck)) :
              /\ unread \/ Swept(p, gone, stuck)
              /\ file' = Without(gone)
              /\ Sets(p, [sweep[p] EXCEPT !.pc = "evict", !.todo = Candidates(p),
                    !.total = Cardinality(Files \ gone),
                    !.protected = Cardinality(Protected(p, Files \ gone, stuck)),
                    !.err = unread \/ stuck # {}])
  BY DEF SweepUnreferenced
<1>2. PICK gone \in SUBSET (Files \ (Referenced(p) \cup stuck)) :
              /\ unread \/ Swept(p, gone, stuck)
              /\ file' = Without(gone)
              /\ Sets(p, [sweep[p] EXCEPT !.pc = "evict", !.todo = Candidates(p),
                    !.total = Cardinality(Files \ gone),
                    !.protected = Cardinality(Protected(p, Files \ gone, stuck)),
                    !.err = unread \/ stuck # {}])
  BY <1>1
<1>3. /\ gone \subseteq Files \ (Referenced(p) \cup stuck)
      /\ ~unread => \/ gone \cup stuck = Files \ Referenced(p)
                    \/ Cardinality(Files \ gone) <= Space
  BY <1>2 DEF Swept
<1>4. Candidates(p) \in SUBSET Runners /\ IsSweep(sweep[p])
  BY SweepFields, CatalogType DEF TypeInv, Candidates
<1> DEFINE total == Cardinality(Files \ gone)
           protected == Cardinality(Protected(p, Files \ gone, stuck))
           err == unread \/ stuck # {}
<1>5. Sets(p, [sweep[p] EXCEPT !.pc = "evict", !.todo = Candidates(p), !.total = total,
                               !.protected = protected, !.err = err])
  BY <1>2
<1>7. err \in BOOLEAN
  OBVIOUS
<1> HIDE DEF total, protected, err
<1>6. /\ sweep'[p] = [sweep[p] EXCEPT !.pc = "evict", !.todo = Candidates(p), !.total = total,
                                      !.protected = protected, !.err = err]
      /\ Only(p)
  BY <1>5, SetsOne
<1>8. IsSweep(sweep'[p])
  BY <1>4, <1>6, <1>7 DEF IsSweep
<1>9. /\ sweep'[p].pc = "evict" /\ sweep'[p].op = sweep[p].op /\ sweep'[p].seen = sweep[p].seen
       /\ sweep'[p].at = sweep[p].at /\ sweep'[p].adopted = sweep[p].adopted
       /\ sweep'[p].todo = Candidates(p) /\ sweep'[p].batch = sweep[p].batch
       /\ sweep'[p].failed = sweep[p].failed /\ sweep'[p].total = total
       /\ sweep'[p].protected = protected /\ sweep'[p].err = err
  BY <1>4, <1>6 DEF IsSweep
<1>10. stuck \in SUBSET (Files \ Referenced(p)) /\ gone \in SUBSET (Files \ Referenced(p))
  BY <1>1, <1>3
<1>11. ~err => stuck = {} /\ (gone = Files \ Referenced(p) \/ total <= Space)
  BY <1>3 DEF err, total
<1>12. \E st \in SUBSET (Files \ Referenced(p)), go \in SUBSET (Files \ Referenced(p)) :
                /\ file' = Without(go)
                /\ sweep'[p].total = Cardinality(Files \ go)
                /\ sweep'[p].protected = Cardinality(Protected(p, Files \ go, st))
                /\ ~sweep'[p].err => /\ st = {}
                                  /\ \/ go = Files \ Referenced(p)
                                     \/ Cardinality(Files \ go) <= Space
  BY <1>2, <1>9, <1>10, <1>11 DEF total, protected
<1> QED BY <1>6, <1>8, <1>9, <1>12 DEF SweepUnreferenced, SameSweep, SweepFrame

\* The files a record names.
Mine(p, w) == {f \in Files : f[1] = w /\ f[2] \in Paths(sweep[p].seen[w])}

\* Evict deletes files of one candidate; only if all are gone is it tombstoned.
LEMMA EvictEffect ==
    ASSUME TypeInv, NEW p \in Sweepers, NEW w \in Runners, Evict(p, w)
    PROVE  /\ sweep[p].pc = "evict" /\ SameSweep(p) /\ Only(p) /\ sweep'[p].pc = "evict"
           /\ w \in sweep[p].todo /\ sweep'[p].todo = sweep[p].todo \ {w}
           /\ sweep'[p].seen = sweep[p].seen /\ sweep'[p].protected = sweep[p].protected
           /\ \E gone \in SUBSET Mine(p, w) :
                /\ file' = Without(gone)
                /\ sweep'[p].total = sweep[p].total - Cardinality(gone)
                /\ IF gone = Mine(p, w)
                   THEN /\ sweep'[p].batch = sweep[p].batch \cup {w}
                        /\ sweep'[p].failed = sweep[p].failed
                        /\ sweep'[p].err = sweep[p].err
                   ELSE /\ sweep'[p].batch = sweep[p].batch
                        /\ sweep'[p].failed = sweep[p].failed \cup {w}
                        /\ sweep'[p].err
           /\ UNCHANGED <<box, watch, bad, index, named, clock, alone, missed, settled>>
<1> DEFINE mine == Mine(p, w)
<1>1. PICK gone \in SUBSET mine :
         /\ file' = Without(gone)
         /\ Sets(p, [sweep[p] EXCEPT !.todo = @ \ {w}, !.total = @ - Cardinality(gone),
               !.batch = IF Tombstonable(gone, mine) THEN @ \cup {w} ELSE @,
               !.failed = IF gone = mine THEN @ ELSE @ \cup {w},
               !.err = @ \/ gone # mine])
  BY DEF Evict, Mine
<1> DEFINE todo == sweep[p].todo \ {w}
           total == sweep[p].total - Cardinality(gone)
           batch == IF gone = mine THEN sweep[p].batch \cup {w} ELSE sweep[p].batch
           failed == IF gone = mine THEN sweep[p].failed ELSE sweep[p].failed \cup {w}
           err == sweep[p].err \/ gone # mine
<1>2. Sets(p, [sweep[p] EXCEPT !.todo = todo, !.total = total, !.batch = batch,
                               !.failed = failed, !.err = err])
  BY <1>1 DEF Tombstonable
<1>4. /\ todo \in SUBSET Runners /\ batch \in SUBSET Runners /\ failed \in SUBSET Runners
      /\ err \in BOOLEAN /\ IsSweep(sweep[p])
  BY SweepFields DEF TypeInv
<1>6. IF gone = mine
      THEN batch = sweep[p].batch \cup {w} /\ failed = sweep[p].failed /\ err = sweep[p].err
      ELSE batch = sweep[p].batch /\ failed = sweep[p].failed \cup {w} /\ err
  BY SweepFields
<1> HIDE DEF todo, batch, failed, err, total
<1>5. /\ sweep'[p] = [sweep[p] EXCEPT !.todo = todo, !.total = total, !.batch = batch,
                                      !.failed = failed, !.err = err]
      /\ Only(p)
  BY <1>2, SetsOne
<1>7. IsSweep(sweep'[p])
  BY <1>4, <1>5 DEF IsSweep
<1>8. /\ sweep'[p].pc = sweep[p].pc /\ sweep'[p].op = sweep[p].op /\ sweep'[p].seen = sweep[p].seen
      /\ sweep'[p].at = sweep[p].at /\ sweep'[p].adopted = sweep[p].adopted
      /\ sweep'[p].protected = sweep[p].protected
      /\ sweep'[p].todo = todo /\ sweep'[p].batch = batch
      /\ sweep'[p].failed = failed /\ sweep'[p].total = total
      /\ sweep'[p].err = err
  BY <1>4, <1>5 DEF IsSweep
<1>9. \E go \in SUBSET mine :
        /\ file' = Without(go)
        /\ sweep'[p].total = sweep[p].total - Cardinality(go)
        /\ IF go = mine
           THEN /\ sweep'[p].batch = sweep[p].batch \cup {w} /\ sweep'[p].failed = sweep[p].failed
                /\ sweep'[p].err = sweep[p].err
           ELSE /\ sweep'[p].batch = sweep[p].batch /\ sweep'[p].failed = sweep[p].failed \cup {w}
                /\ sweep'[p].err
  BY <1>1, <1>6, <1>8 DEF total
<1>10. sweep[p].pc = "evict" /\ w \in sweep[p].todo
       /\ UNCHANGED <<box, watch, bad, index, named, clock, alone, missed, settled>>
  BY DEF Evict, SweepFrame
<1> QED BY <1>5, <1>7, <1>8, <1>9, <1>10 DEF SameSweep, todo

\* The records of the batch are frozen as they are.
Buries(p, c, d) ==
    /\ d \in Catalogs /\ DOMAIN d = DOMAIN c \cup sweep[p].batch
    /\ \A w \in DOMAIN c : w \notin sweep[p].batch \/ c[w].tomb # 0 => d[w] = c[w]
    /\ \A w \in sweep[p].batch \cap DOMAIN c : c[w].tomb = 0 =>
         /\ Paths(d[w]) = Paths(c[w]) /\ d[w].finalized = c[w].finalized
         /\ ~d[w].open /\ d[w].tomb = sweep[p].at

\* The patch that freezes a record keeps what it names.
LEMMA BuriedEffect ==
    ASSUME TypeInv, NEW p \in Sweepers, index' = Buried(p), sweep[p].at # 0
    PROVE  Buries(p, index, index')
<1> DEFINE b == [Patch EXCEPT !.container = TRUE, !.tomb = sweep[p].at]
           d == UpsertEach(index, [v \in sweep[p].batch |-> b])
<1>1. index' = d /\ b \in Patches /\ b.tomb = sweep[p].at
  BY SweepPatches DEF Buried
<1>2. b.log = FALSE /\ b.diag = FALSE /\ b.finalized = 0
  BY DEF Patch
<1> HIDE DEF b
<1>3. sweep[p].batch \in SUBSET Runners /\ index \in Catalogs
  BY SweepFields DEF TypeInv
<1>4. /\ d \in Catalogs /\ DOMAIN d = DOMAIN index \cup sweep[p].batch
      /\ \A v \in sweep[p].batch : d[v] = Merge(Current(index, v), b)
      /\ \A v \in DOMAIN index \ sweep[p].batch : d[v] = index[v]
  BY ZenonT(60), <1>1, <1>3, Upserted
<1> HIDE DEF d
<1>5. ASSUME NEW w \in DOMAIN index, w \notin sweep[p].batch \/ index[w].tomb # 0
      PROVE  d[w] = index[w]
  <2>1. CASE w \in sweep[p].batch
    <3>1. index[w] \in Records /\ Current(index, w) = index[w]
      BY <1>3, CatalogType, CurrentType
    <3>2. Merge(index[w], b) = index[w]
      BY <1>1, <1>5, <2>1, <3>1, MergeTombstone
    <3> QED BY <1>4, <2>1, <3>1, <3>2
  <2> QED BY <1>4, <2>1
<1>6. ASSUME NEW w \in sweep[p].batch \cap DOMAIN index, index[w].tomb = 0
      PROVE  /\ Paths(d[w]) = Paths(index[w]) /\ d[w].finalized = index[w].finalized
             /\ ~d[w].open /\ d[w].tomb = sweep[p].at
  <2> DEFINE r == index[w]
  <2>1. r \in Records /\ d[w] = Merge(r, b) /\ r.tomb = 0
    <3>1. index[w] \in Records /\ Current(index, w) = index[w]
      BY <1>3, CatalogType, CurrentType
    <3> QED BY <1>4, <1>6, <3>1
  <2> HIDE DEF r
  <2>2. /\ Merge(r, b).log = (r.log \/ b.log) /\ Merge(r, b).diag = (r.diag \/ b.diag)
        /\ Merge(r, b).finalized = IF r.finalized = 0 THEN b.finalized ELSE r.finalized
        /\ Merge(r, b).open = (b.tomb = 0 /\ (b.open = "open" \/ (b.open = "keep" /\ r.open)))
        /\ Merge(r, b).tomb = b.tomb
    BY <1>1, <2>1, MergeFields
  <2>3. r.log \in BOOLEAN /\ r.diag \in BOOLEAN
    BY <2>1 DEF Records
  <2>4. d[w].log = r.log /\ d[w].diag = r.diag /\ ~d[w].open
    BY <1>1, <1>2, <2>1, <2>2, <2>3
  <2>5. d[w].finalized = r.finalized
    BY <1>2, <2>1, <2>2
  <2>6. d[w].tomb = sweep[p].at
    BY <1>1, <2>1, <2>2
  <2> QED BY <2>4, <2>5, <2>6 DEF Paths, r
<1> QED BY <1>1, <1>4, <1>5, <1>6 DEF Buries

\* Tombstone ends the evictions and freezes the batch, if the write succeeds.
LEMMA TombstoneEffect ==
    ASSUME TypeInv, NEW p \in Sweepers, Tombstone(p)
    PROVE  /\ sweep[p].pc = "evict" /\ Evicted(p) /\ SameSweep(p) /\ Only(p)
           /\ sweep'[p].pc = "orphans"
           /\ sweep'[p].seen = sweep[p].seen /\ sweep'[p].todo = sweep[p].todo
           /\ sweep'[p].batch = sweep[p].batch /\ sweep'[p].failed = sweep[p].failed
           /\ sweep[p].err => sweep'[p].err
           /\ index' = index \/ Buries(p, index, index')
           /\ UNCHANGED <<box, watch, bad, named, file, clock, alone, missed, settled>>
<1>0. \/ Sets(p, [sweep[p] EXCEPT !.pc = "orphans"])
      \/ Sets(p, [sweep[p] EXCEPT !.pc = "orphans", !.err = TRUE])
  BY DEF Tombstone, To
<1>1. /\ \/ sweep'[p] = [sweep[p] EXCEPT !.pc = "orphans"]
         \/ sweep'[p] = [sweep[p] EXCEPT !.pc = "orphans", !.err = TRUE]
      /\ Only(p)
  BY <1>0, SetsOne
<1>2. IsSweep(sweep[p]) /\ sweep[p].at # 0 /\ sweep[p].pc = "evict"
  BY DEF TypeInv, SweepType, Tombstone
<1>3. IsSweep(sweep'[p])
  BY ZenonT(60), <1>1, <1>2 DEF IsSweep
<1>4. /\ sweep'[p].pc = "orphans" /\ sweep'[p].op = sweep[p].op /\ sweep'[p].seen = sweep[p].seen
      /\ sweep'[p].at = sweep[p].at /\ sweep'[p].adopted = sweep[p].adopted
      /\ sweep'[p].todo = sweep[p].todo /\ sweep'[p].batch = sweep[p].batch
      /\ sweep'[p].failed = sweep[p].failed /\ (sweep[p].err => sweep'[p].err)
  BY <1>1, <1>2 DEF IsSweep
<1>5. index' = index \/ Buries(p, index, index')
  BY <1>2, BuriedEffect DEF Tombstone
<1> QED BY <1>1, <1>3, <1>4, <1>5 DEF Tombstone, SameSweep, SweepFrame

\* From c to d only tombstones older than the sweep have gone.
Prunes(p, c, d) ==
    /\ d \in Catalogs /\ DOMAIN d \subseteq DOMAIN c
    /\ \A w \in DOMAIN d : d[w] = c[w]
    /\ \A w \in DOMAIN c : c[w].tomb \in {0, sweep[p].at} => w \in DOMAIN d

\* The pruning of the index drops tombstones only.
LEMMA PruneEffect ==
    ASSUME TypeInv, NEW p \in Sweepers, Prune(p) \/ UNCHANGED index
    PROVE  Prunes(p, index, index')
<1>1. index \in Catalogs /\ DOMAIN index \subseteq Runners
      /\ \A w \in DOMAIN index : index[w] \in Records
  BY CatalogType DEF TypeInv
<1>2. CASE Prune(p)
  <2> DEFINE left == {v \in DOMAIN index : \/ index[v].tomb = 0
                                           \/ index[v].tomb > sweep[p].at - Retention}
  <2>1. index' = [w \in left |-> index[w]] /\ left \subseteq DOMAIN index
    BY <1>2 DEF Prune
  <2>2. \A w \in DOMAIN index : index[w].tomb \in {0, sweep[p].at} => w \in left
    <3>1. sweep[p].at > sweep[p].at - Retention
      BY SMT, SweepFields, ArtifactsAssumption
    <3> QED BY <3>1
  <2> HIDE DEF left
  <2>3. index' \in [left -> Records] /\ left \in SUBSET Runners
    BY <1>1, <2>1
  <2>4. index' \in Catalogs
    BY <2>3 DEF Catalogs
  <2> QED BY <2>1, <2>2, <2>4 DEF Prunes
<1>3. CASE UNCHANGED index
  BY <1>1, <1>3 DEF Prunes
<1> QED BY <1>2, <1>3

\* SweepOrphans deletes unreferenced files and prunes the index.
LEMMA OrphansEffect ==
    ASSUME TypeInv, NEW p \in Sweepers, SweepOrphans(p)
    PROVE  /\ sweep[p].pc = "orphans" /\ IsSweep(sweep'[p]) /\ Only(p)
           /\ \E gone \in SUBSET (Files \ Referenced(p)) : file' = Without(gone)
           /\ Prunes(p, index, index')
           /\ \/ sweep'[p] = NoSweep
              \/ /\ SameSweep(p) /\ sweep'[p].pc = "watch" /\ sweep'[p].seen = sweep[p].seen
                 /\ sweep'[p].todo = sweep[p].todo /\ sweep'[p].batch = sweep[p].batch
                 /\ sweep'[p].failed = sweep[p].failed
           /\ settled' = "no" \/ (settled' = "yes" /\ settled = "sweeping" /\ ~sweep[p].err)
           /\ UNCHANGED <<box, watch, bad, named, clock, alone, missed>>
<1>1. PICK stuck \in SUBSET Orphans(p), pruned \in BOOLEAN :
         LET err == sweep[p].err \/ stuck # {} \/ ~pruned IN
         /\ file' = Without(Orphans(p) \ stuck)
         /\ IF pruned THEN Prune(p) ELSE UNCHANGED index
         /\ IF sweep[p].op = "list" /\ ~err THEN To(p, "watch") ELSE Fails(p)
         /\ settled' = IF settled = "sweeping" /\ ~err THEN "yes" ELSE "no"
  BY DEF SweepOrphans
<1>2. Orphans(p) \ stuck \in SUBSET (Files \ Referenced(p))
  BY DEF Orphans
<1>3. Prunes(p, index, index')
  BY <1>1, PruneEffect
<1>0. Sets(p, NoSweep) \/ Sets(p, [sweep[p] EXCEPT !.pc = "watch"])
  BY <1>1 DEF To, Fails
<1>4. /\ sweep'[p] = NoSweep \/ sweep'[p] = [sweep[p] EXCEPT !.pc = "watch"]
      /\ Only(p)
  BY <1>0, SetsOne
<1>5. ASSUME sweep'[p] = [sweep[p] EXCEPT !.pc = "watch"]
      PROVE  /\ SameSweep(p) /\ sweep'[p].pc = "watch" /\ sweep'[p].seen = sweep[p].seen
             /\ sweep'[p].todo = sweep[p].todo /\ sweep'[p].batch = sweep[p].batch
             /\ sweep'[p].failed = sweep[p].failed
  <2>1. IsSweep(sweep[p])
    BY SweepFields
  <2>2. /\ IsSweep(sweep'[p])
        /\ sweep'[p].pc = "watch" /\ sweep'[p].op = sweep[p].op /\ sweep'[p].seen = sweep[p].seen
        /\ sweep'[p].at = sweep[p].at /\ sweep'[p].adopted = sweep[p].adopted
        /\ sweep'[p].todo = sweep[p].todo /\ sweep'[p].batch = sweep[p].batch
        /\ sweep'[p].failed = sweep[p].failed
    BY <1>5, <2>1 DEF IsSweep
  <2> QED BY <2>2 DEF SameSweep
<1>6. /\ IsSweep(sweep'[p])
      /\ \/ sweep'[p] = NoSweep
         \/ /\ SameSweep(p) /\ sweep'[p].pc = "watch" /\ sweep'[p].seen = sweep[p].seen
            /\ sweep'[p].todo = sweep[p].todo /\ sweep'[p].batch = sweep[p].batch
            /\ sweep'[p].failed = sweep[p].failed
  BY <1>4, <1>5, NoSweepType DEF SameSweep
<1>7. settled' = "no" \/ (settled' = "yes" /\ settled = "sweeping" /\ ~sweep[p].err)
  BY <1>1
<1>8. \E gone \in SUBSET (Files \ Referenced(p)) : file' = Without(gone)
  BY <1>1, <1>2
<1> QED BY <1>3, <1>4, <1>6, <1>7, <1>8 DEF SweepOrphans, SweepFrame

\* EnsureWatch starts the watches that are missing.
LEMMA EnsureWatchEffect ==
    ASSUME TypeInv, NEW p \in Sweepers, EnsureWatch(p)
    PROVE  /\ sweep[p].pc = "watch" /\ sweep'[p] = NoSweep /\ Only(p)
           /\ watch' \in [Runners -> Watches]
           /\ \A w \in Runners : \/ watch'[w] = watch[w]
                                 \/ w \in Exists /\ watch'[w] = "open"
           /\ UNCHANGED <<box, bad, index, named, file, clock, alone, missed, settled>>
<1>1. sweep'[p] = NoSweep /\ Only(p)
  BY SetsOne DEF EnsureWatch, Fails
<1> QED BY <1>1 DEF EnsureWatch, TypeInv, Watches

\* The end of the controller, or of its runtime, ends the watches; a runtime that
\* closes publishes the logs it was streaming.
LEMMA EndEffect ==
    ASSUME TypeInv, ControllerCrash \/ RuntimeClose
    PROVE  /\ \A w \in Runners : watch'[w] = "off"
           /\ watch' \in [Runners -> Watches] /\ bad' \in [Runners -> BOOLEAN]
           /\ file' \in [Runners -> [Kinds -> Nat]]
           /\ \A w \in Runners, k \in Kinds :
                \/ file'[w][k] = file[w][k]
                \/ watch[w] # "off" /\ file'[w][k] = clock /\ settled' = "no"
           /\ UNCHANGED <<box, index, named, clock, alone, missed>>
           /\ sweep' = [p \in Sweepers |-> sweep'[p]]
           /\ \A p \in Sweepers : sweep'[p] = NoSweep \/ sweep'[p] = sweep[p]
           /\ settled' = "no" \/ (settled' = settled /\ UNCHANGED file)
<1>1. /\ watch' = [w \in Runners |-> "off"] /\ bad' = [w \in Runners |-> FALSE]
      /\ UNCHANGED <<box, index, named, clock, alone, missed>>
      /\ settled' = "no" \/ (settled' = settled /\ UNCHANGED file)
  BY DEF ControllerCrash, RuntimeClose
<1>4. /\ sweep' = [p \in Sweepers |-> sweep'[p]]
      /\ \A p \in Sweepers : sweep'[p] = NoSweep \/ sweep'[p] = sweep[p]
  <2>1. CASE ControllerCrash
    <3>1. sweep' = [p \in Sweepers |-> IF sweep[p].op = "list" THEN NoSweep ELSE sweep[p]]
      BY <2>1 DEF ControllerCrash
    <3> QED BY <3>1
  <2>2. CASE RuntimeClose
    BY <2>2 DEF RuntimeClose, TypeInv
  <2> QED BY <2>1, <2>2
<1>2. watch' \in [Runners -> Watches] /\ bad' \in [Runners -> BOOLEAN]
      /\ \A w \in Runners : watch'[w] = "off"
  BY <1>1 DEF Watches
<1>3. /\ file' \in [Runners -> [Kinds -> Nat]]
      /\ \A w \in Runners, k \in Kinds :
           \/ file'[w][k] = file[w][k]
           \/ watch[w] # "off" /\ file'[w][k] = clock /\ settled' = "no"
  <2>1. CASE ControllerCrash
    BY <2>1 DEF ControllerCrash, TypeInv
  <2>2. CASE RuntimeClose
    <3>1. /\ file' = [w \in Runners |-> IF watch[w] = "stream" /\ ~bad[w]
                                  THEN [file[w] EXCEPT !["log"] = clock] ELSE file[w]]
          /\ settled' = "no"
      BY <2>2 DEF RuntimeClose
    <3>2. \A w \in Runners : file[w] \in [Kinds -> Nat] /\ clock \in Nat
      BY DEF TypeInv
    <3>3. \A w \in Runners :
            /\ [file[w] EXCEPT !["log"] = clock] \in [Kinds -> Nat]
            /\ \A k \in Kinds :
                 [file[w] EXCEPT !["log"] = clock][k] \in {file[w][k], clock}
      <4>1. ASSUME NEW f \in [Kinds -> Nat], NEW c \in Nat
            PROVE  /\ [f EXCEPT !["log"] = c] \in [Kinds -> Nat]
                   /\ \A k \in Kinds : [f EXCEPT !["log"] = c][k] \in {f[k], c}
        OBVIOUS
      <4> QED BY <3>2, <4>1
    <3>4. \A w \in Runners :
            \/ file'[w] = file[w]
            \/ file'[w] = [file[w] EXCEPT !["log"] = clock] /\ watch[w] # "off"
      BY <3>1
    <3>5. file' \in [Runners -> [Kinds -> Nat]]
      <4> DEFINE g(w) == IF watch[w] = "stream" /\ ~bad[w]
                         THEN [file[w] EXCEPT !["log"] = clock] ELSE file[w]
      <4>1. \A w \in Runners : g(w) \in [Kinds -> Nat]
        BY <3>2, <3>3
      <4>2. file' = [w \in Runners |-> g(w)]
        BY <3>1
      <4> HIDE DEF g
      <4> QED BY <4>1, <4>2
    <3> QED BY <3>1, <3>3, <3>4, <3>5
  <2> QED BY <2>1, <2>2
<1> QED BY <1>1, <1>2, <1>3, <1>4

\* ScanFails deletes unreferenced files, or none, and may prune the index.
LEMMA ScanFailsEffect ==
    ASSUME TypeInv, NEW p \in Sweepers, ScanFails(p)
    PROVE  /\ sweep[p].pc = "space" /\ sweep'[p] = NoSweep /\ Only(p)
           /\ \E gone \in SUBSET (Files \ Referenced(p)) : file' = Without(gone)
           /\ Prunes(p, index, index') /\ settled' = "no"
           /\ UNCHANGED <<box, watch, bad, named, clock, alone, missed>>
<1>1. sweep'[p] = NoSweep /\ Only(p)
  BY SetsOne DEF ScanFails, Fails
<1>2. \E gone \in SUBSET (Files \ Referenced(p)) : file' = Without(gone)
  <2>1. PICK stuck \in SUBSET (Files \ Referenced(p)) :
          \E gone \in SUBSET (Files \ (Referenced(p) \cup stuck)) : file' = Without(gone)
    BY DEF ScanFails
  <2>2. PICK gone \in SUBSET (Files \ (Referenced(p) \cup stuck)) : file' = Without(gone)
    BY <2>1
  <2>3. gone \in SUBSET (Files \ Referenced(p))
    OBVIOUS
  <2> QED BY <2>2, <2>3
<1> QED BY <1>1, <1>2, PruneEffect DEF ScanFails, SweepFrame

\* Purge deletes what neither the sweep nor a readable drop journal refers to.
LEMMA PurgeEffect ==
    ASSUME TypeInv, NEW p \in Sweepers, Purge(p)
    PROVE  /\ sweep[p].pc = "purge" /\ sweep'[p] = NoSweep /\ Only(p)
           /\ \E gone \in SUBSET Purgeable(p) : file' = Without(gone)
           /\ UNCHANGED <<box, watch, bad, index, named, clock, alone, missed, settled>>
<1>1. sweep'[p] = NoSweep /\ Only(p)
  BY SetsOne DEF Purge, Fails
<1> QED BY <1>1 DEF Purge, SweepFrame

\* An interrupted sweep leaves everything else.
LEMMA InterruptEffect ==
    ASSUME TypeInv, NEW p \in Sweepers, Interrupt(p)
    PROVE  /\ sweep[p].pc # "off" /\ sweep'[p] = NoSweep /\ Only(p)
           /\ UNCHANGED <<box, watch, bad, index, named, file, clock, alone, missed, settled>>
<1>1. sweep'[p] = NoSweep /\ Only(p)
  BY SetsOne DEF Interrupt, Fails
<1> QED BY <1>1 DEF Interrupt, Busy, SweepFrame

\* A tick passes between sweeps; a damaged journal changes nothing else.
LEMMA IdleEffect ==
    ASSUME TypeInv, ClockTick \/ DamageJournal \/ UNCHANGED artifactVars
    PROVE  /\ UNCHANGED <<box, watch, bad, index, named, file, sweep, alone, missed, settled>>
           /\ clock' \in Nat \ {0}
           /\ clock' = clock \/ Busy = {}
<1>1. CASE ClockTick
  <2>1. clock' = clock + 1 /\ clock \in Nat
    BY <1>1 DEF ClockTick, TypeInv
  <2>2. clock' \in Nat \ {0}
    BY SMT, <2>1
  <2> QED BY <1>1, <2>2 DEF ClockTick
<1>2. CASE DamageJournal
  BY <1>2 DEF DamageJournal, TypeInv
<1>3. CASE UNCHANGED artifactVars
  BY <1>3 DEF artifactVars, TypeInv
<1> QED BY <1>1, <1>2, <1>3

\* A container that starts, exits or is lost.
LEMMA ContainerEffect ==
    ASSUME TypeInv, NEW w \in Runners, Start(w) \/ Exit(w) \/ Lose(w)
    PROVE  /\ box' \in [Runners -> Boxes] /\ watch' \in [Runners -> Watches]
           /\ \A v \in Runners \ {w} : box'[v] = box[v] /\ watch'[v] = watch[v]
           /\ \/ /\ box[w] = "none" /\ box'[w] = "live" /\ watch'[w] = "open"
                 /\ missed' = IF Busy = {} THEN missed ELSE missed \cup {w}
              \/ /\ box[w] = "live" /\ box'[w] = "exited" /\ watch'[w] = watch[w]
                 /\ missed' = missed
              \/ /\ box[w] \in {"live", "exited"} /\ box'[w] = "lost"
                 /\ watch'[w] = watch[w] /\ missed' = missed
           /\ settled' = "no" \/ (settled' = settled /\ box'[w] = "exited")
           /\ UNCHANGED <<bad, index, named, file, clock, sweep, alone>>
<1>1. CASE Start(w)
  BY <1>1 DEF Start, TypeInv, Boxes, Watches
<1>2. CASE Exit(w)
  BY <1>2 DEF Exit, TypeInv, Boxes, Watches
<1>3. CASE Lose(w)
  BY <1>3 DEF Lose, Exists, TypeInv, Boxes, Watches
<1> QED BY <1>1, <1>2, <1>3
-----------------------------------------------------------------------------
(* Types. *)
\* Earlier workers have left well-formed records and files.
LEMMA InitType ==
    ASSUME ArtifactsInit
    PROVE  TypeInv
<1>1. PICK past \in SUBSET Runners : \E time \in [past -> 1..2], shed \in SUBSET past :
         \E now0 \in 2..MaxTime : ArtifactsInitWith(time, shed, now0, 0, 0)
  BY DEF ArtifactsInit
<1>2. PICK time \in [past -> 1..2], shed \in SUBSET past, now0 \in 2..MaxTime :
         ArtifactsInitWith(time, shed, now0, 0, 0)
  BY <1>1
<1>3. \A w \in past : time[w] \in Nat
  BY SMT, <1>2
<1>4. box \in [Runners -> Boxes] /\ watch \in [Runners -> Watches] /\ bad \in [Runners -> BOOLEAN]
  BY <1>2 DEF ArtifactsInitWith, Boxes, Watches
<1>5. index \in Catalogs
  <2> DEFINE rec(w) == [Blank EXCEPT !.container = TRUE, !.log = TRUE, !.diag = TRUE,
                                     !.finalized = time[w]]
  <2>1. \A w \in past \ shed : rec(w) \in Records
    BY <1>3 DEF Blank, Records
  <2>2. index = [w \in past \ shed |-> rec(w)] /\ past \ shed \in SUBSET Runners
    BY <1>2 DEF ArtifactsInitWith
  <2> HIDE DEF rec
  <2>3. index \in [past \ shed -> Records]
    BY <2>1, <2>2
  <2> QED BY <2>2, <2>3 DEF Catalogs
<1>6. file \in [Runners -> [Kinds -> Nat]]
  <2> DEFINE t(w) == IF w \in DOMAIN time THEN time[w] ELSE 0
  <2>1. \A w \in Runners : t(w) \in Nat
    BY SMT, <1>2, <1>3
  <2>2. file = [w \in Runners |-> [k \in Kinds |-> t(w)]]
    BY <1>2 DEF ArtifactsInitWith
  <2> HIDE DEF t
  <2> QED BY <2>1, <2>2
<1>7. named \in SUBSET (Runners \X Kinds)
  BY <1>1, <1>2 DEF ArtifactsInitWith
<1>8. clock \in Nat \ {0}
  <2>1. clock = now0
    BY <1>2 DEF ArtifactsInitWith
  <2> QED BY SMT, <2>1
<1>9. sweep = [p \in Sweepers |-> NoSweep] /\ missed = {} /\ settled = "no"
  BY <1>2 DEF ArtifactsInitWith
<1>10. sweep = [p \in Sweepers |-> sweep[p]] /\ \A p \in Sweepers : SweepType(p)
  BY <1>9, NoSweepType DEF SweepType
<1> QED BY <1>4, <1>5, <1>6, <1>7, <1>8, <1>9, <1>10 DEF TypeInv
\* A step of one sweeper keeps the types if its own sweep has its type.
LEMMA SweepTyped ==
    ASSUME TypeInv, NEW p \in Sweepers, Only(p), IsSweep(sweep'[p]),
           sweep'[p].pc \in {"off", "adopt"} \/ sweep'[p].at = clock,
           UNCHANGED <<box, bad, named, clock, missed>>, watch' \in [Runners -> Watches],
           index' \in Catalogs, file' \in [Runners -> [Kinds -> Nat]],
           settled' \in {"no", "sweeping", "yes"}
    PROVE  TypeInv'
<1>1. \A q \in Sweepers : SweepType(q)'
  <2> SUFFICES ASSUME NEW q \in Sweepers PROVE SweepType(q)'
    OBVIOUS
  <2>1. CASE q = p
    BY <2>1 DEF SweepType
  <2>2. CASE q # p
    BY <2>2 DEF TypeInv, SweepType, Only
  <2> QED BY <2>1, <2>2
<1> QED BY <1>1 DEF TypeInv, Only

\* A step that changes no sweep, or ends some, keeps the types of the sweeps.
LEMMA EndedTyped ==
    ASSUME TypeInv, sweep' = [p \in Sweepers |-> sweep'[p]],
           \A p \in Sweepers : sweep'[p] = NoSweep \/ sweep'[p] = sweep[p],
           clock' = clock \/ (Busy = {} /\ UNCHANGED sweep)
    PROVE  \A p \in Sweepers : SweepType(p)'
<1> SUFFICES ASSUME NEW p \in Sweepers PROVE SweepType(p)'
  OBVIOUS
<1>1. SweepType(p)
  BY DEF TypeInv
<1>2. CASE sweep'[p] = NoSweep
  BY <1>2, NoSweepType DEF SweepType
<1>3. CASE sweep'[p] = sweep[p] /\ clock' = clock
  BY <1>1, <1>3 DEF SweepType
<1>4. CASE sweep'[p] = sweep[p] /\ Busy = {}
  BY <1>1, <1>4 DEF SweepType, Busy
<1> QED BY <1>2, <1>3, <1>4

\* Every step keeps the types.
LEMMA NextType ==
    ASSUME TypeInv, [ArtifactsNext]_artifactVars
    PROVE  TypeInv'
<1>0. /\ index \in Catalogs /\ missed \in SUBSET Runners /\ watch \in [Runners -> Watches]
      /\ file \in [Runners -> [Kinds -> Nat]] /\ settled \in {"no", "sweeping", "yes"}
      /\ sweep = [p \in Sweepers |-> sweep[p]]
  BY DEF TypeInv
<1>01. \A p \in Sweepers : sweep[p].pc \notin {"off", "adopt"} => sweep[p].at = clock
  BY DEF TypeInv, SweepType
<1>1. ASSUME NEW w \in Runners, Start(w) \/ Exit(w) \/ Lose(w) PROVE TypeInv'
  <2>1. missed' \in SUBSET Runners
    <3>1. missed' = missed \/ missed' = missed \cup {w}
      BY <1>1, ContainerEffect
    <3> QED BY <1>0, <3>1
  <2>2. /\ box' \in [Runners -> Boxes] /\ watch' \in [Runners -> Watches]
        /\ settled' = "no" \/ settled' = settled
        /\ UNCHANGED <<bad, index, named, file, clock, sweep>>
    BY <1>1, ContainerEffect
  <2>3. \A p \in Sweepers : SweepType(p)'
    BY <1>0, <2>2, EndedTyped
  <2> QED BY <2>1, <2>2, <2>3 DEF TypeInv
<1>2. ASSUME NEW w \in Runners, Watch(w) PROVE TypeInv'
  <2>1. WatchEffect(w)
    BY <1>2, WatchSteps
  <2>2. UNCHANGED <<clock, sweep>>
    BY <2>1 DEF WatchEffect
  <2>3. \A p \in Sweepers : SweepType(p)'
    BY <1>0, <2>2, EndedTyped
  <2> QED BY <2>1, <2>3 DEF TypeInv, WatchEffect, Grows
<1>3. ASSUME NEW p \in Sweepers, NEW op \in {"list", "cleanup", "purge"}, Begin(p, op)
      PROVE  TypeInv'
  <2>1. settled' \in {"no", "sweeping", "yes"}
    BY <1>0, <1>3, BeginEffect
  <2> QED BY <1>0, <1>3, <2>1, BeginEffect, SweepTyped
<1>4. ASSUME NEW p \in Sweepers, Adopt(p) PROVE TypeInv'
  <2>1. index' \in Catalogs /\ (sweep'[p].pc \in {"off", "adopt"} \/ sweep'[p].at = clock)
    BY <1>4, AdoptEffect, NoSweepType DEF Grows
  <2> QED BY <1>0, <1>4, <2>1, AdoptEffect, SweepTyped
<1>5. ASSUME NEW p \in Sweepers, CloseStale(p) PROVE TypeInv'
  <2>1. index' \in Catalogs /\ (sweep'[p].pc \in {"off", "adopt"} \/ sweep'[p].at = clock)
    BY <1>01, <1>5, CloseStaleEffect, NoSweepType DEF Grows, SameSweep
  <2> QED BY <1>0, <1>5, <2>1, CloseStaleEffect, SweepTyped
<1>6. ASSUME NEW p \in Sweepers, Load(p) PROVE TypeInv'
  <2>1. sweep'[p].pc \in {"off", "adopt"} \/ sweep'[p].at = clock
    BY <1>01, <1>6, LoadEffect, NoSweepType DEF SameSweep
  <2> QED BY <1>0, <1>6, <2>1, LoadEffect, SweepTyped
<1>7. ASSUME NEW p \in Sweepers, SweepUnreferenced(p) PROVE TypeInv'
  <2>1. PICK gone : file' = Without(gone)
    BY <1>7, UnreferencedEffect
  <2>2. file' \in [Runners -> [Kinds -> Nat]]
    BY <2>1, WithoutFiles
  <2>3. IsSweep(sweep'[p]) /\ sweep'[p].at = clock
    BY <1>01, <1>7, UnreferencedEffect DEF SameSweep
  <2> QED BY <1>0, <1>7, <2>2, <2>3, UnreferencedEffect, SweepTyped
<1>8. ASSUME NEW p \in Sweepers, NEW w \in Runners, Evict(p, w) PROVE TypeInv'
  <2>1. PICK gone : file' = Without(gone)
    BY <1>8, EvictEffect
  <2>2. file' \in [Runners -> [Kinds -> Nat]]
    BY <2>1, WithoutFiles
  <2>3. /\ IsSweep(sweep'[p]) /\ sweep'[p].at = clock /\ Only(p)
        /\ UNCHANGED <<box, watch, bad, index, named, clock, alone, missed, settled>>
    BY <1>01, <1>8, EvictEffect DEF SameSweep
  <2> QED BY <1>0, <2>2, <2>3, SweepTyped
<1>9. ASSUME NEW p \in Sweepers, Tombstone(p) PROVE TypeInv'
  <2>1. IsSweep(sweep'[p]) /\ sweep'[p].at = clock
    BY <1>01, <1>9, TombstoneEffect DEF SameSweep
  <2>2. index' \in Catalogs
    BY <1>0, <1>9, TombstoneEffect DEF Buries
  <2> QED BY <1>0, <1>9, <2>1, <2>2, TombstoneEffect, SweepTyped
<1>10. ASSUME NEW p \in Sweepers, SweepOrphans(p) PROVE TypeInv'
  <2>1. PICK gone : file' = Without(gone)
    BY <1>10, OrphansEffect
  <2>2. file' \in [Runners -> [Kinds -> Nat]]
    BY <2>1, WithoutFiles
  <2>3. sweep'[p].pc \in {"off", "adopt"} \/ sweep'[p].at = clock
    BY <1>01, <1>10, OrphansEffect, NoSweepType DEF SameSweep
  <2>4. index' \in Catalogs /\ settled' \in {"no", "sweeping", "yes"}
    BY <1>10, OrphansEffect DEF Prunes
  <2> QED BY <1>0, <1>10, <2>2, <2>3, <2>4, OrphansEffect, SweepTyped
<1>11. ASSUME NEW p \in Sweepers, ScanFails(p) PROVE TypeInv'
  <2>1. PICK gone : file' = Without(gone)
    BY <1>11, ScanFailsEffect
  <2>2. file' \in [Runners -> [Kinds -> Nat]]
    BY <2>1, WithoutFiles
  <2>3. index' \in Catalogs /\ IsSweep(sweep'[p]) /\ sweep'[p].pc = "off"
    BY <1>11, ScanFailsEffect, NoSweepType DEF Prunes
  <2> QED BY <1>0, <1>11, <2>2, <2>3, ScanFailsEffect, SweepTyped
<1>12. ASSUME NEW p \in Sweepers, EnsureWatch(p) PROVE TypeInv'
  BY <1>0, <1>12, EnsureWatchEffect, NoSweepType, SweepTyped
<1>13. ASSUME NEW p \in Sweepers, Purge(p) PROVE TypeInv'
  <2>1. PICK gone : file' = Without(gone)
    BY <1>13, PurgeEffect
  <2>2. file' \in [Runners -> [Kinds -> Nat]]
    BY <2>1, WithoutFiles
  <2> QED BY <1>0, <1>13, <2>2, PurgeEffect, NoSweepType, SweepTyped
<1>14. ASSUME NEW p \in Sweepers, Interrupt(p) PROVE TypeInv'
  BY <1>0, <1>14, InterruptEffect, NoSweepType, SweepTyped
<1>15. CASE ControllerCrash \/ RuntimeClose
  <2>1. \A p \in Sweepers : SweepType(p)'
    BY <1>15, EndEffect, EndedTyped
  <2>2. settled' \in {"no", "sweeping", "yes"}
    BY <1>0, <1>15, EndEffect
  <2> QED BY <1>15, <2>1, <2>2, EndEffect DEF TypeInv
<1>16. CASE ClockTick \/ DamageJournal \/ UNCHANGED artifactVars
  <2>1. /\ UNCHANGED <<box, watch, bad, index, named, file, sweep, alone, missed, settled>>
        /\ clock' \in Nat \ {0} /\ (clock' = clock \/ Busy = {})
    BY <1>16, IdleEffect
  <2>2. \A p \in Sweepers : SweepType(p)'
    BY <1>0, <2>1, EndedTyped
  <2> QED BY <2>1, <2>2 DEF TypeInv
<1> QED BY <1>1, <1>2, <1>3, <1>4, <1>5, <1>6, <1>7, <1>8, <1>9, <1>10, <1>11, <1>12,
           <1>13, <1>14, <1>15, <1>16 DEF ArtifactsNext, Sweep
-----------------------------------------------------------------------------
(* What a cleanup has chosen. *)
\* What may go depends on the inventory and on what was read.
LEMMA SameCandidates ==
    ASSUME NEW p, sweep'[p].seen = sweep[p].seen, sweep'[p].adopted = sweep[p].adopted
    PROVE  /\ Candidates(p)' = Candidates(p) /\ Referenced(p)' = Referenced(p)
           /\ CandidatePaths(p)' = CandidatePaths(p)
<1>1. Candidates(p)' = Candidates(p)
  BY DEF Candidates, LiveRecord
<1>2. \A w : Paths(sweep[p].seen[w])' = Paths(sweep[p].seen[w])
  BY DEF Paths
<1>3. CandidatePaths(p)' = CandidatePaths(p)
  BY <1>1, <1>2 DEF CandidatePaths
<1>4. Referenced(p)' = Referenced(p)
  BY <1>2 DEF Referenced, LiveRecord
<1> QED BY <1>1, <1>3, <1>4

\* A sweep that has ended, or has chosen nothing yet, keeps the choice trivially.
LEMMA NothingChosen ==
    ASSUME NEW p, sweep'[p].todo = {}, sweep'[p].batch = {}, sweep'[p].failed = {}
    PROVE  ChosenBy(p)'
  BY DEF ChosenBy

\* A sweep is left alone or ended, save by the steps of its own sweeper.
OwnStep(q) ==
    \/ \E op \in {"list", "cleanup", "purge"} : Begin(q, op)
    \/ Adopt(q) \/ CloseStale(q) \/ Load(q) \/ SweepUnreferenced(q)
    \/ \E w \in Runners : Evict(q, w)
    \/ Tombstone(q) \/ SweepOrphans(q)

\* A step of one sweeper is its own and leaves the sweeps of the others alone.
LEMMA SweeperSteps ==
    ASSUME TypeInv, NEW p \in Sweepers,
           \/ \E op \in {"list", "cleanup", "purge"} : Begin(p, op)
           \/ Sweep(p) \/ Interrupt(p)
    PROVE  Only(p) /\ (OwnStep(p) \/ sweep'[p] = NoSweep)
<1>1. CASE \E op \in {"list", "cleanup", "purge"} : Begin(p, op)
  BY <1>1, BeginEffect DEF OwnStep
<1>2. CASE Adopt(p) \/ CloseStale(p) \/ Load(p)
  BY <1>2, AdoptEffect, CloseStaleEffect, LoadEffect DEF OwnStep
<1>3. CASE SweepUnreferenced(p) \/ Tombstone(p) \/ SweepOrphans(p)
  BY <1>3, UnreferencedEffect, TombstoneEffect, OrphansEffect DEF OwnStep
<1>4. CASE \E w \in Runners : Evict(p, w)
  <2>1. PICK w \in Runners : Evict(p, w)
    BY <1>4
  <2>2. Only(p)
    BY <2>1, EvictEffect
  <2> QED BY <2>1, <2>2 DEF OwnStep
<1>5. CASE ScanFails(p) \/ EnsureWatch(p) \/ Purge(p) \/ Interrupt(p)
  BY <1>5, ScanFailsEffect, EnsureWatchEffect, PurgeEffect, InterruptEffect
<1> QED BY <1>1, <1>2, <1>3, <1>4, <1>5 DEF Sweep

\* Any step leaves a sweep, ends it, or is its sweeper's own.
LEMMA SweepSteps ==
    ASSUME TypeInv, NEW q \in Sweepers, [ArtifactsNext]_artifactVars
    PROVE  sweep'[q] = sweep[q] \/ sweep'[q] = NoSweep \/ OwnStep(q)
<1>1. ASSUME NEW w \in Runners, Start(w) \/ Exit(w) \/ Lose(w) \/ Watch(w)
      PROVE  sweep'[q] = sweep[q]
  BY <1>1, ContainerEffect, WatchSteps DEF WatchEffect
<1>2. ASSUME NEW p \in Sweepers,
             \/ \E op \in {"list", "cleanup", "purge"} : Begin(p, op)
             \/ Sweep(p) \/ Interrupt(p)
      PROVE  sweep'[q] = sweep[q] \/ sweep'[q] = NoSweep \/ OwnStep(q)
  BY <1>2, SweeperSteps DEF Only
<1>3. CASE ControllerCrash \/ RuntimeClose
  BY <1>3, EndEffect
<1>4. CASE ClockTick \/ DamageJournal \/ UNCHANGED artifactVars
  BY <1>4, IdleEffect
<1> QED BY <1>1, <1>2, <1>3, <1>4 DEF ArtifactsNext

\* The choice of a cleanup is sound after every step.
LEMMA NextChosen ==
    ASSUME TypeInv, ChosenInv, [ArtifactsNext]_artifactVars
    PROVE  ChosenInv'
<1> SUFFICES ASSUME NEW p \in Sweepers PROVE ChosenBy(p)'
  BY DEF ChosenInv
<1>0. ChosenBy(p)
  BY DEF ChosenInv
<1>1. CASE sweep'[p] = sweep[p]
  <2>1. Candidates(p)' = Candidates(p)
    BY <1>1, SameCandidates
  <2> QED BY <1>0, <1>1, <2>1 DEF ChosenBy
<1>2. CASE sweep'[p] = NoSweep
  BY <1>2, NoSweepType, NothingChosen
<1>3. ASSUME NEW op \in {"list", "cleanup", "purge"}, Begin(p, op) PROVE ChosenBy(p)'
  BY <1>3, BeginEffect, NothingChosen
<1>4. CASE Adopt(p)
  <2>1. sweep[p].todo = {} /\ sweep[p].batch = {} /\ sweep[p].failed = {}
    BY <1>0, <1>4, AdoptEffect DEF ChosenBy
  <2> QED BY <1>2, <1>4, <2>1, AdoptEffect, NothingChosen
<1>5. CASE CloseStale(p)
  <2>1. sweep[p].todo = {} /\ sweep[p].batch = {} /\ sweep[p].failed = {}
    BY <1>0, <1>5, CloseStaleEffect DEF ChosenBy
  <2> QED BY <1>2, <1>5, <2>1, CloseStaleEffect, NothingChosen
<1>6. CASE Load(p)
  <2>1. sweep[p].todo = {} /\ sweep[p].batch = {} /\ sweep[p].failed = {}
    BY <1>0, <1>6, LoadEffect DEF ChosenBy
  <2> QED BY <1>2, <1>6, <2>1, LoadEffect, NothingChosen
<1>7. CASE SweepUnreferenced(p)
  <2>1. /\ sweep[p].batch = {} /\ sweep[p].failed = {} /\ sweep'[p].pc = "evict"
        /\ sweep'[p].batch = sweep[p].batch /\ sweep'[p].failed = sweep[p].failed
        /\ sweep'[p].todo = Candidates(p)
    BY <1>0, <1>7, UnreferencedEffect DEF ChosenBy
  <2>2. Candidates(p)' = Candidates(p)
    BY <1>7, UnreferencedEffect, SameCandidates DEF SameSweep
  <2> QED BY <2>1, <2>2 DEF ChosenBy
<1>8. ASSUME NEW w \in Runners, Evict(p, w) PROVE ChosenBy(p)'
  <2>1. /\ sweep'[p].pc = "evict" /\ w \in sweep[p].todo /\ sweep'[p].todo = sweep[p].todo \ {w}
        /\ \/ sweep'[p].batch = sweep[p].batch \cup {w} /\ sweep'[p].failed = sweep[p].failed
           \/ sweep'[p].batch = sweep[p].batch /\ sweep'[p].failed = sweep[p].failed \cup {w}
    BY <1>8, EvictEffect
  <2>2. Candidates(p)' = Candidates(p)
    BY <1>8, EvictEffect, SameCandidates DEF SameSweep
  <2> QED BY <1>0, <2>1, <2>2 DEF ChosenBy
<1>9. CASE Tombstone(p)
  <2>1. Candidates(p)' = Candidates(p)
    BY <1>9, TombstoneEffect, SameCandidates DEF SameSweep
  <2> QED BY <1>0, <1>9, <2>1, TombstoneEffect DEF ChosenBy
<1>10. CASE SweepOrphans(p)
  <2>1. CASE sweep'[p] # NoSweep
    <3>1. Candidates(p)' = Candidates(p)
      BY <1>10, <2>1, OrphansEffect, SameCandidates DEF SameSweep
    <3> QED BY <1>0, <1>10, <2>1, <3>1, OrphansEffect DEF ChosenBy
  <2> QED BY <1>2, <2>1
<1> QED BY <1>1, <1>2, <1>3, <1>4, <1>5, <1>6, <1>7, <1>8, <1>9, <1>10, SweepSteps DEF OwnStep
-----------------------------------------------------------------------------
(* Containers, inventory and records. *)
\* What a sweep writes stays within what it has read.
LEMMA SweepKeepsInventory ==
    ASSUME InventoryInv, NEW p \in Sweepers, Only(p), UNCHANGED <<box, watch, named, missed>>,
           sweep[p].pc # "off",
           DOMAIN index' \subseteq DOMAIN index \cup DOMAIN sweep[p].seen \cup sweep[p].adopted,
           \/ sweep'[p] = NoSweep
           \/ /\ sweep'[p].adopted = sweep[p].adopted
              /\ DOMAIN sweep'[p].seen \subseteq DOMAIN index' \cup DOMAIN sweep[p].seen
    PROVE  InventoryInv'
<1>1. DOMAIN sweep'[p].seen \subseteq DOMAIN index' \cup DOMAIN sweep[p].seen
  BY NoSweepType
<1>2. sweep'[p].adopted \subseteq sweep[p].adopted
  BY NoSweepType
<1>3. sweep'[p].pc # "off" => sweep'[p].adopted = sweep[p].adopted
  BY NoSweepType
<1>4. Exists' = Exists
  BY DEF Exists
<1>5. InventoryOf(p)
  BY DEF InventoryInv
<1>6. \A w \in DOMAIN index' : box'[w] # "none"
  BY <1>5 DEF InventoryInv, InventoryOf
<1>7. InventoryOf(p)'
  BY <1>1, <1>2, <1>3, <1>4, <1>5, <1>6 DEF InventoryOf
<1>8. ASSUME NEW q \in Sweepers, q # p PROVE InventoryOf(q)'
  <2>1. InventoryOf(q) /\ sweep'[q] = sweep[q]
    BY <1>8 DEF InventoryInv, Only
  <2> QED BY <1>4, <2>1 DEF InventoryOf
<1> QED BY <1>6, <1>7, <1>8 DEF InventoryInv

\* What was in an inventory stays known, and nothing comes to exist behind a sweep
\* but what is missed.
LEMMA SameInventory ==
    ASSUME TypeInv, InventoryInv, NEW p \in Sweepers,
           sweep'[p] = sweep[p] \/ sweep'[p] = NoSweep,
           \A v \in Runners : box[v] # "none" => box'[v] # "none",
           sweep[p].pc # "off" => Exists' \ missed' \subseteq Exists \ missed
    PROVE  InventoryOf(p)'
<1>1. InventoryOf(p)
  BY DEF InventoryInv
<1>2. DOMAIN sweep[p].seen \subseteq Runners /\ sweep[p].adopted \subseteq Runners
  BY CatalogType, SweepFields
<1>3. CASE sweep'[p] = sweep[p]
  BY <1>1, <1>2, <1>3 DEF InventoryOf
<1>4. CASE sweep'[p] = NoSweep
  BY <1>4, NoSweepType DEF InventoryOf
<1> QED BY <1>3, <1>4

\* The inventory of a sweep holds after every step.
LEMMA NextInventory ==
    ASSUME TypeInv, ChosenInv, InventoryInv, [ArtifactsNext]_artifactVars
    PROVE  InventoryInv'
<1>1. ASSUME NEW w \in Runners, Start(w) \/ Exit(w) \/ Lose(w) PROVE InventoryInv'
  <2> DEFINE Same == UNCHANGED <<index, named, sweep>>
  <2>1. /\ \A v \in Runners \ {w} : box'[v] = box[v] /\ watch'[v] = watch[v]
        /\ box[w] \in {"none", "live", "exited"} /\ box'[w] \in {"live", "exited", "lost"}
        /\ Same
    BY <1>1, ContainerEffect
  <2>2. Busy # {} => Exists' \ missed' \subseteq Exists \ missed
    <3>1. CASE box'[w] = "live"
      <4>1. Busy # {} => missed' = missed \cup {w}
        BY <1>1, <3>1, ContainerEffect
      <4> QED BY <2>1, <4>1 DEF Exists
    <3>2. CASE box'[w] # "live"
      BY <1>1, <2>1, <3>2, ContainerEffect DEF Exists
    <3> QED BY <3>1, <3>2
  <2>3. \A v \in Runners : watch'[v] # "off" => box'[v] \in {"live", "exited", "lost"}
    BY <2>1 DEF InventoryInv
  <2>4. \A f \in named : f[1] \in Runners
    BY DEF TypeInv
  <2>5. \A f \in named' : box'[f[1]] = "removed"
    BY <2>1, <2>4 DEF InventoryInv
  <2>6. \A v \in Runners : box[v] # "none" => box'[v] # "none"
    BY <2>1
  <2>7. DOMAIN index \subseteq Runners
    BY CatalogType DEF TypeInv
  <2>8. ASSUME NEW p \in Sweepers PROVE InventoryOf(p)'
    <3>1. sweep[p].pc # "off" => Busy # {}
      BY DEF Busy
    <3> QED BY <2>1, <2>2, <2>6, <3>1, SameInventory
  <2> QED BY <2>1, <2>3, <2>5, <2>6, <2>7, <2>8 DEF InventoryInv
<1>2. ASSUME NEW w \in Runners, Watch(w) PROVE InventoryInv'
  <2>1. /\ watch[w] # "off" /\ UNCHANGED <<named, sweep, missed>>
        /\ \A v \in Runners \ {w} : box'[v] = box[v] /\ watch'[v] = watch[v]
        /\ \/ box'[w] = box[w]
           \/ watch'[w] = "off" /\ box[w] = "exited" /\ box'[w] = "removed"
        /\ DOMAIN index' \subseteq DOMAIN index \cup {w}
    BY ZenonT(60), <1>2, WatchSteps DEF WatchEffect, Grows
  <2>2. box[w] \in {"live", "exited", "lost"}
    BY <2>1 DEF InventoryInv
  <2>3. Exists' \subseteq Exists
    BY <2>1 DEF Exists
  <2>4. \A v \in Runners : watch'[v] # "off" => box'[v] \in {"live", "exited", "lost"}
    BY <2>1 DEF InventoryInv
  <2>5. \A f \in named : f[1] \in Runners
    BY DEF TypeInv
  <2>6. \A f \in named' : box'[f[1]] = "removed"
    BY <2>1, <2>2, <2>5 DEF InventoryInv
  <2>7. \A v \in Runners : box[v] # "none" => box'[v] # "none"
    BY <2>1
  <2>8. DOMAIN index \subseteq Runners
    BY CatalogType DEF TypeInv
  <2>9. \A v \in DOMAIN index' : box'[v] # "none"
    BY <2>1, <2>2, <2>7, <2>8 DEF InventoryInv
  <2>10. \A p \in Sweepers : InventoryOf(p)'
    BY <2>1, <2>3, <2>7, SameInventory
  <2> QED BY <2>4, <2>6, <2>9, <2>10 DEF InventoryInv
<1>3. ASSUME NEW p \in Sweepers, NEW op \in {"list", "cleanup", "purge"}, Begin(p, op)
      PROVE  InventoryInv'
  <2>1. Exists' = Exists /\ \A w \in Exists : box[w] # "none"
    BY <1>3, BeginEffect DEF Exists
  <2>2. InventoryOf(p)'
    <3>1. sweep'[p].adopted = Exists /\ DOMAIN sweep'[p].seen = {} /\ UNCHANGED <<box, missed>>
      BY <1>3, BeginEffect
    <3> QED BY <2>1, <3>1 DEF InventoryOf
  <2>3. UNCHANGED <<box, watch, index, named, missed>> /\ Only(p)
    BY <1>3, BeginEffect
  <2>4. ASSUME NEW q \in Sweepers, q # p PROVE InventoryOf(q)'
    <3>1. InventoryOf(q) /\ sweep'[q] = sweep[q]
      BY <2>3, <2>4 DEF InventoryInv, Only
    <3> QED BY <2>1, <2>3, <3>1 DEF InventoryOf
  <2> QED BY <2>2, <2>3, <2>4 DEF InventoryInv
<1>4. ASSUME NEW p \in Sweepers, Adopt(p) PROVE InventoryInv'
  BY <1>4, AdoptEffect, SweepKeepsInventory DEF Grows
<1>5. ASSUME NEW p \in Sweepers, CloseStale(p) PROVE InventoryInv'
  <2>1. Stale(p) \subseteq DOMAIN sweep[p].seen
    BY DEF Stale
  <2>2. DOMAIN index' \subseteq DOMAIN index \cup DOMAIN sweep[p].seen
    BY <1>5, <2>1, CloseStaleEffect DEF Grows
  <2> QED BY <1>5, <2>2, CloseStaleEffect, SweepKeepsInventory DEF SameSweep
<1>6. ASSUME NEW p \in Sweepers, Load(p) PROVE InventoryInv'
  BY <1>6, LoadEffect, SweepKeepsInventory DEF SameSweep
<1>7. ASSUME NEW p \in Sweepers, SweepUnreferenced(p) PROVE InventoryInv'
  BY <1>7, UnreferencedEffect, SweepKeepsInventory DEF SameSweep
<1>8. ASSUME NEW p \in Sweepers, NEW w \in Runners, Evict(p, w) PROVE InventoryInv'
  BY <1>8, EvictEffect, SweepKeepsInventory DEF SameSweep
<1>9. ASSUME NEW p \in Sweepers, Tombstone(p) PROVE InventoryInv'
  <2>1. sweep[p].batch \subseteq DOMAIN sweep[p].seen
    BY DEF ChosenInv, ChosenBy, Candidates
  <2>2. DOMAIN index' \subseteq DOMAIN index \cup DOMAIN sweep[p].seen
    BY <1>9, <2>1, TombstoneEffect DEF Buries
  <2> QED BY <1>9, <2>2, TombstoneEffect, SweepKeepsInventory DEF SameSweep
<1>10. ASSUME NEW p \in Sweepers, SweepOrphans(p) PROVE InventoryInv'
  <2>1. DOMAIN index' \subseteq DOMAIN index
    BY <1>10, OrphansEffect DEF Prunes
  <2> QED BY <1>10, <2>1, OrphansEffect, SweepKeepsInventory DEF SameSweep
<1>11. ASSUME NEW p \in Sweepers, ScanFails(p) PROVE InventoryInv'
  BY <1>11, ScanFailsEffect, SweepKeepsInventory DEF Prunes
<1>12. ASSUME NEW p \in Sweepers, EnsureWatch(p) PROVE InventoryInv'
  <2>1. /\ sweep'[p] = NoSweep /\ Only(p) /\ UNCHANGED <<box, index, named, missed>>
        /\ \A w \in Runners : \/ watch'[w] = watch[w]
                              \/ w \in Exists /\ watch'[w] = "open"
    BY <1>12, EnsureWatchEffect
  <2>2. Exists' = Exists /\ \A w \in Exists : box[w] \in {"live", "exited", "lost"}
    BY <2>1 DEF Exists
  <2>3. \A w \in Runners : watch'[w] # "off" => box[w] \in {"live", "exited", "lost"}
    BY <2>1, <2>2 DEF InventoryInv
  <2>4. \A q \in Sweepers : InventoryOf(q)'
    BY <2>1, <2>2, SameInventory DEF Only
  <2> QED BY <2>1, <2>3, <2>4 DEF InventoryInv
<1>13. ASSUME NEW p \in Sweepers, Purge(p) PROVE InventoryInv'
  BY <1>13, PurgeEffect, SweepKeepsInventory
<1>14. ASSUME NEW p \in Sweepers, Interrupt(p) PROVE InventoryInv'
  BY <1>14, InterruptEffect, SweepKeepsInventory
<1>15. CASE ControllerCrash \/ RuntimeClose
  <2>1. /\ \A w \in Runners : watch'[w] = "off"
        /\ UNCHANGED <<box, index, named, missed>>
        /\ \A p \in Sweepers : sweep'[p] = NoSweep \/ sweep'[p] = sweep[p]
    BY <1>15, EndEffect
  <2>2. Exists' = Exists
    BY <2>1 DEF Exists
  <2>3. \A p \in Sweepers : InventoryOf(p)'
    BY <2>1, <2>2, SameInventory
  <2> QED BY <2>1, <2>3 DEF InventoryInv
<1>16. CASE ClockTick \/ DamageJournal \/ UNCHANGED artifactVars
  <2>1. UNCHANGED <<box, watch, index, named, sweep, missed>>
    BY <1>16, IdleEffect
  <2>2. Exists' = Exists
    BY <2>1 DEF Exists
  <2>3. \A p \in Sweepers : InventoryOf(p)'
    BY <2>1, <2>2, SameInventory
  <2> QED BY <2>1, <2>3 DEF InventoryInv
<1> QED
  BY ZenonT(60), <1>1, <1>2, <1>3, <1>4, <1>5, <1>6, <1>7, <1>8, <1>9, <1>10, <1>11, <1>12,
           <1>13, <1>14, <1>15, <1>16 DEF ArtifactsNext, Sweep
-----------------------------------------------------------------------------
(* What no step does to an existing container's evidence. *)
\* A container that exists and did not start behind the sweep is in its inventory.
LEMMA Inventoried ==
    ASSUME TypeInv, InventoryInv, NEW p \in Sweepers, sweep[p].pc # "off", NEW w \in Exists \ missed
    PROVE  w \in Runners /\ w \in sweep[p].adopted
  BY DEF InventoryInv, InventoryOf, Exists

\* Outside the inventory nothing is watched, save what was lost.
LEMMA OutsideQuiet ==
    ASSUME TypeInv, InventoryInv, NEW p \in Sweepers, sweep[p].pc # "off",
           NEW w \in Runners, w \notin sweep[p].adopted \cup missed, box[w] # "lost"
    PROVE  watch[w] = "off" /\ w \notin Exists
  BY DEF InventoryInv, InventoryOf, Exists

\* A sweep's deletions spare the inventory.
LEMMA DeletionsSpare ==
    ASSUME TypeInv, InventoryInv, NEW p \in Sweepers, sweep[p].pc # "off",
           NEW gone, gone \cap (sweep[p].adopted \X Kinds) = {}, file' = Without(gone),
           NEW w \in Exists \ missed, NEW k \in Kinds
    PROVE  file'[w][k] = file[w][k]
<1>1. w \in Runners /\ w \in sweep[p].adopted
  BY Inventoried
<1>2. <<w, k>> \in sweep[p].adopted \X Kinds
  BY <1>1
<1>3. <<w, k>> \notin gone
  BY <1>2
<1>4. file'[w][k] = IF <<w, k>> \in gone THEN 0 ELSE file[w][k]
  BY SMT, <1>1, WithoutFiles
<1> QED BY <1>3, <1>4

\* What each step deletes is outside the inventory.
LEMMA GoneIsOutside ==
    ASSUME NEW p, NEW gone
    PROVE  /\ gone \subseteq Files \ Referenced(p) => gone \cap (sweep[p].adopted \X Kinds) = {}
           /\ gone \subseteq Purgeable(p) => gone \cap (sweep[p].adopted \X Kinds) = {}
           /\ \A w \in Candidates(p) : gone \subseteq Mine(p, w)
                => gone \cap (sweep[p].adopted \X Kinds) = {}
<1>1. (sweep[p].adopted \X Kinds) \cap (Files \ Referenced(p)) = {}
  BY SMT DEF Referenced, Files
<1>2. Purgeable(p) \subseteq Files \ Referenced(p)
  BY DEF Purgeable
<1>3. ASSUME NEW w \in Candidates(p), gone \subseteq Mine(p, w)
      PROVE  gone \cap (sweep[p].adopted \X Kinds) = {}
  <2>1. w \notin sweep[p].adopted
    BY DEF Candidates
  <2> QED BY SMT, <1>3, <2>1 DEF Mine
<1> QED BY <1>1, <1>2, <1>3

\* The record of an existing container stays live and, once finalised, finalised.
RecordsKept ==
    \A w \in Exists \ missed : LiveRecord(index, w) =>
       /\ LiveRecord(index', w)
       /\ index[w].finalized # 0 => index'[w].finalized # 0

\* Growing and pruning keep the live records.
LEMMA GrowsKeeps ==
    ASSUME NEW p, NEW S, Grows(index, index', S) \/ Prunes(p, index, index') \/ UNCHANGED index
    PROVE  RecordsKept
<1>1. CASE Grows(index, index', S)
  BY <1>1 DEF Grows, RecordsKept, LiveRecord
<1>2. CASE Prunes(p, index, index')
  BY <1>2 DEF Prunes, RecordsKept, LiveRecord
<1>3. CASE UNCHANGED index
  BY <1>3 DEF RecordsKept, LiveRecord
<1> QED BY <1>1, <1>2, <1>3

\* No step takes evidence from an existing container or freezes its record.
LEMMA NextLiveKept ==
    ASSUME TypeInv, ChosenInv, InventoryInv, [ArtifactsNext]_artifactVars
    PROVE  LiveKept /\ RecordsKept
<1> DEFINE FilesKept == \A w \in Exists \ missed, k \in Kinds :
                           file[w][k] # 0 => file'[w][k] # 0
<1>0. SUFFICES FilesKept /\ RecordsKept
  BY DEF LiveKept, RecordsKept
<1>00. clock # 0 /\ Exists \subseteq Runners
  BY DEF TypeInv, Exists
<1>1. CASE UNCHANGED <<index, file>>
  BY <1>1, GrowsKeeps
<1>2. ASSUME NEW w \in Runners, Start(w) \/ Exit(w) \/ Lose(w) PROVE FilesKept /\ RecordsKept
  BY <1>1, <1>2, ContainerEffect
<1>3. ASSUME NEW w \in Runners, Watch(w) PROVE FilesKept /\ RecordsKept
  <2>1. /\ \A v \in Runners \ {w} : file'[v] = file[v]
        /\ \A k \in Kinds : file'[w][k] \in {file[w][k], clock}
        /\ Grows(index, index', {w})
    BY <1>3, WatchSteps DEF WatchEffect
  <2>2. RecordsKept
    BY <2>1, GrowsKeeps
  <2>3. FilesKept
    BY <1>00, <2>1
  <2> QED BY <2>2, <2>3
<1>4. ASSUME NEW p \in Sweepers, NEW op \in {"list", "cleanup", "purge"}, Begin(p, op)
      PROVE  FilesKept /\ RecordsKept
  BY <1>1, <1>4, BeginEffect
<1>5. ASSUME NEW p \in Sweepers, Adopt(p)
      PROVE  FilesKept /\ RecordsKept
  BY <1>5, AdoptEffect, GrowsKeeps
<1>6. ASSUME NEW p \in Sweepers, CloseStale(p)
      PROVE  FilesKept /\ RecordsKept
  BY <1>6, CloseStaleEffect, GrowsKeeps
<1>7. ASSUME NEW p \in Sweepers, SweepUnreferenced(p)
      PROVE  FilesKept /\ RecordsKept
  <2>1. /\ sweep[p].pc # "off" /\ UNCHANGED index
        /\ \E gone \in SUBSET (Files \ Referenced(p)) : file' = Without(gone)
    BY <1>7, UnreferencedEffect
  <2>2. PICK gone \in SUBSET (Files \ Referenced(p)) : file' = Without(gone)
    BY <2>1
  <2>3. gone \cap (sweep[p].adopted \X Kinds) = {}
    BY <2>2, GoneIsOutside
  <2>4. FilesKept
    BY <2>1, <2>2, <2>3, DeletionsSpare
  <2> QED BY <2>1, <2>4, GrowsKeeps
<1>8. ASSUME NEW p \in Sweepers, NEW w \in Runners, Evict(p, w)
      PROVE  FilesKept /\ RecordsKept
  <2>1. /\ sweep[p].pc # "off" /\ UNCHANGED index /\ w \in sweep[p].todo
        /\ \E gone \in SUBSET Mine(p, w) : file' = Without(gone)
    BY <1>8, EvictEffect
  <2>2. PICK gone \in SUBSET Mine(p, w) : file' = Without(gone)
    BY <2>1
  <2>3. w \in Candidates(p)
    BY <2>1 DEF ChosenInv, ChosenBy
  <2>4. gone \cap (sweep[p].adopted \X Kinds) = {}
    BY <2>2, <2>3, GoneIsOutside
  <2>5. FilesKept
    BY <2>1, <2>2, <2>4, DeletionsSpare
  <2> QED BY <2>1, <2>5, GrowsKeeps
<1>9. ASSUME NEW p \in Sweepers, Tombstone(p)
      PROVE  FilesKept /\ RecordsKept
  <2>1. /\ sweep[p].pc # "off" /\ UNCHANGED file
        /\ UNCHANGED index \/ Buries(p, index, index')
    BY <1>9, TombstoneEffect
  <2>2. \A w \in Exists \ missed : w \notin sweep[p].batch
    BY <2>1, Inventoried DEF ChosenInv, ChosenBy, Candidates
  <2>3. RecordsKept
    BY <2>1, <2>2 DEF Buries, RecordsKept, LiveRecord
  <2> QED BY <2>1, <2>3
<1>10. ASSUME NEW p \in Sweepers, SweepOrphans(p)
      PROVE  FilesKept /\ RecordsKept
  <2>1. /\ sweep[p].pc # "off" /\ Prunes(p, index, index')
        /\ \E gone \in SUBSET (Files \ Referenced(p)) : file' = Without(gone)
    BY <1>10, OrphansEffect
  <2>2. PICK gone \in SUBSET (Files \ Referenced(p)) : file' = Without(gone)
    BY <2>1
  <2>3. gone \cap (sweep[p].adopted \X Kinds) = {}
    BY <2>2, GoneIsOutside
  <2>4. FilesKept
    BY <2>1, <2>2, <2>3, DeletionsSpare
  <2> QED BY <2>1, <2>4, GrowsKeeps
<1>11. ASSUME NEW p \in Sweepers, ScanFails(p)
      PROVE  FilesKept /\ RecordsKept
  <2>1. /\ sweep[p].pc # "off" /\ Prunes(p, index, index')
        /\ \E gone \in SUBSET (Files \ Referenced(p)) : file' = Without(gone)
    BY <1>11, ScanFailsEffect
  <2>2. PICK gone \in SUBSET (Files \ Referenced(p)) : file' = Without(gone)
    BY <2>1
  <2>3. gone \cap (sweep[p].adopted \X Kinds) = {}
    BY <2>2, GoneIsOutside
  <2>4. FilesKept
    BY <2>1, <2>2, <2>3, DeletionsSpare
  <2> QED BY <2>1, <2>4, GrowsKeeps
<1>12. ASSUME NEW p \in Sweepers, Purge(p)
      PROVE  FilesKept /\ RecordsKept
  <2>1. /\ sweep[p].pc # "off" /\ UNCHANGED index
        /\ \E gone \in SUBSET Purgeable(p) : file' = Without(gone)
    BY <1>12, PurgeEffect
  <2>2. PICK gone \in SUBSET Purgeable(p) : file' = Without(gone)
    BY <2>1
  <2>3. gone \cap (sweep[p].adopted \X Kinds) = {}
    BY <2>2, GoneIsOutside
  <2>4. FilesKept
    BY <2>1, <2>2, <2>3, DeletionsSpare
  <2> QED BY <2>1, <2>4, GrowsKeeps
<1>13. CASE ControllerCrash \/ RuntimeClose
  <2>1. UNCHANGED index /\ \A w \in Runners, k \in Kinds :
                             file'[w][k] = file[w][k] \/ file'[w][k] = clock
    BY <1>13, EndEffect
  <2> QED BY <1>00, <2>1, GrowsKeeps
<1>14. ASSUME NEW p \in Sweepers, EnsureWatch(p) \/ Interrupt(p)
      PROVE  FilesKept /\ RecordsKept
  BY <1>1, <1>14, EnsureWatchEffect, InterruptEffect
<1>15. CASE ClockTick \/ DamageJournal \/ UNCHANGED artifactVars
  BY <1>1, <1>15, IdleEffect
<1>16. ASSUME NEW p \in Sweepers, Load(p) PROVE FilesKept /\ RecordsKept
  BY <1>1, <1>16, LoadEffect
<1> QED
  BY ZenonT(60), <1>2, <1>3, <1>4, <1>5, <1>6, <1>7, <1>8, <1>9, <1>10, <1>11, <1>12, <1>13,
           <1>14, <1>15, <1>16 DEF ArtifactsNext, Sweep
-----------------------------------------------------------------------------
(* What a sweep has read, and what it has dealt with. *)
\* Index and files seen from a sweep that goes on: nobody else touches what is
\* outside its inventory.
Quiet(p) ==
    /\ \A w \in DOMAIN index : Recent(w) => Recent(w)'
    /\ \A w \in DOMAIN index \cap DOMAIN index' :
         index[w].finalized # 0 => index'[w].finalized # 0
    /\ \A w \in Runners \ (sweep[p].adopted \cup missed') : box'[w] # "lost" =>
         /\ box[w] # "lost" /\ w \notin missed
         /\ w \in DOMAIN index \cap DOMAIN index' => Paths(index'[w]) = Paths(index[w])
         /\ \A k \in Kinds : file[w][k] = 0 => file'[w][k] = 0

\* A step that leaves the sweep and is quiet keeps what the sweep has read.
LEMMA QuietSeen ==
    ASSUME TypeInv, NEW p \in Sweepers, SeenBy(p), Quiet(p), sweep'[p] = sweep[p]
    PROVE  SeenBy(p)'
<1>1. DOMAIN sweep[p].seen \subseteq Runners /\ Candidates(p)' = Candidates(p)
  BY CatalogType, SweepFields, SameCandidates
<1>2. ASSUME sweep[p].pc \in {"space", "evict"}, NEW w \in DOMAIN sweep[p].seen,
             sweep[p].seen[w].tomb = 0
      PROVE  /\ Recent(w)'
             /\ sweep[p].seen[w].finalized # 0 => index'[w].finalized # 0
             /\ w \notin sweep[p].adopted \cup missed' /\ box'[w] # "lost"
                  => Paths(index'[w]) = Paths(sweep[p].seen[w])
  <2>1. /\ Recent(w)
        /\ sweep[p].seen[w].finalized # 0 => index[w].finalized # 0
        /\ w \notin sweep[p].adopted \cup missed /\ box[w] # "lost"
             => Paths(index[w]) = Paths(sweep[p].seen[w])
    BY <1>2 DEF SeenBy
  <2>2. w \in DOMAIN index
    BY <2>1 DEF Recent
  <2>3. Recent(w)'
    BY <2>1, <2>2 DEF Quiet
  <2>4. w \in DOMAIN index'
    BY <2>3 DEF Recent
  <2> QED BY <1>1, <2>1, <2>2, <2>3, <2>4 DEF Quiet
<1>3. ASSUME sweep[p].pc = "evict",
             NEW w \in Candidates(p) \ (sweep[p].todo \cup sweep[p].failed \cup missed'),
             box'[w] # "lost", NEW k \in Paths(sweep[p].seen[w])
      PROVE  file'[w][k] = 0
  <2>1. w \in Runners /\ w \notin sweep[p].adopted /\ k \in Kinds
    BY <1>1 DEF Candidates, Paths
  <2>2. box[w] # "lost" /\ w \notin missed /\ (file[w][k] = 0 => file'[w][k] = 0)
    BY <1>3, <2>1 DEF Quiet
  <2> QED BY <1>3, <2>2 DEF SeenBy
<1>4. ASSUME NEW w PROVE Paths(sweep[p].seen[w])' = Paths(sweep[p].seen[w])
  BY DEF Paths
<1> QED BY <1>1, <1>2, <1>3, <1>4 DEF SeenBy

\* A record that grows stays recent and finalised.
LEMMA GrowsRecent ==
    ASSUME NEW S, Grows(index, index', S), UNCHANGED clock
    PROVE  /\ \A w \in DOMAIN index : Recent(w) => Recent(w)'
           /\ \A w \in DOMAIN index : index[w].finalized # 0 => index'[w].finalized # 0
<1>1. ASSUME NEW w \in DOMAIN index, Recent(w) PROVE Recent(w)'
  <2>1. w \in DOMAIN index' /\ (index'[w].tomb = 0 \/ index'[w] = index[w])
    BY DEF Grows
  <2> QED BY <1>1, <2>1 DEF Recent
<1> QED BY <1>1 DEF Grows

\* A step of a container or a watch is quiet.
LEMMA OthersQuiet ==
    ASSUME TypeInv, InventoryInv, NEW p \in Sweepers, sweep[p].pc # "off",
           NEW w \in Runners, Start(w) \/ Exit(w) \/ Lose(w) \/ Watch(w)
    PROVE  Quiet(p)
<1>1. CASE Start(w) \/ Exit(w) \/ Lose(w)
  <2>1. missed' = missed \/ missed' = missed \cup {w}
    BY <1>1, ContainerEffect
  <2>2. /\ UNCHANGED <<index, file, clock>>
        /\ \A v \in Runners \ {w} : box'[v] = box[v]
        /\ box[w] # "lost"
    BY <1>1, ContainerEffect
  <2> QED BY <2>1, <2>2 DEF Quiet, Recent
<1>2. CASE Watch(w)
  <2>1. /\ watch[w] # "off" /\ missed' = missed /\ UNCHANGED clock
        /\ \A v \in Runners \ {w} : box'[v] = box[v] /\ file'[v] = file[v]
        /\ box'[w] = box[w] \/ box[w] = "exited"
        /\ Grows(index, index', {w})
    BY <1>2, WatchSteps DEF WatchEffect
  <2>2. /\ \A v \in DOMAIN index : Recent(v) => Recent(v)'
        /\ \A v \in DOMAIN index : index[v].finalized # 0 => index'[v].finalized # 0
    BY <2>1, GrowsRecent
  <2>3. \A v \in DOMAIN index \ {w} : index'[v] = index[v]
    BY <2>1 DEF Grows
  <2>4. w \in sweep[p].adopted \cup missed \/ box[w] = "lost"
    BY <2>1, OutsideQuiet
  <2>5. ASSUME NEW v \in Runners \ (sweep[p].adopted \cup missed), box'[v] # "lost"
        PROVE  v # w
    BY <2>1, <2>4, <2>5
  <2> QED BY <2>1, <2>2, <2>3, <2>5 DEF Quiet
<1> QED BY <1>1, <1>2

\* So is the end of the controller or of its runtime.
LEMMA EndQuiet ==
    ASSUME TypeInv, InventoryInv, NEW p \in Sweepers, sweep[p].pc # "off",
           ControllerCrash \/ RuntimeClose
    PROVE  Quiet(p)
<1>1. /\ UNCHANGED <<box, index, missed, clock>>
      /\ \A w \in Runners, k \in Kinds : file'[w][k] = file[w][k] \/ watch[w] # "off"
  BY EndEffect
<1> QED BY <1>1, OutsideQuiet DEF Quiet, Recent

\* A sweep that only deletes files, and opens, closes, freezes or prunes records, is
\* quiet for every other.
LEMMA TidyQuiet ==
    ASSUME TypeInv, NEW q, NEW p \in Sweepers, UNCHANGED <<box, clock, missed>>,
           \A w \in Runners, k \in Kinds : file[w][k] = 0 => file'[w][k] = 0,
           NEW S,
           \/ Grows(index, index', S) /\ SamePaths(index, index')
           \/ sweep[p].at = clock /\ (Buries(p, index, index') \/ Prunes(p, index, index'))
    PROVE  Quiet(q)
<1>1. /\ \A w \in DOMAIN index : Recent(w) => Recent(w)'
      /\ \A w \in DOMAIN index \cap DOMAIN index' :
           index[w].finalized # 0 => index'[w].finalized # 0
      /\ \A w \in DOMAIN index \cap DOMAIN index' : Paths(index'[w]) = Paths(index[w])
  <2>1. CASE Grows(index, index', S) /\ SamePaths(index, index')
    BY <2>1, GrowsRecent DEF SamePaths
  <2>2. CASE sweep[p].at = clock /\ Buries(p, index, index')
    <3>1. ASSUME NEW w \in DOMAIN index
          PROVE  /\ w \in DOMAIN index'
                 /\ Paths(index'[w]) = Paths(index[w]) /\ index'[w].finalized = index[w].finalized
                 /\ index'[w].tomb = index[w].tomb \/ index'[w].tomb = clock
      BY <2>2 DEF Buries
    <3> QED BY <3>1 DEF Recent
  <2>3. CASE sweep[p].at = clock /\ Prunes(p, index, index')
    BY <2>3 DEF Prunes, Recent
  <2> QED BY <2>1, <2>2, <2>3
<1> QED BY <1>1 DEF Quiet

\* What is left when an eviction took some of a record's files.
Took(p, w, gone) ==
    /\ file' = Without(gone)
    /\ sweep'[p].total = sweep[p].total - Cardinality(gone)
    /\ gone = Mine(p, w) => sweep'[p].failed = sweep[p].failed /\ sweep'[p].err = sweep[p].err
    /\ gone # Mine(p, w) => sweep'[p].failed = sweep[p].failed \cup {w} /\ sweep'[p].err

\* An eviction takes all of a record's files or remembers that it failed.
LEMMA EvictOutcome ==
    ASSUME TypeInv, NEW p \in Sweepers, NEW w \in Runners, Evict(p, w)
    PROVE  \E gone \in SUBSET Mine(p, w) : Took(p, w, gone)
<1>1. PICK gone \in SUBSET Mine(p, w) :
         /\ file' = Without(gone)
         /\ sweep'[p].total = sweep[p].total - Cardinality(gone)
         /\ IF gone = Mine(p, w)
            THEN /\ sweep'[p].batch = sweep[p].batch \cup {w}
                 /\ sweep'[p].failed = sweep[p].failed
                 /\ sweep'[p].err = sweep[p].err
            ELSE /\ sweep'[p].batch = sweep[p].batch
                 /\ sweep'[p].failed = sweep[p].failed \cup {w}
                 /\ sweep'[p].err
  BY EvictEffect
<1> QED BY <1>1 DEF Took

\* What a sweeper's step does to the files and to the index.
Fewer == \A w \in Runners, k \in Kinds : file[w][k] = 0 => file'[w][k] = 0

TidyIndex(p) ==
    \/ \E S : Grows(index, index', S) /\ SamePaths(index, index')
    \/ sweep[p].at = clock /\ Prunes(p, index, index')
    \/ sweep[p].at = clock /\ Tombstone(p) /\ Buries(p, index, index')

\* A sweeper's step deletes files and opens, closes, freezes or prunes records.
LEMMA SweeperEffect ==
    ASSUME TypeInv, NEW p \in Sweepers,
           \/ \E op \in {"list", "cleanup", "purge"} : Begin(p, op)
           \/ Sweep(p) \/ Interrupt(p)
    PROVE  UNCHANGED <<box, named, clock, missed>> /\ Fewer /\ TidyIndex(p)
<1>1. /\ sweep[p].pc \notin {"off", "adopt"} => sweep[p].at = clock
      /\ index \in Catalogs
  BY DEF TypeInv, SweepType
<1>2. ASSUME UNCHANGED index PROVE TidyIndex(p)
  <2>1. Grows(index, index', {}) /\ SamePaths(index, index')
    BY <1>1, <1>2, StaysGrows DEF SamePaths
  <2> QED BY <2>1 DEF TidyIndex
<1>3. UNCHANGED file => Fewer
  BY DEF Fewer
<1>4. ASSUME NEW gone, file' = Without(gone) PROVE Fewer
  BY <1>4, WithoutFiles DEF Fewer
<1>5. CASE \E op \in {"list", "cleanup", "purge"} : Begin(p, op)
  BY <1>2, <1>3, <1>5, BeginEffect
<1>6. CASE Adopt(p) \/ CloseStale(p)
  BY <1>3, <1>6, AdoptEffect, CloseStaleEffect DEF TidyIndex
<1>7. CASE Load(p) \/ EnsureWatch(p) \/ Interrupt(p)
  BY <1>2, <1>3, <1>7, LoadEffect, EnsureWatchEffect, InterruptEffect
<1>8. CASE SweepUnreferenced(p) \/ Purge(p)
  <2>1. UNCHANGED <<box, index, named, clock, missed>> /\ \E gone : file' = Without(gone)
    BY <1>8, UnreferencedEffect, PurgeEffect
  <2> QED BY <1>2, <1>4, <2>1
<1>9. CASE \E w \in Runners : Evict(p, w)
  <2>1. UNCHANGED <<box, index, named, clock, missed>> /\ \E gone : file' = Without(gone)
    BY <1>9, EvictEffect
  <2> QED BY <1>2, <1>4, <2>1
<1>10. CASE Tombstone(p)
  <2>1. /\ UNCHANGED <<box, file, named, clock, missed>> /\ sweep[p].pc = "evict"
        /\ index' = index \/ Buries(p, index, index')
    BY <1>10, TombstoneEffect
  <2> QED BY <1>1, <1>2, <1>3, <1>10, <2>1 DEF TidyIndex
<1>11. CASE SweepOrphans(p) \/ ScanFails(p)
  <2>1. /\ UNCHANGED <<box, named, clock, missed>> /\ sweep[p].pc \notin {"off", "adopt"}
        /\ Prunes(p, index, index') /\ \E gone : file' = Without(gone)
    BY <1>11, OrphansEffect, ScanFailsEffect
  <2> QED BY <1>1, <1>4, <2>1 DEF TidyIndex
<1> QED BY <1>5, <1>6, <1>7, <1>8, <1>9, <1>10, <1>11 DEF Sweep

\* One sweep is quiet for every other.
LEMMA SweeperQuiet ==
    ASSUME TypeInv, NEW p \in Sweepers, NEW q,
           \/ \E op \in {"list", "cleanup", "purge"} : Begin(p, op)
           \/ Sweep(p) \/ Interrupt(p)
    PROVE  Quiet(q)
<1>1. UNCHANGED <<box, named, clock, missed>> /\ Fewer /\ TidyIndex(p)
  BY SweeperEffect
<1>2. \A w \in Runners, k \in Kinds : file[w][k] = 0 => file'[w][k] = 0
  BY <1>1 DEF Fewer
<1>3. CASE \E S : Grows(index, index', S) /\ SamePaths(index, index')
  BY <1>1, <1>2, <1>3, TidyQuiet
<1>4. CASE sweep[p].at = clock /\ (Buries(p, index, index') \/ Prunes(p, index, index'))
  BY <1>1, <1>2, <1>4, TidyQuiet
<1> QED BY <1>1, <1>3, <1>4 DEF TidyIndex

\* What a sweep has read, and what it has dealt with, after every step.
LEMMA NextSeen ==
    ASSUME TypeInv, ChosenInv, InventoryInv, SeenInv, [ArtifactsNext]_artifactVars
    PROVE  SeenInv'
<1> SUFFICES ASSUME NEW p \in Sweepers PROVE SeenBy(p)'
  BY DEF SeenInv
<1>0. SeenBy(p)
  BY DEF SeenInv
<1>1. CASE sweep'[p].pc \notin {"space", "evict"}
  BY <1>1 DEF SeenBy
<1>2. CASE sweep'[p] = NoSweep
  BY <1>1, <1>2, NoSweepType
<1>3. CASE sweep'[p] = sweep[p] /\ Quiet(p)
  BY <1>0, <1>3, QuietSeen
<1>4. ASSUME sweep'[p] = sweep[p] \/ sweep'[p] = NoSweep, sweep[p].pc # "off" => Quiet(p)
      PROVE  SeenBy(p)'
  <2>1. CASE sweep[p].pc = "off"
    BY <1>1, <1>4, <2>1, NoSweepType
  <2> QED BY <1>2, <1>3, <1>4, <2>1
<1>5. ASSUME NEW w \in Runners, Start(w) \/ Exit(w) \/ Lose(w) \/ Watch(w) PROVE SeenBy(p)'
  <2>1. sweep'[p] = sweep[p]
    BY <1>5, ContainerEffect, WatchSteps DEF WatchEffect
  <2> QED BY <1>4, <1>5, <2>1, OthersQuiet
<1>6. CASE ControllerCrash \/ RuntimeClose
  BY <1>4, <1>6, EndEffect, EndQuiet
<1>7. CASE ClockTick \/ DamageJournal \/ UNCHANGED artifactVars
  <2>1. UNCHANGED <<box, index, file, sweep, missed>> /\ (clock' = clock \/ Busy = {})
    BY <1>7, IdleEffect
  <2>2. CASE clock' = clock
    BY <1>3, <2>1, <2>2 DEF Quiet, Recent
  <2>3. CASE Busy = {}
    BY <1>1, <2>1, <2>3 DEF Busy
  <2> QED BY <2>1, <2>2, <2>3
<1>8. CASE Load(p)
  <2>1. CASE sweep'[p] # NoSweep
    <3>1. /\ sweep'[p].seen = index /\ sweep'[p].pc # "evict" /\ UNCHANGED <<index, clock>>
      BY <1>8, <2>1, LoadEffect
    <3> QED BY <3>1 DEF SeenBy, Recent
  <2> QED BY <1>2, <2>1
<1>9. CASE SweepUnreferenced(p)
  <2>1. /\ sweep[p].pc = "space" /\ sweep'[p].pc = "evict" /\ sweep'[p].seen = sweep[p].seen
        /\ sweep'[p].adopted = sweep[p].adopted /\ sweep'[p].todo = Candidates(p)
        /\ UNCHANGED <<box, index, clock, missed>>
    BY <1>9, UnreferencedEffect DEF SameSweep
  <2>2. Candidates(p)' = Candidates(p)
    BY <2>1, SameCandidates
  <2>3. \A w : /\ Paths(sweep[p].seen[w])' = Paths(sweep[p].seen[w])
               /\ Paths(index[w])' = Paths(index[w])
    BY <2>1 DEF Paths
  <2> QED BY <1>0, <2>1, <2>2, <2>3 DEF SeenBy, Recent
<1>10. ASSUME NEW w \in Runners, Evict(p, w) PROVE SeenBy(p)'
  <2>1. /\ sweep[p].pc = "evict" /\ sweep'[p].pc = "evict" /\ sweep'[p].seen = sweep[p].seen
        /\ sweep'[p].adopted = sweep[p].adopted /\ sweep'[p].todo = sweep[p].todo \ {w}
        /\ UNCHANGED <<box, index, clock, missed>>
    BY <1>10, EvictEffect DEF SameSweep
  <2>2. Candidates(p)' = Candidates(p)
    BY <2>1, SameCandidates
  <2>3. \A v : /\ Paths(sweep[p].seen[v])' = Paths(sweep[p].seen[v])
               /\ Paths(index[v])' = Paths(index[v])
    BY <2>1 DEF Paths
  <2>4. PICK gone \in SUBSET Mine(p, w) : Took(p, w, gone)
    BY <1>10, EvictOutcome
  <2>5. \A v \in Runners, k \in Kinds :
          file'[v][k] = IF <<v, k>> \in gone THEN 0 ELSE file[v][k]
    BY <2>4, WithoutFiles DEF Took
  <2>6. ASSUME NEW v \in Candidates(p) \ (sweep'[p].todo \cup sweep'[p].failed \cup missed),
               box[v] # "lost", NEW k \in Paths(sweep[p].seen[v])
        PROVE  file'[v][k] = 0
    <3>1. v \in Runners /\ k \in Kinds
      BY CatalogType, SweepFields DEF Candidates, Paths
    <3>2. CASE v = w
      <4>1. gone = Mine(p, w)
        BY <2>4, <2>6, <3>2 DEF Took
      <4>2. <<v, k>> \in Files => <<v, k>> \in gone
        BY SMT, <2>6, <3>2, <4>1 DEF Mine
      <4>3. <<v, k>> \notin Files => file[v][k] = 0
        BY SMT, <3>1 DEF Files
      <4> QED BY <2>5, <3>1, <4>2, <4>3
    <3>3. CASE v # w
      <4>1. v \in Candidates(p) \ (sweep[p].todo \cup sweep[p].failed \cup missed)
        BY <2>1, <2>4, <2>6, <3>3 DEF Took
      <4>2. file[v][k] = 0
        BY <1>0, <2>1, <2>6, <4>1 DEF SeenBy
      <4> QED BY <2>5, <3>1, <4>2
    <3> QED BY <3>2, <3>3
  <2> QED BY ZenonT(60), <1>0, <2>1, <2>2, <2>3, <2>6 DEF SeenBy, Recent
<1>11. CASE Adopt(p) \/ CloseStale(p) \/ Tombstone(p) \/ SweepOrphans(p)
  BY <1>1, <1>2, <1>11, AdoptEffect, CloseStaleEffect, TombstoneEffect, OrphansEffect
<1>12. ASSUME NEW op \in {"list", "cleanup", "purge"}, Begin(p, op) PROVE SeenBy(p)'
  BY <1>1, <1>12, BeginEffect
<1>13. ASSUME NEW q \in Sweepers,
              \/ \E op \in {"list", "cleanup", "purge"} : Begin(q, op)
              \/ Sweep(q) \/ Interrupt(q)
       PROVE  SeenBy(p)'
  <2>1. CASE q = p
    <3>1. OwnStep(p) \/ sweep'[p] = NoSweep
      BY <1>13, <2>1, SweeperSteps
    <3> QED BY <1>2, <1>8, <1>9, <1>10, <1>11, <1>12, <3>1 DEF OwnStep
  <2>2. CASE q # p
    <3>1. sweep'[p] = sweep[p]
      BY <1>13, <2>2, SweeperSteps DEF Only
    <3> QED BY <1>3, <1>13, <3>1, SweeperQuiet
  <2> QED BY <2>1, <2>2
<1> QED BY <1>5, <1>6, <1>7, <1>13 DEF ArtifactsNext
-----------------------------------------------------------------------------
(* Records and tombstones. *)
\* What a cleanup freezes has been finalised and is in the index.
LEMMA BatchIsFinal ==
    ASSUME TypeInv, ChosenInv, SeenInv, NEW p \in Sweepers, sweep[p].pc = "evict",
           NEW w \in sweep[p].batch
    PROVE  /\ w \in DOMAIN index /\ index[w].finalized # 0
           /\ w \notin sweep[p].adopted /\ w \in Runners
<1>1. /\ w \in DOMAIN sweep[p].seen /\ sweep[p].seen[w].finalized # 0
      /\ sweep[p].seen[w].tomb = 0 /\ w \notin sweep[p].adopted
  BY DEF ChosenInv, ChosenBy, Candidates, LiveRecord
<1>2. w \in Runners
  BY <1>1, CatalogType, SweepFields
<1> QED BY <1>1, <1>2 DEF SeenInv, SeenBy, Recent

\* Growing and pruning keep the records well-formed and bring no tombstones.
LEMMA GrowsRecords ==
    ASSUME RecordInv, NEW p, NEW S,
           Grows(index, index', S) \/ Prunes(p, index, index') \/ UNCHANGED index
    PROVE  /\ RecordInv'
           /\ \A w \in Tombstoned(index') : w \in Tombstoned(index) /\ index'[w] = index[w]
<1>1. CASE Grows(index, index', S)
  BY <1>1 DEF Grows, RecordInv, Tombstoned
<1>2. CASE Prunes(p, index, index')
  BY <1>2 DEF Prunes, RecordInv, Tombstoned
<1>3. CASE UNCHANGED index
  BY <1>3 DEF RecordInv, Tombstoned
<1> QED BY <1>1, <1>2, <1>3

\* Every step but Tombstone grows or prunes the index.
LEMMA IndexSteps ==
    ASSUME TypeInv, [ArtifactsNext]_artifactVars
    PROVE  \/ \E S : Grows(index, index', S)
           \/ UNCHANGED index
           \/ \E p \in Sweepers : Prunes(p, index, index') \/ Tombstone(p)
<1>1. ASSUME NEW w \in Runners, Start(w) \/ Exit(w) \/ Lose(w) PROVE UNCHANGED index
  BY <1>1, ContainerEffect
<1>2. ASSUME NEW w \in Runners, Watch(w) PROVE \E S : Grows(index, index', S)
  BY <1>2, WatchSteps DEF WatchEffect
<1>3. ASSUME NEW p \in Sweepers,
             \/ \E op \in {"list", "cleanup", "purge"} : Begin(p, op)
             \/ Sweep(p) \/ Interrupt(p)
      PROVE  \/ \E S : Grows(index, index', S)
             \/ Prunes(p, index, index') \/ Tombstone(p)
  <2>1. TidyIndex(p)
    BY <1>3, SweeperEffect
  <2> QED BY <2>1 DEF TidyIndex
<1>4. CASE ControllerCrash \/ RuntimeClose
  BY <1>4, EndEffect
<1>5. CASE ClockTick \/ DamageJournal \/ UNCHANGED artifactVars
  BY <1>5, IdleEffect
<1> QED BY <1>1, <1>2, <1>3, <1>4, <1>5 DEF ArtifactsNext

\* The records stay well-formed.
LEMMA NextRecord ==
    ASSUME TypeInv, ChosenInv, SeenInv, RecordInv, [ArtifactsNext]_artifactVars
    PROVE  RecordInv'
<1>1. ASSUME NEW p \in Sweepers, Tombstone(p) PROVE RecordInv'
  <2>1. sweep[p].pc = "evict" /\ (UNCHANGED index \/ Buries(p, index, index'))
    BY <1>1, TombstoneEffect
  <2>2. CASE Buries(p, index, index')
    <3>1. sweep[p].batch \subseteq DOMAIN index /\ \A w \in sweep[p].batch : index[w].finalized # 0
      BY <2>1, BatchIsFinal
    <3> QED BY <2>2, <3>1 DEF Buries, RecordInv
  <2> QED BY <2>1, <2>2 DEF RecordInv
<1> QED BY <1>1, IndexSteps, GrowsRecords

\* A tombstone stays clear of existing containers and of its files.
LEMMA NextTombstone ==
    ASSUME TypeInv, ChosenInv, InventoryInv, SeenInv, RecordInv, TombstoneInv,
           [ArtifactsNext]_artifactVars
    PROVE  TombstoneInv'
<1> DEFINE Same == \A w \in Tombstoned(index') : w \in Tombstoned(index) /\ index'[w] = index[w]
<1>0. /\ \A w \in Tombstoned(index) : w \in Runners /\ box[w] # "none"
      /\ \A w, k : k \in Paths(index[w]) => k \in Kinds
  BY CatalogType DEF InventoryInv, Tombstoned, TypeInv, Paths
<1>1. ASSUME Same, Fewer, UNCHANGED <<box, missed>> PROVE TombstoneInv'
  <2>1. Exists' = Exists
    BY <1>1 DEF Exists
  <2>2. \A w \in Tombstoned(index') : Paths(index'[w]) = Paths(index[w])
    BY <1>1
  <2> QED BY <1>0, <1>1, <2>1, <2>2 DEF TombstoneInv, TombstoneIsEmpty, Fewer
<1>2. ASSUME \/ UNCHANGED index
             \/ \E S : Grows(index, index', S)
             \/ \E p : Prunes(p, index, index')
      PROVE  Same
  BY <1>2, GrowsRecords
<1>4. ASSUME NEW w \in Runners, Start(w) \/ Exit(w) \/ Lose(w) PROVE TombstoneInv'
  <2>0. missed' = missed \/ missed' = missed \cup {w}
    BY <1>4, ContainerEffect
  <2>1. /\ UNCHANGED <<index, file>> /\ missed \subseteq missed'
        /\ \A v \in Runners \ {w} : box'[v] = box[v]
        /\ \/ box[w] = "none"
           \/ box[w] \in {"live", "exited"} /\ w \in Exists
    BY <1>4, <2>0, ContainerEffect DEF Exists
  <2>2. ASSUME NEW v \in Tombstoned(index) \ missed' PROVE v # w
    BY <1>0, <2>1 DEF TombstoneInv
  <2>3. ASSUME NEW v \in Tombstoned(index') \ missed'
        PROVE  /\ v \notin Exists' /\ v \in Tombstoned(index) \ missed /\ box'[v] = box[v]
               /\ index'[v] = index[v]
    BY <1>0, <2>1, <2>2 DEF TombstoneInv, Exists
  <2>4. ASSUME NEW v \in Tombstoned(index') \ missed', box'[v] # "lost",
               NEW k \in Paths(index'[v])
        PROVE  file'[v][k] = 0
    <3>1. file'[v] = file[v] /\ k \in Paths(index[v]) /\ box[v] # "lost"
          /\ v \in Tombstoned(index) \ missed
      BY <2>1, <2>3, <2>4
    <3> QED BY <3>1 DEF TombstoneInv, TombstoneIsEmpty
  <2> QED BY <2>3, <2>4 DEF TombstoneInv, TombstoneIsEmpty
<1>5. ASSUME NEW w \in Runners, Watch(w) PROVE TombstoneInv'
  <2>1. /\ watch[w] # "off" /\ missed' = missed /\ Same
        /\ \A v \in Runners \ {w} : box'[v] = box[v] /\ file'[v] = file[v]
        /\ box'[w] = box[w] \/ (box[w] = "exited" /\ box'[w] = "removed")
    BY <1>2, <1>5, WatchSteps DEF WatchEffect
  <2>2. w \in Exists \/ box[w] = "lost"
    BY <2>1 DEF InventoryInv, Exists
  <2>3. ASSUME NEW v \in Tombstoned(index') \ missed'
        PROVE  /\ v \notin Exists' /\ v \in Tombstoned(index) \ missed
               /\ index'[v] = index[v]
               /\ box'[v] # "lost" => box[v] # "lost" /\ file'[v] = file[v]
    BY <1>0, <2>1, <2>2 DEF TombstoneInv, Exists
  <2>4. ASSUME NEW v \in Tombstoned(index') \ missed', box'[v] # "lost",
               NEW k \in Paths(index'[v])
        PROVE  file'[v][k] = 0
    <3>1. file'[v] = file[v] /\ k \in Paths(index[v]) /\ box[v] # "lost"
          /\ v \in Tombstoned(index) \ missed
      BY <2>3, <2>4
    <3> QED BY <3>1 DEF TombstoneInv, TombstoneIsEmpty
  <2> QED BY <2>3, <2>4 DEF TombstoneInv, TombstoneIsEmpty
<1>7. ASSUME NEW p \in Sweepers, Tombstone(p) PROVE TombstoneInv'
  <2>1. /\ sweep[p].pc = "evict" /\ UNCHANGED <<box, file, missed>>
        /\ UNCHANGED index \/ Buries(p, index, index')
    BY <1>7, TombstoneEffect
  <2>2. Exists' = Exists
    BY <2>1 DEF Exists
  <2>3. CASE Buries(p, index, index')
    <3>1. ASSUME NEW w \in Tombstoned(index') \ missed
          PROVE  w \notin Exists /\ (box[w] # "lost" =>
                   \A k \in Paths(index'[w]) : file[w][k] = 0)
      <4>1. CASE w \in Tombstoned(index)
        <5>1. index'[w] = index[w]
          BY <2>3, <4>1 DEF Buries, Tombstoned
        <5> QED BY <3>1, <4>1, <5>1 DEF TombstoneInv, TombstoneIsEmpty
      <4>2. CASE w \notin Tombstoned(index)
        <5>1. w \in sweep[p].batch /\ w \in DOMAIN index /\ index[w].tomb = 0
          <6>1. \A v \in sweep[p].batch : v \in DOMAIN index
            BY <2>1, BatchIsFinal
          <6> QED BY <2>3, <3>1, <4>2, <6>1 DEF Buries, Tombstoned
        <5>2. /\ w \in Candidates(p) \ (sweep[p].todo \cup sweep[p].failed \cup missed)
              /\ w \in DOMAIN sweep[p].seen /\ w \in Runners /\ w \notin sweep[p].adopted
              /\ sweep[p].seen[w].tomb = 0
          BY <2>1, <3>1, <5>1, BatchIsFinal DEF ChosenInv, ChosenBy, Candidates, LiveRecord
        <5>3. w \notin Exists
          BY <2>1, <3>1, <5>2 DEF InventoryInv, InventoryOf
        <5>4. Paths(index'[w]) = Paths(index[w])
          BY <2>3, <5>1 DEF Buries
        <5>5. box[w] # "lost" => Paths(index[w]) = Paths(sweep[p].seen[w])
          BY <2>1, <3>1, <5>2 DEF SeenInv, SeenBy
        <5>6. box[w] # "lost" => \A k \in Paths(sweep[p].seen[w]) : file[w][k] = 0
          BY <2>1, <5>2 DEF SeenInv, SeenBy
        <5> QED BY <5>3, <5>4, <5>5, <5>6
      <4> QED BY <4>1, <4>2
    <3> QED BY <2>1, <2>2, <3>1 DEF TombstoneInv, TombstoneIsEmpty
  <2>4. CASE UNCHANGED index
    BY <1>1, <1>2, <2>1, <2>4 DEF Fewer
  <2> QED BY <2>1, <2>3, <2>4
<1>8. ASSUME NEW p \in Sweepers,
             \/ \E op \in {"list", "cleanup", "purge"} : Begin(p, op)
             \/ Sweep(p) \/ Interrupt(p)
      PROVE  TombstoneInv'
  <2>1. UNCHANGED <<box, missed>> /\ Fewer /\ TidyIndex(p)
    BY <1>8, SweeperEffect
  <2>2. Tombstone(p) \/ Same
    BY <1>2, <2>1 DEF TidyIndex
  <2> QED BY <1>1, <1>7, <2>1, <2>2
<1>10. CASE ControllerCrash \/ RuntimeClose
  <2>1. /\ UNCHANGED <<box, index, missed>>
        /\ \A w \in Runners, k \in Kinds : file'[w][k] = file[w][k] \/ watch[w] # "off"
    BY <1>10, EndEffect
  <2>2. ASSUME NEW w \in Tombstoned(index) \ missed, box[w] # "lost" PROVE watch[w] = "off"
    BY <1>0, <2>2 DEF TombstoneInv, InventoryInv, Exists
  <2>3. Exists' = Exists
    BY <2>1 DEF Exists
  <2>4. ASSUME NEW w \in Tombstoned(index) \ missed, box[w] # "lost", NEW k \in Paths(index[w])
        PROVE  file'[w][k] = 0
    <3>1. file[w][k] = 0
      BY <2>4 DEF TombstoneInv, TombstoneIsEmpty
    <3> QED BY <1>0, <2>1, <2>2, <2>4, <3>1
  <2>5. Tombstoned(index') = Tombstoned(index)
    BY <2>1
  <2> QED BY <2>1, <2>3, <2>4, <2>5 DEF TombstoneInv, TombstoneIsEmpty
<1>11. CASE ClockTick \/ DamageJournal \/ UNCHANGED artifactVars
  BY <1>1, <1>2, <1>11, IdleEffect DEF Fewer
<1> QED BY <1>4, <1>5, <1>8, <1>10, <1>11 DEF ArtifactsNext
-----------------------------------------------------------------------------
(* The evidence of what is about to be removed. *)
\* No step takes its evidence from a container that is about to be removed.
LEMMA NextRemoval ==
    ASSUME TypeInv, ChosenInv, InventoryInv, RemovalInv, [ArtifactsNext]_artifactVars
    PROVE  RemovalInv'
<1>0. SUFFICES ASSUME NEW w \in Exists' \ missed', watch'[w] = "remove"
               PROVE  /\ \A k \in Kinds : file'[w][k] # 0
                      /\ LiveRecord(index', w) /\ index'[w].finalized # 0
  BY DEF RemovalInv
<1>1. w \in Runners
  BY DEF Exists
<1>2. CASE Watch(w)
  BY <1>0, <1>1, <1>2, WatchSteps DEF WatchEffect
<1>3. CASE w \in Exists \ missed /\ watch[w] = "remove"
  <2>1. /\ \A k \in Kinds : file[w][k] # 0
        /\ LiveRecord(index, w) /\ index[w].finalized # 0
    BY <1>3 DEF RemovalInv
  <2>2. LiveKept /\ RecordsKept
    BY NextLiveKept
  <2> QED BY <1>3, <2>1, <2>2 DEF LiveKept, RecordsKept
<1>4. ASSUME box'[w] = box[w], missed' = missed, watch'[w] = watch[w]
      PROVE  w \in Exists \ missed /\ watch[w] = "remove"
  BY <1>0, <1>4 DEF Exists
<1>5. ASSUME NEW v \in Runners, Start(v) \/ Exit(v) \/ Lose(v)
      PROVE  w \in Exists \ missed /\ watch[w] = "remove"
  BY <1>0, <1>1, <1>5, ContainerEffect DEF Exists
<1>6. ASSUME NEW v \in Runners, Watch(v), v # w
      PROVE  w \in Exists \ missed /\ watch[w] = "remove"
  BY ZenonT(60), <1>1, <1>4, <1>6, WatchSteps DEF WatchEffect
<1>7. ASSUME NEW p \in Sweepers, EnsureWatch(p)
      PROVE  w \in Exists \ missed /\ watch[w] = "remove"
  BY <1>0, <1>1, <1>4, <1>7, EnsureWatchEffect
<1>8. ASSUME NEW p \in Sweepers,
             \/ \E op \in {"list", "cleanup", "purge"} : Begin(p, op)
             \/ Sweep(p) \/ Interrupt(p),
             ~EnsureWatch(p)
      PROVE  w \in Exists \ missed /\ watch[w] = "remove"
  <2>1. UNCHANGED <<box, missed>>
    BY <1>8, SweeperEffect
  <2>2. UNCHANGED watch
    BY <1>8 DEF Begin, Sweep, Interrupt, Adopt, CloseStale, Load, SweepUnreferenced, Evict,
       Tombstone, SweepOrphans, ScanFails, Purge, SweepFrame
  <2> QED BY <1>4, <2>1, <2>2
<1>12. ASSUME ControllerCrash \/ RuntimeClose PROVE FALSE
  BY <1>0, <1>1, <1>12, EndEffect
<1>13. ASSUME ClockTick \/ DamageJournal \/ UNCHANGED artifactVars
       PROVE  w \in Exists \ missed /\ watch[w] = "remove"
  BY <1>4, <1>13, IdleEffect
<1> QED BY ZenonT(60), <1>2, <1>3, <1>5, <1>6, <1>7, <1>8, <1>12, <1>13 DEF ArtifactsNext
-----------------------------------------------------------------------------
(* The invariant of the evidence, and what follows from it. *)
SafeInv == /\ TypeInv /\ ChosenInv /\ InventoryInv /\ SeenInv
           /\ RecordInv /\ TombstoneInv /\ RemovalInv

\* The initial evidence is of closed records, or of none.
LEMMA InitSafe ==
    ASSUME ArtifactsInit
    PROVE  SafeInv
<1>1. PICK past \in SUBSET Runners : \E time \in [past -> 1..2], shed \in SUBSET past :
         \E now0 \in 2..MaxTime : ArtifactsInitWith(time, shed, now0, 0, 0)
  BY DEF ArtifactsInit
<1>2. PICK time \in [past -> 1..2], shed \in SUBSET past, now0 \in 2..MaxTime :
         ArtifactsInitWith(time, shed, now0, 0, 0)
  BY <1>1
<1>3. /\ box = [w \in Runners |-> IF w \in past THEN "removed" ELSE "none"]
      /\ watch = [w \in Runners |-> "off"] /\ named = shed \X Kinds
      /\ sweep = [p \in Sweepers |-> NoSweep] /\ missed = {}
  BY <1>2 DEF ArtifactsInitWith
<1>4. /\ DOMAIN index = past \ shed
      /\ \A w \in DOMAIN index : index[w].container /\ ~index[w].open /\ index[w].tomb = 0
  BY <1>2 DEF ArtifactsInitWith, Blank
<1>5. Exists = {} /\ \A w \in Runners : box[w] = IF w \in past THEN "removed" ELSE "none"
  BY <1>3 DEF Exists
<1>6. ChosenInv
  BY <1>3, NoSweepType DEF ChosenInv, ChosenBy
<1>7. InventoryInv
  <2>1. \A w \in past : box[w] = "removed"
    BY <1>5
  <2>2. \A f \in named : f[1] \in shed
    BY <1>3
  <2>3. \A p \in Sweepers : InventoryOf(p)
    BY <1>3, NoSweepType DEF InventoryOf
  <2> QED BY <1>1, <1>2, <1>3, <1>4, <2>1, <2>2, <2>3 DEF InventoryInv
<1>8. SeenInv
  BY <1>3, NoSweepType DEF SeenInv, SeenBy
<1>9. RecordInv /\ Tombstoned(index) = {}
  BY <1>4 DEF RecordInv, Tombstoned
<1>10. TombstoneInv /\ RemovalInv
  BY <1>5, <1>9 DEF TombstoneInv, TombstoneIsEmpty, RemovalInv
<1> QED BY <1>6, <1>7, <1>8, <1>9, <1>10, InitType DEF SafeInv

\* The invariant is inductive.
LEMMA NextSafe ==
    ASSUME SafeInv, [ArtifactsNext]_artifactVars
    PROVE  SafeInv'
  BY NextType, NextChosen, NextInventory, NextSeen, NextRecord, NextTombstone, NextRemoval
     DEF SafeInv

\* The artifacts of workers keep the invariant of the evidence.
THEOREM EvidenceInvariant == ArtifactsSpec => []SafeInv
  BY InitSafe, NextSafe, PTL DEF ArtifactsSpec

\* A tombstone says that the files its record named are gone, whatever watches,
\* sweeps, failed removals and ends of the controller came before it.
THEOREM TombstonesAreEmpty == ArtifactsSpec => []TombstoneIsEmpty
<1>1. SafeInv => TombstoneIsEmpty
  BY DEF SafeInv, TombstoneInv
<1> QED BY <1>1, EvidenceInvariant, PTL

\* A purge deletes nothing that a readable journal names, and its end is no other step's.
LEMMA NextJournalKept ==
    ASSUME SafeInv, [ArtifactsNext]_artifactVars
    PROVE  JournalKept
<1>0. SUFFICES ASSUME NEW p \in Sweepers, sweep[p].pc = "purge", sweep'[p].pc = "off", legible,
                      NEW f \in named
               PROVE  file'[f[1]][f[2]] = file[f[1]][f[2]]
  BY DEF JournalKept
<1>1. TypeInv /\ InventoryInv
  BY DEF SafeInv
<1>2. f[1] \in Runners /\ f[2] \in Kinds /\ f = <<f[1], f[2]>>
  BY SMT, <1>1 DEF TypeInv
<1>3. box[f[1]] = "removed" /\ watch[f[1]] = "off"
  BY <1>1, <1>2 DEF InventoryInv
<1>4. sweep'[p] # sweep[p]
  BY <1>0
<1>5. CASE Purge(p)
  <2>1. PICK gone \in SUBSET Purgeable(p) : file' = Without(gone)
    BY <1>1, <1>5, PurgeEffect
  <2>2. f \notin gone
    BY <1>0, <2>1 DEF Purgeable
  <2>3. file'[f[1]][f[2]] = IF <<f[1], f[2]>> \in gone THEN 0 ELSE file[f[1]][f[2]]
    BY SMT, <1>1, <1>2, <2>1, WithoutFiles
  <2> QED BY <1>2, <2>2, <2>3
<1>6. CASE ControllerCrash \/ RuntimeClose
  BY <1>1, <1>2, <1>3, <1>6, EndEffect
<1>7. CASE Interrupt(p)
  BY <1>1, <1>7, InterruptEffect
<1>8. ASSUME NEW w \in Runners, Start(w) \/ Exit(w) \/ Lose(w) \/ Watch(w) PROVE FALSE
  BY <1>1, <1>4, <1>8, ContainerEffect, WatchSteps DEF WatchEffect
<1>9. CASE ClockTick \/ DamageJournal \/ UNCHANGED artifactVars
  BY <1>1, <1>4, <1>9, IdleEffect
<1>10. ASSUME NEW q \in Sweepers, q # p,
              \/ \E op \in {"list", "cleanup", "purge"} : Begin(q, op)
              \/ Sweep(q) \/ Interrupt(q)
       PROVE  FALSE
  BY <1>1, <1>4, <1>10, SweeperSteps DEF Only
<1>11. ASSUME NEW op \in {"list", "cleanup", "purge"}, Begin(p, op) PROVE FALSE
  BY <1>0, <1>1, <1>11, BeginEffect
<1>12. ASSUME \/ Adopt(p) \/ CloseStale(p) \/ Load(p) \/ SweepUnreferenced(p) \/ Tombstone(p)
              \/ SweepOrphans(p) \/ ScanFails(p) \/ EnsureWatch(p)
       PROVE  FALSE
  BY <1>0, <1>1, <1>12, AdoptEffect, CloseStaleEffect, LoadEffect, UnreferencedEffect,
     TombstoneEffect, OrphansEffect, ScanFailsEffect, EnsureWatchEffect
<1>13. ASSUME NEW w \in Runners, Evict(p, w) PROVE FALSE
  BY <1>0, <1>1, <1>13, EvictEffect
<1>14. Sweep(p) => Purge(p)
  BY <1>12, <1>13 DEF Sweep
<1> QED
  BY ZenonT(60), <1>5, <1>6, <1>7, <1>8, <1>9, <1>10, <1>11, <1>14 DEF ArtifactsNext

\* No step of a watch or of a sweep, in the controller or in a command, deletes the
\* evidence of an existing container that the running sweeps' inventories had to know, or
\* freezes its record; and no purge deletes what a drop journal that it can read names.
THEOREM ProtectedIsKept == ArtifactsSpec => ProtectedKept
<1>1. SafeInv /\ [ArtifactsNext]_artifactVars => [LiveKept /\ JournalKept]_artifactVars
  BY NextLiveKept, NextJournalKept DEF SafeInv
<1> QED BY <1>1, EvidenceInvariant, PTL DEF ArtifactsSpec, ProtectedKept

\* Only the watch's last step removes a container.
LEMMA OnlyWatchRemoves ==
    ASSUME SafeInv, [ArtifactsNext]_artifactVars,
           NEW w \in Runners \ missed, box[w] = "exited", box'[w] = "removed"
    PROVE  w \in Exists \ missed /\ watch[w] = "remove"
<1>1. TypeInv /\ w \in Exists \ missed
  BY DEF SafeInv, Exists
<1>2. ASSUME NEW v \in Runners, Watch(v) PROVE watch[w] = "remove"
  BY <1>1, <1>2, WatchSteps DEF WatchEffect
<1>3. ASSUME NEW v \in Runners, Start(v) \/ Exit(v) \/ Lose(v) PROVE FALSE
  BY <1>1, <1>3, ContainerEffect
<1>4. CASE UNCHANGED box
  BY <1>4
<1>5. ASSUME NEW p \in Sweepers,
             \/ \E op \in {"list", "cleanup", "purge"} : Begin(p, op)
             \/ Sweep(p) \/ Interrupt(p)
      PROVE  UNCHANGED box
  BY <1>1, <1>5, SweeperEffect
<1>6. ClockTick \/ DamageJournal \/ UNCHANGED artifactVars => UNCHANGED box
  BY <1>1, IdleEffect
<1>7. ControllerCrash \/ RuntimeClose => UNCHANGED box
  BY <1>1, EndEffect
<1> QED BY ZenonT(60), <1>1, <1>2, <1>3, <1>4, <1>5, <1>6, <1>7 DEF ArtifactsNext

\* A container is removed only over the whole of its evidence: its log, its archive and
\* its resource evidence are on disk and its record is live and finalised.
THEOREM RemovalIsSafe == ArtifactsSpec => RemovedOverEvidence
<1> DEFINE Removal == \A w \in Runners \ missed : box[w] = "exited" /\ box'[w] = "removed" =>
                        /\ \A k \in Kinds : file[w][k] # 0
                        /\ LiveRecord(index, w) /\ index[w].finalized # 0
<1>1. SafeInv /\ [ArtifactsNext]_artifactVars => [Removal]_artifactVars
  BY OnlyWatchRemoves DEF SafeInv, RemovalInv
<1> QED BY <1>1, EvidenceInvariant, PTL DEF ArtifactsSpec, RemovedOverEvidence
-----------------------------------------------------------------------------
(* A sweep alone. *)
\* Beside a sweeper's step, another sweep is not alone; and where anything is settled
\* there is no other.
LEMMA OthersOff ==
    ASSUME TypeInv, AloneInv, NEW p \in Sweepers,
           \/ \E op \in {"list", "cleanup", "purge"} : Begin(p, op)
           \/ Sweep(p) \/ Interrupt(p),
           NEW q \in Sweepers, q # p
    PROVE  /\ sweep'[q] = sweep[q] /\ q \notin alone'
           /\ settled' = "no" \/ sweep[q].pc = "off"
<1>0. sweep'[q] = sweep[q]
  BY SweeperSteps DEF Only
<1>1. ASSUME NEW op \in {"list", "cleanup", "purge"}, Begin(p, op)
      PROVE  q \notin alone' /\ (settled' = "no" \/ sweep[q].pc = "off")
  <2>1. /\ Busy = {} => alone' = {p}
        /\ Busy # {} => alone' = {} /\ settled' = "no"
    BY <1>1, BeginEffect
  <2> QED BY <2>1 DEF Busy
<1>2. ASSUME sweep[p].pc # "off", UNCHANGED alone, settled' # "no" => settled # "no"
      PROVE  q \notin alone' /\ (settled' = "no" \/ sweep[q].pc = "off")
  <2>1. p \in Busy
    BY <1>2 DEF Busy
  <2>2. q \notin alone
    BY <2>1 DEF AloneInv
  <2>3. settled # "no" => q \notin Busy
    BY <2>2 DEF AloneInv
  <2> QED BY <1>2, <2>2, <2>3 DEF Busy
<1>3. CASE Adopt(p) \/ CloseStale(p) \/ Load(p)
  BY <1>0, <1>2, <1>3, AdoptEffect, CloseStaleEffect, LoadEffect
<1>4. CASE SweepUnreferenced(p) \/ Tombstone(p)
  BY <1>0, <1>2, <1>4, UnreferencedEffect, TombstoneEffect
<1>5. CASE \E w \in Runners : Evict(p, w)
  <2>1. sweep[p].pc = "evict" /\ UNCHANGED <<alone, settled>>
    BY <1>5, EvictEffect
  <2> QED BY <1>0, <1>2, <2>1
<1>6. CASE SweepOrphans(p) \/ ScanFails(p)
  BY <1>0, <1>2, <1>6, OrphansEffect, ScanFailsEffect
<1>7. CASE EnsureWatch(p) \/ Purge(p) \/ Interrupt(p)
  BY <1>0, <1>2, <1>7, EnsureWatchEffect, PurgeEffect, InterruptEffect
<1> QED BY <1>0, <1>1, <1>3, <1>4, <1>5, <1>6, <1>7 DEF Sweep

\* A sweep that began alone stays alone until another begins.
LEMMA NextAlone ==
    ASSUME TypeInv, AloneInv, [ArtifactsNext]_artifactVars
    PROVE  AloneInv'
<1>0. alone' \subseteq Sweepers => Busy' \subseteq Sweepers
  BY DEF Busy
<1>1. ASSUME Busy' \subseteq Busy, UNCHANGED alone, settled' # "no" => settled # "no"
      PROVE  AloneInv'
  BY <1>1 DEF AloneInv
<1>2. ASSUME NEW w \in Runners, Start(w) \/ Exit(w) \/ Lose(w) \/ Watch(w) PROVE AloneInv'
  <2>1. UNCHANGED <<sweep, alone>> /\ settled' \in {settled, "no"}
    BY <1>2, ContainerEffect, WatchSteps DEF WatchEffect
  <2> QED BY <1>1, <2>1 DEF Busy
<1>3. ASSUME NEW p \in Sweepers,
             \/ \E op \in {"list", "cleanup", "purge"} : Begin(p, op)
             \/ Sweep(p) \/ Interrupt(p)
      PROVE  AloneInv'
  <2>1. \A q \in Sweepers \ {p} :
          /\ sweep'[q] = sweep[q] /\ q \notin alone'
          /\ settled' = "no" \/ sweep[q].pc = "off"
    BY <1>3, OthersOff
  <2>2. settled' # "no" => Busy' \subseteq {p}
    BY <2>1 DEF Busy
  <2>3. CASE \E op \in {"list", "cleanup", "purge"} : Begin(p, op)
    <3>1. /\ Busy = {} => alone' = {p}
          /\ Busy # {} => alone' = {} /\ settled' = "no"
      BY <2>3, BeginEffect
    <3>2. Busy = {} => Busy' \subseteq {p}
      BY <2>1 DEF Busy
    <3> QED BY <2>2, <3>1, <3>2 DEF AloneInv
  <2>4. ASSUME UNCHANGED alone, p \in Busy, settled' # "no" => settled # "no" PROVE AloneInv'
    <3>1. Busy' \subseteq Busy
      BY <2>1, <2>4 DEF Busy
    <3> QED BY <1>1, <2>4, <3>1
  <2>5. CASE Adopt(p) \/ CloseStale(p) \/ Load(p)
    BY <2>4, <2>5, AdoptEffect, CloseStaleEffect, LoadEffect DEF Busy
  <2>6. CASE SweepUnreferenced(p) \/ Tombstone(p)
    BY <2>4, <2>6, UnreferencedEffect, TombstoneEffect DEF Busy
  <2>7. CASE \E w \in Runners : Evict(p, w)
    <3>1. sweep[p].pc = "evict" /\ UNCHANGED <<alone, settled>>
      BY <2>7, EvictEffect
    <3> QED BY <2>4, <3>1 DEF Busy
  <2>8. CASE SweepOrphans(p) \/ ScanFails(p)
    BY <2>4, <2>8, OrphansEffect, ScanFailsEffect DEF Busy
  <2>9. CASE EnsureWatch(p) \/ Purge(p) \/ Interrupt(p)
    BY <2>4, <2>9, EnsureWatchEffect, PurgeEffect, InterruptEffect DEF Busy
  <2> QED BY <1>3, <2>3, <2>5, <2>6, <2>7, <2>8, <2>9 DEF Sweep
<1>4. CASE ControllerCrash \/ RuntimeClose
  <2>1. /\ \A p \in Sweepers : sweep'[p] = NoSweep \/ sweep'[p] = sweep[p]
        /\ UNCHANGED alone /\ settled' \in {settled, "no"}
    BY <1>4, EndEffect
  <2>2. Busy' \subseteq Busy
    BY <2>1, NoSweepType DEF Busy
  <2> QED BY <1>1, <2>1, <2>2
<1>5. CASE ClockTick \/ DamageJournal \/ UNCHANGED artifactVars
  <2>1. UNCHANGED <<sweep, alone, settled>>
    BY <1>5, IdleEffect
  <2> QED BY <1>1, <2>1 DEF Busy
<1> QED BY <1>2, <1>3, <1>4, <1>5 DEF ArtifactsNext
-----------------------------------------------------------------------------
(* An undisturbed cleanup. *)
\* A step that leaves the index, the containers and, unless they are over, the sweeps.
LEMMA SameSettled ==
    ASSUME SettledInv, index' = index, Exists' = Exists, settled' \in {settled, "no"},
           \A p \in Sweepers : sweep'[p] = sweep[p] \/ sweep'[p] = NoSweep
    PROVE  SettledInv'
<1>1. OpenIsClosed'
  BY DEF SettledInv, OpenIsClosed
<1>2. ASSUME NEW p \in Sweepers PROVE SettledBy(p)'
  <2>1. SettledBy(p)
    BY DEF SettledInv
  <2>2. CASE sweep'[p] = NoSweep
    BY <2>2, NoSweepType DEF SettledBy
  <2>3. CASE sweep'[p] = sweep[p]
    BY <2>1, <2>3 DEF SettledBy
  <2> QED BY <2>2, <2>3
<1> QED BY <1>1, <1>2 DEF SettledInv

\* A sweeper's own step keeps what is settled.
LEMMA OwnSettled ==
    ASSUME TypeInv, ChosenInv, InventoryInv, SeenInv, RecordInv, NEW p \in Sweepers,
           OpenIsClosed, SettledBy(p),
           \/ \E op \in {"list", "cleanup", "purge"} : Begin(p, op)
           \/ Sweep(p) \/ Interrupt(p)
    PROVE  OpenIsClosed' /\ SettledBy(p)'
<1> DEFINE Goal == OpenIsClosed' /\ SettledBy(p)'
<1> SUFFICES Goal
  OBVIOUS
<1>3. ASSUME NEW op \in {"list", "cleanup", "purge"}, Begin(p, op) PROVE Goal
  <2>1. /\ sweep'[p].pc = "adopt" /\ sweep'[p].op = op /\ sweep'[p].adopted = Exists
        /\ settled' = "no" \/ settled' = IF op = "purge" THEN settled ELSE "sweeping"
        /\ UNCHANGED <<box, index>>
    BY <1>3, BeginEffect
  <2>2. Exists' = Exists
    BY <2>1 DEF Exists
  <2> QED BY <2>1, <2>2 DEF SettledBy, OpenIsClosed
<1>4. CASE Adopt(p)
  <2>1. /\ sweep[p].pc = "adopt" /\ Grows(index, index', sweep[p].adopted)
        /\ UNCHANGED <<box, settled>>
        /\ \/ sweep'[p] = NoSweep
           \/ /\ sweep'[p].pc = "close" /\ sweep'[p].op = sweep[p].op /\ sweep'[p].seen = index'
              /\ sweep'[p].adopted = sweep[p].adopted
    BY <1>4, AdoptEffect
  <2>2. Exists' = Exists
    BY <2>1 DEF Exists
  <2>3. settled # "no" => sweep[p].adopted = Exists
    BY <2>1 DEF SettledBy
  <2>4. OpenIsClosed'
    <3> SUFFICES ASSUME settled = "yes", NEW w \in DOMAIN index', index'[w].open
                 PROVE  w \in Exists
      BY <2>1, <2>2 DEF OpenIsClosed
    <3>1. w \notin sweep[p].adopted => w \in DOMAIN index /\ index[w].open
      BY <2>1 DEF Grows
    <3> QED BY <2>3, <3>1 DEF SettledBy, OpenIsClosed
  <2> QED BY <2>1, <2>2, <2>3, <2>4, NoSweepType DEF SettledBy
<1>5. CASE CloseStale(p)
  <2>1. /\ sweep[p].pc = "close" /\ Grows(index, index', Stale(p))
        /\ \A w \in DOMAIN index' : index'[w].open => w \in DOMAIN index /\ index[w].open
        /\ UNCHANGED <<box, settled>>
    BY <1>5, CloseStaleEffect
  <2>2. \/ sweep'[p] = NoSweep
        \/ /\ sweep'[p].op = sweep[p].op /\ sweep'[p].adopted = sweep[p].adopted
           /\ sweep'[p].pc \in {"watch", "load"}
           /\ \A w \in Stale(p) : index'[w].tomb = 0 => ~index'[w].open
    BY <1>5, CloseStaleEffect DEF SameSweep
  <2>3. Exists' = Exists
    BY <2>1 DEF Exists
  <2>4. settled # "no" => sweep[p].adopted = Exists /\ sweep[p].seen = index
    BY <2>1 DEF SettledBy
  <2>5. OpenIsClosed'
    BY <2>1, <2>3 DEF OpenIsClosed
  <2>6. CASE sweep'[p] = NoSweep
    BY <2>5, <2>6, NoSweepType DEF SettledBy
  <2>7. CASE sweep'[p] # NoSweep
    <3>1. ASSUME settled # "no", NEW w \in DOMAIN index', index'[w].open PROVE w \in Exists
      <4>1. w \in DOMAIN index /\ index[w].open
        BY <2>1, <3>1
      <4>2. index[w].tomb = 0 /\ index[w].container
        BY <4>1 DEF RecordInv
      <4>3. index'[w].tomb = 0
        BY <2>1, <3>1, <4>2 DEF Grows
      <4>4. w \notin Stale(p)
        BY <2>2, <2>7, <3>1, <4>3
      <4> QED BY <2>4, <3>1, <4>1, <4>2, <4>4 DEF Stale, LiveRecord
    <3>2. sweep[p].op # "purge" => settled # "yes"
      BY <2>1 DEF SettledBy
    <3> QED BY <2>1, <2>2, <2>3, <2>4, <2>5, <2>7, <3>1, <3>2 DEF SettledBy
  <2> QED BY <2>6, <2>7
<1>11. CASE Load(p)
  <2>1. /\ sweep[p].pc = "load" /\ UNCHANGED <<box, index, settled>>
        /\ \/ sweep'[p] = NoSweep
           \/ /\ sweep'[p].op = sweep[p].op /\ sweep'[p].adopted = sweep[p].adopted
              /\ sweep'[p].pc \in {"purge", "space"} /\ sweep'[p].seen = index
              /\ sweep'[p].pc = "purge" <=> sweep[p].op = "purge"
    BY <1>11, LoadEffect DEF SameSweep
  <2>2. Exists' = Exists
    BY <2>1 DEF Exists
  <2>3. CASE sweep'[p] = NoSweep
    BY <2>1, <2>2, <2>3, NoSweepType DEF SettledBy, OpenIsClosed
  <2>4. CASE sweep'[p] # NoSweep
    BY <2>1, <2>2, <2>4 DEF SettledBy, OpenIsClosed
  <2> QED BY <2>3, <2>4
<1>6. ASSUME SweepUnreferenced(p) \/ \E w \in Runners : Evict(p, w) PROVE Goal
  <2>1. /\ sweep[p].pc \in {"space", "evict"} /\ sweep'[p].pc = "evict" /\ SameSweep(p)
        /\ sweep'[p].seen = sweep[p].seen /\ UNCHANGED <<box, index, settled>>
    BY <1>6, UnreferencedEffect, EvictEffect
  <2>2. Exists' = Exists
    BY <2>1 DEF Exists
  <2> QED BY <2>1, <2>2 DEF SettledBy, OpenIsClosed, SameSweep
<1>7. CASE Tombstone(p)
  <2>1. /\ sweep[p].pc = "evict" /\ sweep'[p].pc = "orphans" /\ SameSweep(p)
        /\ (index' = index \/ Buries(p, index, index')) /\ UNCHANGED <<box, settled>>
    BY <1>7, TombstoneEffect
  <2>2. Exists' = Exists
    BY <2>1 DEF Exists
  <2>3. sweep[p].batch \subseteq DOMAIN index
    BY <2>1, BatchIsFinal
  <2>4. \A w \in DOMAIN index' : index'[w].open => w \in DOMAIN index /\ index[w].open
    BY <2>1, <2>3 DEF Buries
  <2> QED BY <2>1, <2>2, <2>4 DEF SettledBy, OpenIsClosed, SameSweep
<1>8. CASE SweepOrphans(p)
  <2>1. /\ sweep[p].pc = "orphans" /\ Prunes(p, index, index') /\ UNCHANGED box
        /\ settled' = "no" \/ (settled' = "yes" /\ settled = "sweeping")
        /\ sweep'[p] = NoSweep \/ (sweep'[p].pc = "watch" /\ sweep'[p].adopted = sweep[p].adopted)
    BY <1>8, OrphansEffect DEF SameSweep
  <2>2. Exists' = Exists
    BY <2>1 DEF Exists
  <2>3. \A w \in DOMAIN index' : index'[w].open => w \in DOMAIN index /\ index[w].open
    BY <2>1 DEF Prunes
  <2> QED BY <2>1, <2>2, <2>3, NoSweepType DEF SettledBy, OpenIsClosed
<1>9. CASE ScanFails(p)
  BY <1>9, ScanFailsEffect, NoSweepType DEF SettledBy, OpenIsClosed
<1>10. ASSUME EnsureWatch(p) \/ Purge(p) \/ Interrupt(p) PROVE Goal
  <2>1. sweep'[p] = NoSweep /\ UNCHANGED <<box, index, settled>>
    BY <1>10, EnsureWatchEffect, PurgeEffect, InterruptEffect
  <2> QED BY <2>1, NoSweepType DEF SettledBy, OpenIsClosed, Exists
<1> QED
  BY ZenonT(60), <1>3, <1>4, <1>5, <1>6, <1>7, <1>8, <1>9, <1>10, <1>11 DEF Sweep

\* The invariant of undisturbed cleanups is inductive.
LEMMA NextSettled ==
    ASSUME TypeInv, ChosenInv, InventoryInv, SeenInv, RecordInv, AloneInv,
           SettledInv,
           [ArtifactsNext]_artifactVars
    PROVE  SettledInv'
<1>1. ASSUME NEW w \in Runners, Start(w) \/ Exit(w) \/ Lose(w) PROVE SettledInv'
  <2>1. /\ settled' = "no" \/ (settled' = settled /\ box'[w] = "exited")
        /\ UNCHANGED <<index, sweep>>
    BY <1>1, ContainerEffect
  <2>2. CASE settled' = "no"
    BY <2>1, <2>2 DEF SettledInv, SettledBy, OpenIsClosed
  <2>3. CASE box'[w] = "exited"
    <3>1. box[w] = "live" /\ \A v \in Runners \ {w} : box'[v] = box[v]
      BY <1>1, <2>3, ContainerEffect
    <3>2. Exists' = Exists
      BY <2>3, <3>1 DEF Exists
    <3> QED BY <2>1, <3>2, SameSettled
  <2> QED BY <2>1, <2>2, <2>3
<1>2. ASSUME NEW w \in Runners, Watch(w) PROVE SettledInv'
  <2>1. settled' = "no" /\ UNCHANGED sweep
    BY <1>2, WatchSteps DEF WatchEffect
  <2> QED BY <2>1 DEF SettledInv, SettledBy, OpenIsClosed
<1>3. ASSUME NEW p \in Sweepers,
             \/ \E op \in {"list", "cleanup", "purge"} : Begin(p, op)
             \/ Sweep(p) \/ Interrupt(p)
      PROVE  SettledInv'
  <2>1. OpenIsClosed' /\ SettledBy(p)'
    BY <1>3, OwnSettled DEF SettledInv
  <2>2. ASSUME NEW q \in Sweepers \ {p} PROVE SettledBy(q)'
    <3>1. sweep'[q] = sweep[q] /\ (settled' = "no" \/ sweep[q].pc = "off") /\ SettledBy(q)
      BY <1>3, <2>2, OthersOff DEF SettledInv
    <3> QED BY <3>1 DEF SettledBy
  <2> QED BY <2>1, <2>2 DEF SettledInv
<1>4. ASSUME ControllerCrash \/ RuntimeClose PROVE SettledInv'
  <2>1. /\ \A p \in Sweepers : sweep'[p] = NoSweep \/ sweep'[p] = sweep[p]
        /\ UNCHANGED <<box, index>> /\ settled' \in {settled, "no"}
    BY <1>4, EndEffect
  <2> QED BY <2>1, SameSettled DEF Exists
<1>5. CASE ClockTick \/ DamageJournal \/ UNCHANGED artifactVars
  <2>1. UNCHANGED <<box, index, settled, sweep>>
    BY <1>5, IdleEffect
  <2> QED BY <2>1, SameSettled DEF Exists
<1> QED BY <1>1, <1>2, <1>3, <1>4, <1>5 DEF ArtifactsNext
-----------------------------------------------------------------------------
(* What a cleanup counts. *)
\* Whatever goes on beside a sweep alone, the files it may count on do not get fewer.
LEMMA LooseGrows ==
    ASSUME TypeInv, InventoryInv, AloneInv, [ArtifactsNext]_artifactVars,
           NEW p \in Sweepers, p \in alone', sweep[p].pc = "evict",
           sweep'[p] = sweep[p], ~(\E w \in Runners : Evict(p, w))
    PROVE  Loose \subseteq Loose' /\ alone' = alone
<1>0. clock # 0 /\ Exists \subseteq Runners /\ Exists' \subseteq Runners
  BY DEF TypeInv, Exists
<1>1. ASSUME \A w \in Runners, k \in Kinds : file[w][k] # 0 => file'[w][k] # 0,
             Exists' \ missed' \subseteq Exists \ missed
      PROVE  Loose \subseteq Loose'
  BY SMT, <1>1 DEF Loose, Files
<1>2. ASSUME NEW w \in Runners, Start(w) \/ Exit(w) \/ Lose(w)
      PROVE  Loose \subseteq Loose' /\ alone' = alone
  <2>0. Busy # {}
    BY DEF Busy
  <2>1. /\ \A v \in Runners \ {w} : box'[v] = box[v]
        /\ UNCHANGED <<file, alone>> /\ missed \subseteq missed'
        /\ box'[w] # "live" \/ missed' = missed \cup {w}
        /\ box'[w] = "exited" => box[w] = "live"
    <3>1. missed' = missed \/ missed' = missed \cup {w}
      BY <1>2, ContainerEffect
    <3> QED BY <1>2, <2>0, <3>1, ContainerEffect
  <2>2. Exists' \ missed' \subseteq Exists \ missed
    BY <2>1 DEF Exists
  <2> QED BY <1>1, <2>1, <2>2
<1>3. ASSUME NEW w \in Runners, Watch(w) PROVE Loose \subseteq Loose' /\ alone' = alone
  <2>1. /\ \A v \in Runners \ {w} : file'[v] = file[v]
        /\ \A k \in Kinds : file'[w][k] \in {file[w][k], clock}
        /\ \A v \in Runners : box'[v] \in {box[v], "removed"}
        /\ missed' = missed /\ alone' = alone
    BY <1>3, WatchSteps DEF WatchEffect
  <2>2. Exists' \ missed' \subseteq Exists \ missed
    BY <2>1 DEF Exists
  <2>3. \A v \in Runners, k \in Kinds : file[v][k] # 0 => file'[v][k] # 0
    BY <1>0, <2>1
  <2> QED BY <1>1, <2>1, <2>2, <2>3
<1>4. ASSUME ControllerCrash \/ RuntimeClose PROVE Loose \subseteq Loose' /\ alone' = alone
  <2>1. /\ UNCHANGED <<box, alone, missed>>
        /\ \A w \in Runners, k \in Kinds : file'[w][k] \in {file[w][k], clock}
    BY <1>4, EndEffect
  <2>2. Exists' \ missed' \subseteq Exists \ missed
    BY <2>1 DEF Exists
  <2> QED BY <1>0, <1>1, <2>1, <2>2
<1>5. CASE ClockTick \/ DamageJournal \/ UNCHANGED artifactVars
  <2>1. UNCHANGED <<box, file, alone, missed>>
    BY <1>5, IdleEffect
  <2> QED BY <1>1, <2>1 DEF Exists
<1>6. ASSUME NEW q \in Sweepers, q # p,
             \/ \E op \in {"list", "cleanup", "purge"} : Begin(q, op)
             \/ Sweep(q) \/ Interrupt(q)
      PROVE  FALSE
  BY <1>6, OthersOff
<1>7. ASSUME \/ Adopt(p) \/ CloseStale(p) \/ Load(p) \/ SweepUnreferenced(p) \/ Tombstone(p)
             \/ SweepOrphans(p) \/ ScanFails(p)
      PROVE  FALSE
  BY <1>7, AdoptEffect, CloseStaleEffect, LoadEffect, UnreferencedEffect, TombstoneEffect,
     OrphansEffect, ScanFailsEffect
<1>8. ASSUME EnsureWatch(p) \/ Purge(p) \/ Interrupt(p) PROVE FALSE
  BY <1>8, EnsureWatchEffect, PurgeEffect, InterruptEffect, NoSweepType
<1>9. ASSUME NEW op \in {"list", "cleanup", "purge"}, Begin(p, op) PROVE FALSE
  BY <1>9, BeginEffect
<1>10. ~Sweep(p)
  BY <1>7, <1>8 DEF Sweep
<1> QED BY ZenonT(60), <1>2, <1>3, <1>4, <1>5, <1>6, <1>8, <1>9, <1>10 DEF ArtifactsNext

\* Only two steps enter or stay in the eviction with another sweep.
LEMMA EvictionSteps ==
    ASSUME TypeInv, NEW p \in Sweepers, [ArtifactsNext]_artifactVars, sweep'[p].pc = "evict"
    PROVE  \/ SweepUnreferenced(p)
           \/ \E w \in Runners : Evict(p, w)
           \/ sweep'[p] = sweep[p]
<1>1. sweep'[p] # NoSweep
  BY NoSweepType
<1>2. ~(\E op \in {"list", "cleanup", "purge"} : Begin(p, op))
  BY BeginEffect
<1>3. ~Adopt(p) /\ ~CloseStale(p) /\ ~Load(p)
  BY <1>1, AdoptEffect, CloseStaleEffect, LoadEffect
<1>4. ~Tombstone(p) /\ ~SweepOrphans(p)
  BY <1>1, TombstoneEffect, OrphansEffect
<1> QED BY <1>1, <1>2, <1>3, <1>4, SweepSteps DEF OwnStep

\* A file that nothing keeps is not of a container in the inventory.
LEMMA UnkeptIsLoose ==
    ASSUME TypeInv, InventoryInv, NEW p \in Sweepers, sweep[p].pc # "off"
    PROVE  Files \ Kept(p) \subseteq Loose
<1> SUFFICES ASSUME NEW f \in Files \ Kept(p) PROVE f[1] \notin Exists \ missed
  BY DEF Loose
<1>1. f \in Runners \X Kinds
  BY DEF Files
<1>2. f \notin Referenced(p) \/ f[1] \in Candidates(p)
  BY <1>1 DEF Kept, CandidatePaths
<1>3. f[1] \notin sweep[p].adopted
  BY <1>1, <1>2 DEF Referenced, Candidates
<1> QED BY <1>3, Inventoried

\* What is evicted was counted on.
LEMMA EvictedIsLoose ==
    ASSUME TypeInv, InventoryInv, ChosenInv, NEW p \in Sweepers, NEW w \in Runners, Evict(p, w),
           NEW gone \in SUBSET Mine(p, w), file' = Without(gone)
    PROVE  /\ gone \subseteq Loose /\ Loose' = Loose \ gone
           /\ gone \subseteq Files /\ Files' = Files \ gone
           /\ gone \cap Kept(p) = {}
<1>1. /\ sweep[p].pc = "evict" /\ w \in sweep[p].todo
      /\ SameSweep(p) /\ sweep'[p].seen = sweep[p].seen
      /\ UNCHANGED <<box, missed>>
  BY EvictEffect
<1>2. w \in Candidates(p)
  BY <1>1 DEF ChosenInv, ChosenBy
<1>3. w \notin sweep[p].adopted
  BY <1>2 DEF Candidates
<1>4. w \notin Exists \ missed
  BY <1>1, <1>3, Inventoried
<1>5. \A f \in gone : f \in Files /\ f[1] = w /\ f[2] \in Paths(sweep[p].seen[w])
  BY DEF Mine
<1>6. Files' = Files \ gone
  BY WithoutFiles
<1>7. gone \subseteq Loose
  BY <1>4, <1>5 DEF Loose
<1>8. Loose' = Loose \ gone
  BY <1>1, <1>6 DEF Loose, Exists
<1>9. gone \cap Kept(p) = {}
  BY <1>2, <1>5 DEF Kept, CandidatePaths, Files
<1> QED BY <1>5, <1>6, <1>7, <1>8, <1>9
-----------------------------------------------------------------------------
(* What an undisturbed cleanup leaves. *)
\* A step that leaves index, files and containers, and the sweeps unless they are over.
LEMMA SameSpace ==
    ASSUME SpaceInv, index' = index, file' = file, Exists' = Exists,
           settled' \in {settled, "no"},
           \A p \in Sweepers : sweep'[p] = sweep[p] \/ sweep'[p] = NoSweep
    PROVE  SpaceInv'
<1>1. Files' = Files
  BY DEF Files
<1>2. Counted' = Counted
  BY <1>1 DEF Counted, Unfinished
<1>3. ASSUME NEW p \in Sweepers PROVE EvictBy(p)' /\ LeftBy(p)'
  <2>1. EvictBy(p) /\ LeftBy(p)
    BY DEF SpaceInv
  <2>2. CASE sweep'[p] = NoSweep
    BY <2>2, NoSweepType DEF EvictBy, LeftBy
  <2>3. CASE sweep'[p] = sweep[p]
    <3>1. Candidates(p)' = Candidates(p) /\ Referenced(p)' = Referenced(p) /\ Kept(p)' = Kept(p)
      BY <2>3, SameCandidates DEF Kept
    <3>2. \A v : Paths(sweep[p].seen[v])' = Paths(sweep[p].seen[v])
      BY <2>3 DEF Paths
    <3>3. EvictBy(p)'
      BY <1>1, <2>1, <2>3, <3>1, <3>2 DEF EvictBy
    <3> QED BY <1>2, <2>1, <2>3, <3>3 DEF LeftBy
  <2> QED BY <2>2, <2>3
<1> QED BY <1>2, <1>3 DEF SpaceInv

\* A record that nobody works on stays unfinished, so no file comes to count.
LEMMA CountedShrinks ==
    ASSUME Exists' = Exists, Files' \subseteq Files,
           \A w \in DOMAIN index : w \notin Exists /\ Unfinished(w) =>
              w \in DOMAIN index' /\ index'[w] = index[w]
    PROVE  Counted' \subseteq Counted
<1> SUFFICES ASSUME NEW f \in Files, f[1] \notin Exists, ~Unfinished(f[1])', Unfinished(f[1])
             PROVE  FALSE
  BY DEF Counted
<1>1. f[1] \in DOMAIN index
  BY DEF Unfinished
<1>2. f[1] \in DOMAIN index' /\ index'[f[1]] = index[f[1]]
  BY <1>1
<1> QED BY <1>1, <1>2 DEF Unfinished

\* What counts after the eviction and is still referred to is of a candidate.
LEMMA CountedIsCandidate ==
    ASSUME TypeInv, NEW p, sweep[p].adopted = Exists, sweep[p].seen = index,
           NEW f \in Counted \cap Referenced(p)
    PROVE  f[1] \in Candidates(p) /\ f \in CandidatePaths(p)
<1>1. f \in Runners \X Kinds /\ f[1] \notin sweep[p].adopted /\ ~Unfinished(f[1])
  BY DEF Counted, Files
<1>2. LiveRecord(sweep[p].seen, f[1]) /\ f[2] \in Paths(sweep[p].seen[f[1]])
  BY <1>1 DEF Referenced
<1>3. f[1] \in DOMAIN index
  BY <1>2 DEF LiveRecord
<1>4. ~index[f[1]].open /\ index[f[1]].finalized # 0
  BY <1>1, <1>3 DEF Unfinished
<1>5. f[1] \in Candidates(p)
  BY <1>1, <1>2, <1>3, <1>4 DEF Candidates
<1> QED BY <1>1, <1>2, <1>5 DEF CandidatePaths

\* The freezing of what was evicted lets no file come to count.
LEMMA BuriedCounts ==
    ASSUME TypeInv, ChosenInv, NEW p \in Sweepers, Tombstone(p), sweep[p].seen = index
    PROVE  Counted' \subseteq Counted
<1>1. index' = index \/ Buries(p, index, index')
  BY TombstoneEffect
<1>2. UNCHANGED <<box, file>>
  BY TombstoneEffect
<1>3. \A w \in sweep[p].batch : ~Unfinished(w)
  BY DEF ChosenInv, ChosenBy, Candidates, Unfinished
<1>4. \A w \in DOMAIN index : Unfinished(w) => w \in DOMAIN index' /\ index'[w] = index[w]
  BY <1>1, <1>3 DEF Buries
<1>5. Exists' = Exists /\ Files' = Files
  BY <1>2 DEF Exists, Files
<1> QED BY <1>4, <1>5, CountedShrinks

\* Steps after which no more counts than before.
LEMMA NothingMoreCounts ==
    ASSUME TypeInv, RecordInv, OpenIsClosed, NEW p \in Sweepers, SettledBy(p),
           \/ SweepOrphans(p)
           \/ Purge(p)
           \/ Adopt(p) /\ settled = "yes"
           \/ CloseStale(p) /\ settled = "yes"
    PROVE  Counted' \subseteq Counted
<1>1. ASSUME UNCHANGED box, Files' \subseteq Files,
             \A w \in DOMAIN index : w \notin Exists /\ Unfinished(w) =>
                w \in DOMAIN index' /\ index'[w] = index[w]
      PROVE  Counted' \subseteq Counted
  <2>1. Exists' = Exists
    BY <1>1 DEF Exists
  <2> QED BY <1>1, <2>1, CountedShrinks
<1>2. CASE SweepOrphans(p)
  <2>1. /\ Prunes(p, index, index') /\ UNCHANGED box
        /\ \E gone \in SUBSET (Files \ Referenced(p)) : file' = Without(gone)
    BY <1>2, OrphansEffect
  <2>2. Files' \subseteq Files
    BY <2>1, WithoutFiles
  <2>3. \A w \in DOMAIN index : Unfinished(w) => index[w].tomb = 0
    BY DEF RecordInv, Unfinished
  <2>4. \A w \in DOMAIN index : Unfinished(w) => w \in DOMAIN index' /\ index'[w] = index[w]
    BY <2>1, <2>3 DEF Prunes
  <2> QED BY <1>1, <2>1, <2>2, <2>4
<1>3. CASE Purge(p)
  <2>1. /\ UNCHANGED <<box, index>>
        /\ \E gone \in SUBSET Purgeable(p) : file' = Without(gone)
    BY <1>3, PurgeEffect
  <2>2. Files' \subseteq Files
    BY <2>1, WithoutFiles
  <2> QED BY <1>1, <2>1, <2>2
<1>4. ASSUME Adopt(p), settled = "yes" PROVE Counted' \subseteq Counted
  <2>1. /\ sweep[p].pc = "adopt" /\ Grows(index, index', sweep[p].adopted)
        /\ UNCHANGED <<box, file>>
    BY <1>4, AdoptEffect
  <2>2. sweep[p].adopted = Exists
    BY <1>4, <2>1 DEF SettledBy
  <2>3. Files' \subseteq Files
    BY <2>1 DEF Files
  <2>4. \A w \in DOMAIN index : w \notin Exists => w \in DOMAIN index' /\ index'[w] = index[w]
    BY <2>1, <2>2 DEF Grows
  <2> QED BY <1>1, <2>1, <2>3, <2>4
<1>5. ASSUME CloseStale(p), settled = "yes" PROVE Counted' \subseteq Counted
  <2>1. /\ sweep[p].pc = "close" /\ Grows(index, index', Stale(p))
        /\ UNCHANGED <<box, file>>
    BY <1>5, CloseStaleEffect
  <2>2. sweep[p].adopted = Exists /\ sweep[p].seen = index
    BY <1>5, <2>1 DEF SettledBy
  <2>3. Stale(p) = {}
    BY <1>5, <2>2 DEF Stale, OpenIsClosed
  <2>4. Files' \subseteq Files
    BY <2>1 DEF Files
  <2>5. \A w \in DOMAIN index : w \in DOMAIN index' /\ index'[w] = index[w]
    BY <2>1, <2>3 DEF Grows
  <2> QED BY <1>1, <2>1, <2>4, <2>5
<1> QED BY <1>2, <1>3, <1>4, <1>5
-----------------------------------------------------------------------------
(* Counting.  The facts about cardinalities that the lemmas below assume are proved at
   the end, where the library's theorems come into the module. *)
CountingFacts ==
    /\ Cardinality({}) = 0
    /\ \A T \in SUBSET (Runners \X Kinds) : \A S \in SUBSET T :
         /\ Cardinality(S) \in Nat /\ Cardinality(T) \in Nat
         /\ Cardinality(S) <= Cardinality(T)
         /\ Cardinality(T \ S) = Cardinality(T) - Cardinality(S)

\* A part of the artifacts is no more than the whole, and the rest is the difference.
LEMMA Parts ==
    ASSUME CountingFacts, NEW T, T \subseteq Runners \X Kinds, NEW S, S \subseteq T
    PROVE  /\ Cardinality(S) \in Nat /\ Cardinality(T) \in Nat
           /\ Cardinality(S) <= Cardinality(T)
           /\ Cardinality(T \ S) = Cardinality(T) - Cardinality(S)
  BY DEF CountingFacts

\* A cleanup never counts on more than there is.
LEMMA NextCount ==
    ASSUME CountingFacts,
           TypeInv, InventoryInv, ChosenInv, AloneInv, CountInv, [ArtifactsNext]_artifactVars
    PROVE  CountInv'
<1>0. SUFFICES ASSUME NEW p \in Sweepers, p \in alone', sweep'[p].pc = "evict"
               PROVE  /\ sweep'[p].total \in Int /\ sweep'[p].protected \in Int
                      /\ sweep'[p].total - sweep'[p].protected <= Cardinality(Loose')
  BY DEF CountInv, CountBy
<1>1. Loose \subseteq Runners \X Kinds /\ Loose' \subseteq Runners \X Kinds
      /\ Files \subseteq Runners \X Kinds
  BY DEF Loose, Files
<1>2. CASE SweepUnreferenced(p)
  <2>1. /\ sweep[p].pc = "space" /\ SameSweep(p) /\ sweep'[p].seen = sweep[p].seen
        /\ UNCHANGED <<box, missed>>
    BY <1>2, UnreferencedEffect
  <2>2. PICK stuck \in SUBSET (Files \ Referenced(p)), gone \in SUBSET (Files \ Referenced(p)) :
           /\ file' = Without(gone)
           /\ sweep'[p].total = Cardinality(Files \ gone)
           /\ sweep'[p].protected = Cardinality(Protected(p, Files \ gone, stuck))
    BY <1>2, UnreferencedEffect
  <2> DEFINE P == Protected(p, Files \ gone, stuck)
  <2>3. P \subseteq Files \ gone /\ Files' = Files \ gone
    BY <2>2, WithoutFiles DEF Protected
  <2>4. (Files \ gone) \ P \subseteq Loose'
    <3>1. Files \ Kept(p) \subseteq Loose
      BY <2>1, UnkeptIsLoose
    <3>2. (Files \ gone) \ P \subseteq Files \ Kept(p)
      BY DEF Protected, Kept
    <3>3. Loose' = Loose \ gone
      BY <2>1, <2>3 DEF Loose, Exists
    <3> QED BY <3>1, <3>2, <3>3
  <2>5. /\ Cardinality(P) \in Nat /\ Cardinality(Files \ gone) \in Nat
        /\ Cardinality((Files \ gone) \ P) = Cardinality(Files \ gone) - Cardinality(P)
    BY <1>1, <2>3, Parts
  <2>6. /\ Cardinality((Files \ gone) \ P) \in Nat /\ Cardinality(Loose') \in Nat
        /\ Cardinality((Files \ gone) \ P) <= Cardinality(Loose')
    BY <1>1, <2>4, Parts
  <2> HIDE DEF P
  <2>7. sweep'[p].protected = Cardinality(P)
    BY <2>2 DEF P
  <2> QED BY SMT, <2>2, <2>5, <2>6, <2>7
<1>3. ASSUME NEW w \in Runners, Evict(p, w)
      PROVE  /\ sweep'[p].total \in Int /\ sweep'[p].protected \in Int
             /\ sweep'[p].total - sweep'[p].protected <= Cardinality(Loose')
  <2>1. sweep[p].pc = "evict" /\ sweep'[p].protected = sweep[p].protected /\ p \in alone
    BY <1>0, <1>3, EvictEffect
  <2>2. PICK gone \in SUBSET Mine(p, w) : /\ file' = Without(gone)
                                       /\ sweep'[p].total = sweep[p].total - Cardinality(gone)
    BY <1>3, EvictEffect
  <2>3. gone \subseteq Loose /\ Loose' = Loose \ gone
    BY <1>3, <2>2, EvictedIsLoose
  <2>4. /\ Cardinality(gone) \in Nat /\ Cardinality(Loose) \in Nat
        /\ Cardinality(Loose') = Cardinality(Loose) - Cardinality(gone)
    BY <1>1, <2>3, Parts
  <2>5. /\ sweep[p].total \in Int /\ sweep[p].protected \in Int
        /\ sweep[p].total - sweep[p].protected <= Cardinality(Loose)
    BY <2>1 DEF CountInv, CountBy
  <2> QED BY SMT, <2>1, <2>2, <2>4, <2>5
<1>4. ASSUME sweep'[p] = sweep[p], ~(\E w \in Runners : Evict(p, w))
      PROVE  /\ sweep'[p].total \in Int /\ sweep'[p].protected \in Int
             /\ sweep'[p].total - sweep'[p].protected <= Cardinality(Loose')
  <2>1. Loose \subseteq Loose' /\ p \in alone
    BY <1>0, <1>4, LooseGrows
  <2>2. /\ Cardinality(Loose) \in Nat /\ Cardinality(Loose') \in Nat
        /\ Cardinality(Loose) <= Cardinality(Loose')
    BY <1>1, <2>1, Parts
  <2>3. /\ sweep[p].total \in Int /\ sweep[p].protected \in Int
        /\ sweep[p].total - sweep[p].protected <= Cardinality(Loose)
    BY <1>0, <1>4, <2>1 DEF CountInv, CountBy
  <2> QED BY SMT, <1>4, <2>2, <2>3
<1> QED BY <1>0, <1>2, <1>3, <1>4, EvictionSteps

\* The evicted files leave the total; what is kept stays.
LEMMA EvictSpace ==
    ASSUME CountingFacts,
           TypeInv, InventoryInv, ChosenInv, NEW p \in Sweepers, EvictBy(p),
           NEW w \in Runners, Evict(p, w)
    PROVE  EvictBy(p)'
<1>0. SUFFICES ASSUME settled' # "no", ~sweep'[p].err
               PROVE  /\ sweep'[p].total = Cardinality(Files')
                      /\ sweep'[p].protected = Cardinality(Files' \cap Kept(p)')
                      /\ sweep'[p].total <= Space \/ Files' \subseteq Referenced(p)'
                      /\ \A v \in Candidates(p)' \ sweep'[p].todo :
                           \A k \in Paths(sweep'[p].seen[v]) : file'[v][k] = 0
  <2>1. \A v : Paths(sweep[p].seen[v])' = Paths(sweep'[p].seen[v])
    BY DEF Paths
  <2> QED BY <2>1 DEF EvictBy
<1>1. /\ sweep[p].pc = "evict"
      /\ sweep'[p].adopted = sweep[p].adopted /\ sweep'[p].seen = sweep[p].seen
      /\ sweep'[p].todo = sweep[p].todo \ {w} /\ sweep'[p].protected = sweep[p].protected
      /\ UNCHANGED settled
  BY EvictEffect DEF SameSweep
<1>2. PICK gone \in SUBSET Mine(p, w) : Took(p, w, gone)
  BY EvictOutcome
<1>3. /\ gone = Mine(p, w) /\ ~sweep[p].err /\ file' = Without(gone)
      /\ sweep'[p].total = sweep[p].total - Cardinality(gone)
  BY <1>0, <1>2 DEF Took
<1>4. /\ sweep[p].total = Cardinality(Files) /\ sweep[p].protected = Cardinality(Files \cap Kept(p))
      /\ sweep[p].total <= Space \/ Files \subseteq Referenced(p)
      /\ \A v \in Candidates(p) \ sweep[p].todo : \A k \in Paths(sweep[p].seen[v]) : file[v][k] = 0
  BY <1>0, <1>1, <1>3 DEF EvictBy
<1>5. gone \subseteq Files /\ Files' = Files \ gone /\ gone \cap Kept(p) = {}
  BY <1>3, EvictedIsLoose
<1>6. Candidates(p)' = Candidates(p) /\ Referenced(p)' = Referenced(p) /\ Kept(p)' = Kept(p)
  BY <1>1, SameCandidates DEF Kept
<1>7. Files \subseteq Runners \X Kinds /\ Candidates(p) \subseteq Runners
      /\ \A v \in Candidates(p) : Paths(sweep[p].seen[v]) \subseteq Kinds
  BY SweepFields, CatalogType DEF Files, Candidates, Paths
<1>8. /\ Cardinality(gone) \in Nat /\ Cardinality(Files) \in Nat
      /\ Cardinality(Files') = Cardinality(Files) - Cardinality(gone)
  BY <1>5, <1>7, Parts
<1>9. sweep'[p].total = Cardinality(Files')
  BY <1>3, <1>4, <1>8
<1>10. Files' \cap Kept(p)' = Files \cap Kept(p)
  BY <1>5, <1>6
<1>11. sweep'[p].total <= Space \/ Files' \subseteq Referenced(p)'
  <2>1. CASE sweep[p].total <= Space
    BY SMT, <1>4, <1>8, <1>9, <2>1, ArtifactsAssumption
  <2> QED BY <1>4, <1>5, <1>6, <2>1
<1>12. ASSUME NEW v \in Candidates(p)' \ sweep'[p].todo, NEW k \in Paths(sweep'[p].seen[v])
       PROVE  file'[v][k] = 0
  <2>1. v \in Runners /\ k \in Kinds /\ k \in Paths(sweep[p].seen[v])
    BY <1>1, <1>6, <1>7, <1>12
  <2>2. file'[v][k] = IF <<v, k>> \in gone THEN 0 ELSE file[v][k]
    BY SMT, <1>3, <2>1, WithoutFiles
  <2>3. CASE v = w
    <3>1. <<v, k>> \in Files => <<v, k>> \in Mine(p, w)
      BY SMT, <2>1, <2>3 DEF Mine
    <3>2. <<v, k>> \notin Files => file[v][k] = 0
      BY SMT, <2>1 DEF Files
    <3> QED BY <1>3, <2>2, <3>1, <3>2
  <2>4. CASE v # w
    BY <1>1, <1>4, <1>6, <1>12, <2>1, <2>2, <2>4
  <2> QED BY <2>3, <2>4
<1> QED BY <1>1, <1>4, <1>9, <1>10, <1>11, <1>12

\* Either the total is within the limit, or what may go is, or all of it has gone.
LEMMA TombstoneSpace ==
    ASSUME CountingFacts,
           TypeInv, ChosenInv, NEW p \in Sweepers, SettledBy(p), EvictBy(p), Tombstone(p),
           settled # "no", ~sweep[p].err
    PROVE  Cardinality(Counted') <= Space
<1>1. sweep[p].pc = "evict" /\ Evicted(p)
  BY TombstoneEffect
<1>2. sweep[p].adopted = Exists /\ sweep[p].seen = index
  BY <1>1 DEF SettledBy
<1>3. /\ sweep[p].total = Cardinality(Files) /\ sweep[p].protected = Cardinality(Files \cap Kept(p))
      /\ sweep[p].total <= Space \/ Files \subseteq Referenced(p)
      /\ \A v \in Candidates(p) \ sweep[p].todo : \A k \in Paths(sweep[p].seen[v]) : file[v][k] = 0
  BY <1>1 DEF EvictBy
<1>4. /\ Counted' \subseteq Counted /\ Counted \subseteq Files
      /\ Files \subseteq Runners \X Kinds
  BY <1>2, BuriedCounts DEF Counted, Files
<1>5. ASSUME NEW T, Counted \subseteq T, T \subseteq Files, Cardinality(T) <= Space
      PROVE  Cardinality(Counted') <= Space
  <2>1. /\ Cardinality(Counted') \in Nat /\ Cardinality(T) \in Nat
        /\ Cardinality(Counted') <= Cardinality(T)
    BY <1>4, <1>5, Parts
  <2> QED BY SMT, <1>5, <2>1, ArtifactsAssumption
<1>6. CASE sweep[p].total <= Space
  BY <1>3, <1>4, <1>5, <1>6
<1>7. CASE sweep[p].todo = {} /\ Files \subseteq Referenced(p)
  <2>1. ASSUME NEW f \in Counted PROVE FALSE
    <3>1. f[1] \in Candidates(p) /\ f \in CandidatePaths(p) /\ f \in Files
      BY <1>2, <1>4, <1>7, <2>1, CountedIsCandidate
    <3>2. f[2] \in Paths(sweep[p].seen[f[1]])
      BY <3>1 DEF CandidatePaths
    <3>3. file[f[1]][f[2]] = 0
      BY <1>3, <1>7, <3>1, <3>2
    <3> QED BY <3>1, <3>3 DEF Files
  <2>2. Counted' = {}
    BY <1>4, <2>1
  <2> QED BY SMT, <2>2, ArtifactsAssumption DEF CountingFacts
<1>8. CASE ~CapDeletionPressure(p)
  <2>1. /\ Cardinality(Files) \in Nat /\ Cardinality(Files \cap Kept(p)) \in Nat
        /\ Cardinality(Files \ (Files \cap Kept(p)))
             = Cardinality(Files) - Cardinality(Files \cap Kept(p))
    BY <1>4, Parts
  <2>2. CASE ~(sweep[p].total > Space)
    BY SMT, <1>3, <1>6, <2>1, <2>2, ArtifactsAssumption
  <2>3. CASE ~(sweep[p].total - sweep[p].protected > Space)
    <3>1. Cardinality(Files \ (Files \cap Kept(p))) <= Space
      BY SMT, <1>3, <2>1, <2>3, ArtifactsAssumption
    <3>2. Counted \subseteq Files \ (Files \cap Kept(p))
      <4>1. ASSUME NEW f \in Counted, f \in Kept(p) PROVE FALSE
        BY <1>2, <4>1, CountedIsCandidate DEF Kept
      <4> QED BY <1>4, <4>1
    <3> QED BY <1>5, <3>1, <3>2
  <2> QED BY <1>8, <2>2, <2>3 DEF CapDeletionPressure
<1> QED BY <1>1, <1>3, <1>6, <1>7, <1>8 DEF Evicted

\* A sweeper's own step keeps what an undisturbed cleanup leaves within the limit.
LEMMA OwnSpace ==
    ASSUME CountingFacts, TypeInv, InventoryInv, ChosenInv, RecordInv, OpenIsClosed,
           settled = "yes" => Cardinality(Counted) <= Space,
           NEW p \in Sweepers, SettledBy(p), EvictBy(p), LeftBy(p),
           \/ \E op \in {"list", "cleanup", "purge"} : Begin(p, op)
           \/ Sweep(p) \/ Interrupt(p)
    PROVE  /\ settled' = "yes" => Cardinality(Counted') <= Space
           /\ EvictBy(p)' /\ LeftBy(p)'
<1> DEFINE Goal == /\ settled' = "yes" => Cardinality(Counted') <= Space
                   /\ EvictBy(p)' /\ LeftBy(p)'
<1> SUFFICES Goal
  OBVIOUS
<1>0. Counted \subseteq Runners \X Kinds /\ Files \subseteq Runners \X Kinds
  BY DEF Counted, Files
<1>1. ASSUME Counted' \subseteq Counted, Cardinality(Counted) <= Space
      PROVE  Cardinality(Counted') <= Space
  <2>1. /\ Cardinality(Counted') \in Nat /\ Cardinality(Counted) \in Nat
        /\ Cardinality(Counted') <= Cardinality(Counted)
    BY <1>0, <1>1, Parts
  <2> QED BY SMT, <1>1, <2>1, ArtifactsAssumption
<1>4. ASSUME NEW op \in {"list", "cleanup", "purge"}, Begin(p, op) PROVE Goal
  <2>1. /\ sweep'[p].pc = "adopt" /\ UNCHANGED <<box, index, file>>
        /\ settled' = "no" \/ settled' = IF op = "purge" THEN settled ELSE "sweeping"
    BY <1>4, BeginEffect
  <2>2. Counted' = Counted
    BY <2>1 DEF Counted, Files, Exists, Unfinished
  <2> QED BY <2>1, <2>2 DEF EvictBy, LeftBy
<1>11. ASSUME Load(p) \/ EnsureWatch(p) \/ Interrupt(p) PROVE Goal
  <2>1. sweep'[p].pc \notin {"evict", "orphans"} /\ UNCHANGED <<box, index, file, settled>>
    BY <1>11, LoadEffect, EnsureWatchEffect, InterruptEffect, NoSweepType
  <2>2. Counted' = Counted
    BY <2>1 DEF Counted, Files, Exists, Unfinished
  <2> QED BY <2>1, <2>2 DEF EvictBy, LeftBy
<1>5. ASSUME Adopt(p) \/ CloseStale(p) \/ Purge(p) PROVE Goal
  <2>1. sweep'[p].pc \notin {"evict", "orphans"} /\ UNCHANGED settled
    BY <1>5, AdoptEffect, CloseStaleEffect, PurgeEffect, NoSweepType
  <2>2. ASSUME settled = "yes" PROVE Cardinality(Counted') <= Space
    <3>1. Counted' \subseteq Counted
      BY <1>5, <2>2, NothingMoreCounts
    <3>2. Cardinality(Counted) <= Space
      BY <2>2
    <3> QED BY <1>1, <3>1, <3>2
  <2> QED BY <2>1, <2>2 DEF EvictBy, LeftBy
<1>6. CASE SweepUnreferenced(p)
  <2>1. /\ sweep[p].pc = "space" /\ sweep'[p].pc = "evict"
        /\ SameSweep(p) /\ sweep'[p].seen = sweep[p].seen
        /\ sweep'[p].todo = Candidates(p) /\ UNCHANGED settled
    BY <1>6, UnreferencedEffect
  <2>2. PICK stuck \in SUBSET (Files \ Referenced(p)), gone \in SUBSET (Files \ Referenced(p)) :
           /\ file' = Without(gone)
           /\ sweep'[p].total = Cardinality(Files \ gone)
           /\ sweep'[p].protected = Cardinality(Protected(p, Files \ gone, stuck))
           /\ ~sweep'[p].err => /\ stuck = {}
                             /\ \/ gone = Files \ Referenced(p)
                                \/ Cardinality(Files \ gone) <= Space
    BY <1>6, UnreferencedEffect
  <2>3. Files' = Files \ gone
    BY <2>2, WithoutFiles
  <2>4. Candidates(p)' = Candidates(p) /\ Referenced(p)' = Referenced(p) /\ Kept(p)' = Kept(p)
    BY <2>1, SameCandidates DEF SameSweep, Kept
  <2>5. ASSUME ~sweep'[p].err
        PROVE  /\ sweep'[p].total = Cardinality(Files')
               /\ sweep'[p].protected = Cardinality(Files' \cap Kept(p)')
               /\ sweep'[p].total <= Space \/ Files' \subseteq Referenced(p)'
    <3>1. stuck = {} /\ (gone = Files \ Referenced(p) \/ Cardinality(Files \ gone) <= Space)
      BY <2>2, <2>5
    <3>2. Protected(p, Files \ gone, stuck) = Files' \cap Kept(p)'
      BY <2>3, <2>4, <3>1 DEF Protected, Kept
    <3>3. gone = Files \ Referenced(p) => Files' \subseteq Referenced(p)'
      BY <2>3, <2>4
    <3> QED BY <2>2, <2>3, <3>1, <3>2, <3>3
  <2>6. sweep[p].op # "purge" /\ settled # "yes"
    BY <2>1 DEF SettledBy
  <2>7. \A v : Paths(sweep[p].seen[v])' = Paths(sweep'[p].seen[v])
    BY DEF Paths
  <2> QED BY <2>1, <2>4, <2>5, <2>6, <2>7 DEF EvictBy, LeftBy
<1>7. ASSUME NEW w \in Runners, Evict(p, w) PROVE Goal
  <2>1. sweep[p].pc = "evict" /\ sweep'[p].pc = "evict" /\ UNCHANGED settled
    BY <1>7, EvictEffect
  <2>2. sweep[p].op # "purge" /\ settled # "yes"
    BY <2>1 DEF SettledBy
  <2>3. EvictBy(p)'
    BY <1>7, EvictSpace
  <2> QED BY <2>1, <2>2, <2>3 DEF LeftBy
<1>8. CASE Tombstone(p)
  <2>1. /\ sweep[p].pc = "evict" /\ sweep'[p].pc = "orphans" /\ UNCHANGED settled
        /\ sweep[p].err => sweep'[p].err
    BY <1>8, TombstoneEffect
  <2>2. sweep[p].op # "purge" /\ settled # "yes"
    BY <2>1 DEF SettledBy
  <2>3. settled # "no" /\ ~sweep[p].err => Cardinality(Counted') <= Space
    BY <1>8, TombstoneSpace
  <2> QED BY <2>1, <2>2, <2>3 DEF EvictBy, LeftBy
<1>9. CASE SweepOrphans(p)
  <2>1. /\ sweep[p].pc = "orphans" /\ sweep'[p].pc \notin {"evict", "orphans"}
        /\ settled' = "no" \/ (settled' = "yes" /\ settled = "sweeping" /\ ~sweep[p].err)
    BY <1>9, OrphansEffect, NoSweepType
  <2>2. Counted' \subseteq Counted
    BY <1>9, NothingMoreCounts
  <2>3. settled' = "yes" => Cardinality(Counted) <= Space
    BY <2>1 DEF LeftBy
  <2> QED BY <1>1, <2>1, <2>2, <2>3 DEF EvictBy, LeftBy
<1>10. CASE ScanFails(p)
  BY <1>10, ScanFailsEffect DEF EvictBy, LeftBy
<1> QED
  BY ZenonT(60), <1>4, <1>5, <1>6, <1>7, <1>8, <1>9, <1>10, <1>11 DEF Sweep

\* What an undisturbed cleanup leaves stays within the limit.
LEMMA NextSpace ==
    ASSUME CountingFacts,
           TypeInv, InventoryInv, ChosenInv, RecordInv, AloneInv, SettledInv, SpaceInv,
           [ArtifactsNext]_artifactVars
    PROVE  SpaceInv'
<1>1. ASSUME NEW w \in Runners, Start(w) \/ Exit(w) \/ Lose(w) PROVE SpaceInv'
  <2>1. /\ settled' = "no" \/ (settled' = settled /\ box'[w] = "exited")
        /\ UNCHANGED <<index, sweep, file>>
    BY <1>1, ContainerEffect
  <2>2. CASE settled' = "no"
    BY <2>2 DEF SpaceInv, EvictBy, LeftBy
  <2>3. CASE settled' = settled /\ box'[w] = "exited"
    <3>1. box[w] = "live" /\ \A v \in Runners \ {w} : box'[v] = box[v]
      BY <1>1, <2>3, ContainerEffect
    <3>2. Exists' = Exists
      BY <2>3, <3>1 DEF Exists
    <3> QED BY <2>1, <2>3, <3>2, SameSpace
  <2> QED BY <2>1, <2>2, <2>3
<1>2. ASSUME NEW w \in Runners, Watch(w) PROVE SpaceInv'
  <2>1. settled' = "no"
    BY <1>2, WatchSteps DEF WatchEffect
  <2> QED BY <2>1 DEF SpaceInv, EvictBy, LeftBy
<1>3. ASSUME NEW p \in Sweepers,
             \/ \E op \in {"list", "cleanup", "purge"} : Begin(p, op)
             \/ Sweep(p) \/ Interrupt(p)
      PROVE  SpaceInv'
  <2>1. /\ OpenIsClosed /\ SettledBy(p) /\ EvictBy(p) /\ LeftBy(p)
        /\ settled = "yes" => Cardinality(Counted) <= Space
    BY DEF SettledInv, SpaceInv
  <2>2. /\ settled' = "yes" => Cardinality(Counted') <= Space
        /\ EvictBy(p)' /\ LeftBy(p)'
    BY <1>3, <2>1, OwnSpace
  <2>3. ASSUME NEW q \in Sweepers \ {p} PROVE EvictBy(q)' /\ LeftBy(q)'
    <3>1. sweep'[q] = sweep[q] /\ (settled' = "no" \/ sweep[q].pc = "off")
      BY <1>3, <2>3, OthersOff
    <3> QED BY <3>1 DEF EvictBy, LeftBy
  <2> QED BY <2>2, <2>3 DEF SpaceInv
<1>4. ASSUME ControllerCrash \/ RuntimeClose PROVE SpaceInv'
  <2>1. /\ \A p \in Sweepers : sweep'[p] = NoSweep \/ sweep'[p] = sweep[p]
        /\ UNCHANGED <<box, index>>
        /\ settled' = "no" \/ (settled' = settled /\ UNCHANGED file)
    BY <1>4, EndEffect
  <2>2. CASE settled' = "no"
    BY <2>2 DEF SpaceInv, EvictBy, LeftBy
  <2>3. CASE settled' = settled /\ UNCHANGED file
    BY <2>1, <2>3, SameSpace DEF Exists
  <2> QED BY <2>1, <2>2, <2>3
<1>5. CASE ClockTick \/ DamageJournal \/ UNCHANGED artifactVars
  <2>1. UNCHANGED <<box, index, file, settled, sweep>>
    BY <1>5, IdleEffect
  <2> QED BY <2>1, SameSpace DEF Exists
<1> QED BY <1>1, <1>2, <1>3, <1>4, <1>5 DEF ArtifactsNext
-----------------------------------------------------------------------------
(* The whole invariant, and what a cleanup does. *)
ArtifactsInv == SafeInv /\ AloneInv /\ CountInv /\ SettledInv /\ SpaceInv

\* No sweep is in progress and no cleanup was made at first.
LEMMA InitArtifacts ==
    ASSUME ArtifactsInit
    PROVE  ArtifactsInv
<1>1. sweep = [p \in Sweepers |-> NoSweep] /\ settled = "no" /\ alone = {}
  BY DEF ArtifactsInit, ArtifactsInitWith
<1>2. SafeInv
  BY InitSafe
<1>3. \A p \in Sweepers : sweep[p].pc = "off"
  BY <1>1, NoSweepType
<1>4. SettledInv
  BY <1>1, <1>3 DEF SettledInv, SettledBy, OpenIsClosed
<1>5. SpaceInv
  BY <1>1, <1>3 DEF SpaceInv, EvictBy, LeftBy
<1> QED BY <1>1, <1>2, <1>4, <1>5 DEF ArtifactsInv, AloneInv, CountInv

\* The whole invariant is inductive.
LEMMA NextArtifacts ==
    ASSUME CountingFacts, ArtifactsInv, [ArtifactsNext]_artifactVars
    PROVE  ArtifactsInv'
  BY NextSafe, NextAlone, NextCount, NextSettled, NextSpace DEF ArtifactsInv, SafeInv

\* A cleanup that is settled has kept the space and closed the records.
LEMMA InvSettles ==
    ASSUME ArtifactsInv
    PROVE  CleanupSettles
<1>1. OpenIsClosed
  BY DEF ArtifactsInv, SettledInv
<1>2. settled = "yes" => Cardinality(Counted) <= Space
  BY DEF ArtifactsInv, SpaceInv
<1>3. SpaceEnforced
  BY <1>2 DEF SpaceEnforced, Counted
<1> QED BY <1>1, <1>3 DEF CleanupSettles

\* Only an eviction takes a record from those to be looked at and goes on.
LEMMA OnlyEvictTakes ==
    ASSUME TypeInv, ChosenInv, [ArtifactsNext]_artifactVars, NEW p \in Sweepers,
           sweep'[p].pc = "evict", NEW w \in sweep[p].todo \ sweep'[p].todo
    PROVE  w \in Runners /\ Evict(p, w)
<1>1. w \in Runners
  BY SweepFields
<1>2. ~SweepUnreferenced(p)
  BY UnreferencedEffect DEF ChosenInv, ChosenBy
<1>3. PICK v \in Runners : Evict(p, v)
  BY <1>2, EvictionSteps
<1>4. sweep'[p].todo = sweep[p].todo \ {v}
  BY <1>3, EvictEffect
<1> QED BY <1>1, <1>3, <1>4

\* What a step takes from the records to be looked at has expired, or the evidence that
\* may go is over the limit, or another sweep was about; every older record has been
\* dealt with.
LEMMA NextEvicts ==
    ASSUME CountingFacts, ArtifactsInv, [ArtifactsNext]_artifactVars, NEW p \in Sweepers,
           NEW w \in sweep[p].todo \ sweep'[p].todo, sweep'[p].pc = "evict"
    PROVE  /\ Expired(p, w) \/ p \notin alone \/ Cardinality(Loose) > Space
           /\ \A v \in Candidates(p) \ (sweep[p].failed \cup missed) :
                box[v] # "lost" /\ sweep[p].seen[v].finalized < sweep[p].seen[w].finalized
                  => \A k \in Paths(sweep[p].seen[v]) : file[v][k] = 0
<1>1. TypeInv /\ ChosenInv /\ SeenInv /\ CountInv
  BY DEF ArtifactsInv, SafeInv
<1>2. w \in Runners /\ Evict(p, w)
  BY <1>1, OnlyEvictTakes
<1>3. /\ sweep[p].pc = "evict" /\ (Expired(p, w) \/ CapDeletionPressure(p))
      /\ \A v \in sweep[p].todo : sweep[p].seen[w].finalized <= sweep[p].seen[v].finalized
  BY <1>2 DEF Evict
<1>4. ASSUME CapDeletionPressure(p), p \in alone PROVE Cardinality(Loose) > Space
  <2>1. Loose \subseteq Runners \X Kinds
    BY DEF Loose, Files
  <2>2. Cardinality(Loose) \in Nat
    BY <2>1, Parts
  <2>3. /\ sweep[p].total \in Int /\ sweep[p].protected \in Int
        /\ sweep[p].total - sweep[p].protected <= Cardinality(Loose)
    BY <1>1, <1>3, <1>4 DEF CountInv, CountBy
  <2>4. sweep[p].total - sweep[p].protected > Space
    BY <1>4 DEF CapDeletionPressure
  <2>5. Space \in Nat
    BY ArtifactsAssumption
  <2> QED BY SMT, <2>2, <2>3, <2>4, <2>5
<1>5. ASSUME NEW v \in Candidates(p) \ (sweep[p].failed \cup missed), box[v] # "lost",
             sweep[p].seen[v].finalized < sweep[p].seen[w].finalized
      PROVE  \A k \in Paths(sweep[p].seen[v]) : file[v][k] = 0
  <2>1. v \in DOMAIN sweep[p].seen /\ w \in DOMAIN sweep[p].seen
    BY <1>1 DEF ChosenInv, ChosenBy, Candidates
  <2>2. sweep[p].seen[v] \in Records /\ sweep[p].seen[w] \in Records
    BY <1>1, <2>1, SweepFields, CatalogType
  <2>3. sweep[p].seen[v].finalized \in Nat /\ sweep[p].seen[w].finalized \in Nat
    BY <2>2 DEF Records
  <2>4. ~(sweep[p].seen[w].finalized <= sweep[p].seen[v].finalized)
    BY SMT, <1>5, <2>3
  <2>5. v \notin sweep[p].todo
    BY <1>3, <2>4
  <2> QED BY <1>1, <1>3, <1>5, <2>5 DEF SeenInv, SeenBy
<1> QED BY <1>3, <1>4, <1>5
-----------------------------------------------------------------------------
(* The theorems, with the library's facts on finite sets. *)
INSTANCE FiniteSetTheorems

\* The artifacts are finitely many, so parts of them can be counted.
LEMMA CountingHolds == CountingFacts
<1>1. IsFiniteSet({"log"} \cup {"diag"} \cup {"res"})
  BY FS_Singleton, FS_Union
<1>2. IsFiniteSet(Kinds)
  BY <1>1 DEF Kinds
<1>3. IsFiniteSet(Runners \X Kinds)
  BY <1>2, RecordAssumption, FS_Product
<1>4. ASSUME NEW T \in SUBSET (Runners \X Kinds), NEW S \in SUBSET T
      PROVE  /\ Cardinality(S) \in Nat /\ Cardinality(T) \in Nat
             /\ Cardinality(S) <= Cardinality(T)
             /\ Cardinality(T \ S) = Cardinality(T) - Cardinality(S)
  <2>1. IsFiniteSet(T)
    BY <1>3, FS_Subset
  <2>2. IsFiniteSet(S) /\ Cardinality(S) <= Cardinality(T)
    BY <2>1, FS_Subset
  <2>3. Cardinality(S) \in Nat /\ Cardinality(T) \in Nat
    BY <2>1, <2>2, FS_CardinalityType
  <2>4. Cardinality(T \ S) = Cardinality(T) - Cardinality(T \cap S)
    BY <2>1, FS_Difference
  <2>5. T \cap S = S
    OBVIOUS
  <2> QED BY <2>2, <2>3, <2>4, <2>5
<1> QED BY <1>4, FS_EmptySet DEF CountingFacts

\* The artifacts of workers keep the whole invariant.
THEOREM ArtifactsInvariant == ArtifactsSpec => []ArtifactsInv
<1>1. ArtifactsInv /\ [ArtifactsNext]_artifactVars => ArtifactsInv'
  BY CountingHolds, NextArtifacts
<1> QED BY <1>1, InitArtifacts, PTL DEF ArtifactsSpec

\* A cleanup that went well, alone and undisturbed, leaves no more than TotalCapBytes of
\* evidence beside that of unfinished records and existing containers, and no record open
\* without its container.
THEOREM CleanupsSettle == ArtifactsSpec => []CleanupSettles
  BY InvSettles, ArtifactsInvariant, PTL

\* A cleanup beside which no other sweep began takes a record before its retention is
\* over only under pressure, which means that the evidence outside existing containers is
\* over TotalCapBytes.  Any cleanup, alone or not, takes a record only after every older
\* closed one, save those whose files could not be removed or whose container someone
\* else removed.
THEOREM EvictionHasCause == ArtifactsSpec => EvictedForCause
<1> DEFINE Cause ==
      \A p \in Sweepers :
         \A w \in sweep[p].todo \ sweep'[p].todo : sweep'[p].pc = "evict" =>
            /\ \/ Expired(p, w) \/ p \notin alone
               \/ Cardinality({f \in Files : f[1] \notin Exists \ missed}) > Space
            /\ \A v \in Candidates(p) \ (sweep[p].failed \cup missed) :
                 box[v] # "lost" /\ sweep[p].seen[v].finalized < sweep[p].seen[w].finalized =>
                   \A k \in Paths(sweep[p].seen[v]) : file[v][k] = 0
<1>1. ArtifactsInv /\ [ArtifactsNext]_artifactVars => Cause
  BY CountingHolds, NextEvicts DEF Loose
<1> QED BY <1>1, ArtifactsInvariant, PTL DEF ArtifactsSpec, EvictedForCause
=============================================================================
