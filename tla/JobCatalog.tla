----------------------------- MODULE JobCatalog -----------------------------
(***************************************************************************)
(* The job index as a file: what a save sheds when jobs.json is over its   *)
(* size limit, and the two files kept beside it, the assignment-time       *)
(* sidecar and the drop journal.  Byte counts are those of a record whose  *)
(* optional JSON fields cost one each.                                     *)
(***************************************************************************)
EXTENDS JobRecords

CONSTANTS RecordBase,   \* bytes of a record with no optional field
          Header,       \* bytes of an empty catalogue or journal
          JournalCap    \* bytes the drop journal may hold

ASSUME CatalogAssumption ==
    RecordBase \in Nat \ {0} /\ Header \in Nat /\ JournalCap \in Nat
-----------------------------------------------------------------------------
Optional == {"container", "log", "diag", "job", "result", "tomb"}

Present(record, field) ==
    CASE field \in {"job", "result"} -> record[field] # None
      [] field = "tomb"              -> record.tomb # 0
      [] OTHER                       -> record[field]

EncodedBytes(catalog) ==
    Header + RecordBase * Cardinality(DOMAIN catalog)
           + Cardinality({x \in (DOMAIN catalog) \X Optional :
                            Present(catalog[x[1]], x[2])})

TerminalTime(record) ==
    IF record.finalized # 0 THEN record.finalized ELSE record.completed

\* Mutant: a finalised record is dropped although its job still runs.
CompactsAnyTerminal(record) ==
    record.tomb # 0 \/ (~record.open /\ TerminalTime(record) # 0)

Compactable(record) ==
    \/ record.tomb # 0
    \/ /\ ~record.open /\ TerminalTime(record) # 0
       /\ record.job = None \/ record.started = 0 \/ record.completed # 0

Completed(catalog) ==
    {r \in DOMAIN catalog : catalog[r].tomb = 0 /\ Compactable(catalog[r])}

\* Oldest first, by tombstone or terminal time and then by name.
EvictionTime(record) == IF record.tomb # 0 THEN record.tomb ELSE TerminalTime(record)

EvictedBefore(catalog, r, q) ==
    \/ EvictionTime(catalog[r]) < EvictionTime(catalog[q])
    \/ EvictionTime(catalog[r]) = EvictionTime(catalog[q]) /\ r < q

\* How many entries a pass drops: the overshoot in average entries, plus one.
DropCount(overshoot, encoded, count, available) ==
    LET average == encoded \div count
        wanted  == overshoot \div (IF average < 1 THEN 1 ELSE average) + 1
    IN IF wanted > available THEN available ELSE wanted

CompactOldestFirst(catalog, oldest, overshoot) ==
    LET n == DropCount(overshoot, EncodedBytes(catalog),
                       Cardinality(DOMAIN catalog), Cardinality(oldest))
    IN {r \in oldest :
          Cardinality({q \in oldest : EvictedBefore(catalog, q, r)}) < n}

\* Mutant: the tiers are swapped.
CompactsCompletedFirst(state, cap) ==
    LET catalog   == state.catalog
        overshoot == EncodedBytes(catalog) - cap
        tier      == IF Completed(catalog) # {} THEN Completed(catalog)
                     ELSE Tombstoned(catalog)
    IN IF overshoot <= 0 \/ tier = {} THEN state
       ELSE [catalog |-> [r \in DOMAIN catalog \ CompactOldestFirst(catalog, tier, overshoot)
                            |-> catalog[r]],
             dropped |-> state.dropped]

\* The members of a set of names in order.
InOrder(names) ==
    CHOOSE s \in [1..Cardinality(names) -> names] :
       \A i, j \in 1..Cardinality(names) : i < j => s[i] < s[j]

CompactionPass(state, cap) ==
    LET catalog   == state.catalog
        overshoot == EncodedBytes(catalog) - cap
        tier      == IF Tombstoned(catalog) # {} THEN Tombstoned(catalog)
                     ELSE Completed(catalog)
        victims   == CompactOldestFirst(catalog, tier, overshoot)
        journaled == {r \in victims : catalog[r].tomb = 0}
    IN IF overshoot <= 0 \/ tier = {} THEN state
       ELSE [catalog |-> [r \in DOMAIN catalog \ victims |-> catalog[r]],
             dropped |-> state.dropped \o InOrder(journaled)]

\* Every pass removes a record, so as many passes as records reach the end.
EncodeWithinCapacity(catalog, cap) ==
    LET most == Cardinality(DOMAIN catalog)
        pass[n \in 0..most] == IF n = 0 THEN [catalog |-> catalog, dropped |-> <<>>]
                               ELSE CompactionPass(pass[n - 1], cap)
    IN pass[most]

Fits(catalog, cap) == EncodedBytes(catalog) <= cap
-----------------------------------------------------------------------------
\* jobs.json does not hold assignment times: they live in the sidecar.
Stored(catalog) == [r \in DOMAIN catalog |-> [catalog[r] EXCEPT !.assigned = 0]]

AssignTimesFromCatalog(catalog) ==
    {[runner |-> r, job |-> catalog[r].job, assigned |-> catalog[r].assigned] :
        r \in {q \in DOMAIN catalog : catalog[q].assigned # 0}}

HydrateAssignTimes(catalog, times) ==
    LET byKey(r) == {t \in times : t.runner = r}
        byJob(r) == {t \in times : t.job = catalog[r].job /\ t.job # None}
        found(r) == IF byKey(r) # {} THEN byKey(r) ELSE byJob(r)
    IN [r \in DOMAIN catalog |->
          IF catalog[r].assigned = 0 /\ found(r) # {}
          THEN [catalog[r] EXCEPT !.assigned = (CHOOSE t \in found(r) : TRUE).assigned]
          ELSE catalog[r]]

\* An entry of the journal is the runner whose record was dropped, whose paths
\* follow from its name.  It keeps the newest entries; each costs RecordBase bytes.
EncodeDropJournal(journal) ==
    LET encoded(j) == Header + RecordBase * Len(j)
        pass[n \in 0..Len(journal)] ==
          IF n = 0 THEN journal
          ELSE LET j == pass[n - 1] IN
               IF j = <<>> \/ encoded(j) <= JournalCap THEN j
               ELSE SubSeq(j, 1 + DropCount(encoded(j) - JournalCap, encoded(j),
                                            Len(j), Len(j)), Len(j))
    IN pass[Len(journal)]

AppendDropJournal(journal, dropped) ==
    IF dropped = <<>> THEN journal ELSE EncodeDropJournal(journal \o dropped)
=============================================================================
