SPECIFICATION MCSpec
CONSTANTS
    Runners <- MCJobSet
    Jobs <- MCJobSet
    Results = {done}
    None = None
    MaxMessages = 4
    MaxFaults = 2
    RecordBase = 3
    Header = 1
    JournalCap = 5
    Cap = 9
    TombstoneRetention = 1
    MaxNow = 2
    Space = 3
    Retention = 2
    MaxTime = 3
    Sweepers = {1, 2}
    Reconciler = 1
    MaxLapses = 1
    MaxCommands = 1
INVARIANTS
    DeletionLosesNothing RetriesAreIdempotent
    AssignmentKept CompactionIsOldestFirst
    TombstoneIsEmpty CleanupSettles
PROPERTIES
    EventsRecorded SavesKeepActive
    ProtectedKept RemovedOverEvidence EvictedForCause
