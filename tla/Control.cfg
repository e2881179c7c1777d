SPECIFICATION MCSpec
CONSTANTS
    Restarters = {r1, r2}
    Stoppers = {}
    LastPid = 2
    Versions = {v1, v2}
    CliVersion = v1
    MaxLoad = 0
    StreakLimit = 1
    DegradedBudget = 1
    MaxAttempts = 1
    None = None
    Containers <- Two
    Operators <- Two
    Calls = {c1, c2, c3}
    Capacity = 1
    NoAnswer = NoAnswer
CHECK_DEADLOCK FALSE
SYMMETRY RestartSymmetry
INVARIANTS
    TaskStartAuthorised OnlyConfirmedStopped ReportIsTrue
    NoSendOnClosed NoLostWakeup ReportsAreTrue
PROPERTY
    KillsAreDrained
