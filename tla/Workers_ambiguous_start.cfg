SPECIFICATION FairSpec
CONSTANTS
    w1 = w1
    w2 = w2
    Worker = {w1}
    Limit = 1
    Capacities = {0, 1}
    MaxJobs = 1
    MaxFaults = 1
    Together = 0
PROPERTIES FailedStartIsReconciled
