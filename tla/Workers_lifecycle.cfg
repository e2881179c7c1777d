SPECIFICATION MCSpec
CONSTANTS
    w1 = w1
    w2 = w2
    Worker <- Two
    Limit = 2
    Capacities = {0, 1}
    MaxJobs = 1
    MaxFaults = 3
    Together = 0
INVARIANTS NoJobStopped SavedBeforeRemoval RegistrationsAccounted
PROPERTIES CleanupIsSafe ExitedIsRemoved UnregisteredIsRetired
