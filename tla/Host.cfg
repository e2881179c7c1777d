SPECIFICATION MCSpec
CONSTANTS
    controller = controller
    command = command
    t1 = t1
    t2 = t2
    t3 = t3
    Process <- Processes
    Thread <- Threads
    Home <- HomeOf
    Value = {v1, v2}
    Missing = Missing
    Corrupt = Corrupt
    MaxFaults = 2
    PoolCount = 2
    MaxCapacity <- TwoEach
    WarmIdle <- OneWarm
    Memory <- Sizes
    IncreaseMargin <- Margins
    MaximumWorkers = 3
    InteractiveWorkers = 2
    DefaultMemory = 2
    Floor = 2
    Word = 64
    Inputs <- AllInputs
    ObservationWindow = 2
    HysteresisWindow = 1
    StableACWindow = 2
    PowerAlways = FALSE
    Readings <- MCReadings
    MaxTime = 2
    MaxTrace = 4
SYMMETRY Symmetric
INVARIANTS
    MutualExclusion LimitsHeld MemoryNeverWraps AssignedBeforeWarm DrainIsSafe CapacityIsSteady
PROPERTIES
    NeverMissingAgain ImplementsRegister GatesAreWindowed
