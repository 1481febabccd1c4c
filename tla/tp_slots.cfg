SPECIFICATION MCSpec
CONSTANTS
    Depth = 6
    MaxPublish = 2
    KernelMax = 3
    BatchSize = 4
    MaxTasks = 18
    Parts = {"pool"}
    Pools <- UbMemSetups
    c1 = c1
    c2 = c2
    Handles = {h1, h2}
    NoHandle = NoHandle
    MaxPoolSize = 2
    HostHandles = {h1, h2, h3}
    FlagCount = 2
    ListNum = 2
    HostBatch = 2
INVARIANTS
    SlotsKept
CHECK_DEADLOCK FALSE
