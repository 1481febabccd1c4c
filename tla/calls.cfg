SPECIFICATION MCSpec
CONSTANTS
    r1 = r1
    r2 = r2
    Remotes = {r1, r2}
    Setups <- Deployments
    Threads = {t1, t2}
    Heartbeat = hb
    Clients = {c1, c2, c3}
    Mutexes = {m1, m2, m3}
    None = None
    MaxInflight = 1
    RemoteEngines = {r1, r2}
    Workers = {w1, w2}
    TaskQueueCapacity = 3
    MaxSubmits = 4
    Idle = Idle
INVARIANTS
    PoolBound
    ReservationsExact
    UseCountExact
    EvictionSparesTransfers
    NoClientAfterFinalize
    QuiescentStatus
    OneTaskPerRemote
    EngineOutlivesTasks
PROPERTIES
    RunsInOrder
    CallsReturn
CHECK_DEADLOCK FALSE
