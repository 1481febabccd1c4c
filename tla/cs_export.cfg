SPECIFICATION MCSpec
CONSTANTS
    Parts = {"fabric"}
    Setups <- ServerSetups
    Peers = {1, 2}
    MaxPending = 1
    MaxNotifies = 1
    Clients = {"a", "b"}
    Endpoints = {"a", "b"}
    BlockPages = 2
    PoolStart = 100
    MaxPhys = 3
    MaxExports = 2
    Threads = {1, 2}
    Requests = {1, 2}
    Addrs = {1, 2, 3, 4}
    NoKey = 0
    Loads <- FreshLoads
    Cases <- AllCases
INVARIANT
    ExportedOnce
