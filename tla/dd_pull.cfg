SPECIFICATION MCSpec
CONSTANTS
    t1 = t1
    t2 = t2
    Threads = {t1, t2}
    NoReq = 99
    PageSize = 2
    BufferSize = 4
    NumBuffers = 2
    MaxBlock = 3
    MaxTasks = 3
    ContBlock = 2
    MaxInfos = 20
    SendBatch = 1
    Groups = {"calls"}
    Setups <- MCSetups
    Halves = {"links"}
    A = A
    B = B
    Modes = {"direct"}
    MaxLinkNum = 1
INVARIANTS
    PullsOnLiveLinks
