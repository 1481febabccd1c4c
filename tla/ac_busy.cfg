SPECIFICATION MCSpec
CONSTANTS
    Ways = {"channels"}
    n1 = n1
    n2 = n2
    r1 = r1
    r2 = r2
    r3 = r3
    MaxSlots = 2
    Flags = {f1, f2}
    NoSlot = NoSlot
    Remotes = {n1, n2}
    Reqs = {r1, r2, r3}
    NoReq = NoReq
    NoChannel = NoChannel
    NoFlag = NoFlag
    MaxConnects = 2
    DirectSetups <- Directs
    Setups <- ChannelSetups
    Engines = {e1, e2, e3}
    Calls = {t1, t2}
    BufferSize = 4
    BlockSize = 3
    k1 = k1
    k2 = k2
    b1 = b1
    b2 = b2
    ServerBuffers = {s1, s2}
    NoBuffer = NoBuffer
    RelaySetups <- Shared
    e1 = e1
    e2 = e2
    e3 = e3
    t1 = t1
    t2 = t2
    NoCall = NoCall
    NoObject = NoObject
    MaxAttempts = 4
    LowMark = 1
    HighMark = 2
    MaxChannel = 3
PROPERTIES
    BusySpared
CHECK_DEADLOCK FALSE
