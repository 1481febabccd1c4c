SPECIFICATION Spec
CONSTANTS
    Setups <- MCSetups
    MaxPerHandler = 1
    PTps = {1, 2, 4}
    DTps = {1, 2}
    HeadCounts = {1, 2, 4}
    Cps = {1, 2}
    BlockSizes = {1, 2, 4}
    MaxPrompt = 5
    MaxBlocks = 3
    Deployments = {"heads", "pair", "stop", "stop2", "idle", "shards", "lossy", "stages", "kernels", "prefix"}
INVARIANTS
    ReportedOnce
    
    
    
PROPERTIES
    RequestsEnd
CHECK_DEADLOCK FALSE
