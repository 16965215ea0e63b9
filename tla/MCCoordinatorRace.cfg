CONSTANTS
    MaxShardId = 7
    Requests = {r1}
    NoRequest = NoRequest
    Threads = {t1, t2}
    Workers = {w1}
    MaxQueueDepth = 0
    CudaFaults = FALSE
    Graph <- TwoParity
    ShardIds <- FourShards
    Transports = {tr1}
    NoTransport = NoTransport
    PayloadSizes = {1}
    WaitCosts = {0, 2}
    MaxLate = 1
SPECIFICATION Spec
INVARIANT StagedMatchesSupplied
CHECK_DEADLOCK FALSE
