CONSTANTS
    MaxShardId = 7
    Requests = {r1}
    NoRequest = NoRequest
    Threads = {t1, t2}
    Workers = {w1}
    MaxQueueDepth = 0
    CudaFaults = TRUE
    Graph <- TwoParity
    ShardIds <- FourShards
    Transports = {tr1, tr2}
    NoTransport = NoTransport
    PayloadSizes = {1, 2}
    WaitCosts = {0, 2}
    MaxLate = 1
SPECIFICATION Spec
INVARIANT CompletedHasAllShards
INVARIANT CompletedReleasesExecutor
INVARIANT DecodesOnlyUploaded
INVARIANT OneRecoveryPerRequest
PROPERTY CompletesOnce
PROPERTY ImplementsLifecycle
CHECK_DEADLOCK FALSE
