CONSTANTS
    MaxShardId = 7
    Requests = {r1, r2}
    NoRequest = NoRequest
    Threads = {t1}
    Workers = {w1}
    MaxQueueDepth = 1
    CudaFaults = FALSE
    Graph <- OneParity
    ShardIds <- ThreeShards
    Transports = {tr1}
    NoTransport = NoTransport
    PayloadSizes = {1}
    WaitCosts = {0, 3}
    MaxLate = 1
    Client = Client
    NoActor = NoActor
    WaitsFirst = FALSE
SPECIFICATION FairServingSpec
INVARIANT DestructionReleasesExecutor
INVARIANT StagedMatchesSupplied
PROPERTY NoUseAfterDestruction
PROPERTY WaitReturns
PROPERTY TeardownCompletes
CHECK_DEADLOCK FALSE
