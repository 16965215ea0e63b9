CONSTANTS
    MaxShardId = 7
    Requests = {r1, r2}
    NoRequest = NoRequest
    Threads = {t1, t2}
    Workers = {w1}
    MaxQueueDepth = 0
    CudaFaults = FALSE
    Graph <- OneParity
    ShardIds <- ThreeShards
    Transports = {tr1, tr2}
    NoTransport = NoTransport
    PayloadSizes = {1}
    WaitCosts = {0, 2}
    MaxLate = 1
SPECIFICATION FairSpec
INVARIANT TypeOK
INVARIANT OneRecoveryPerRequest
PROPERTY SubmissionResolves
CHECK_DEADLOCK FALSE
