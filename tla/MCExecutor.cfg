CONSTANTS
    Requests = {r1, r2, r3}
    NoRequest = NoRequest
    ShardIds <- MCShardIds
    Workers = {w1, w2}
    MaxQueueDepth = 0
    CudaFaults = TRUE
    SlotCounts = {1}
    Submissions <- MCSubmissions
SPECIFICATION FairExecutorSpec
INVARIANT ExecutorSound
PROPERTY QueueDrains
PROPERTY ShutdownDrains
CHECK_DEADLOCK FALSE
