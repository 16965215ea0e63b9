SPECIFICATION SweepSpec
CONSTANTS
    MaxShardId = 7
    ConcurrencyLimit = 1
    MaxQueueDepth = 2
    ServiceTimes = {}
    MaxTime = 10
    MaxJobs = 10
    Graph <- MCGraph
    Workloads = {}
    RequestIds = {0, 1}
    NoTime = NoTime
    WaitCosts = {}
    MaxRuns = 1
    PointCount = 1
    NumRequests = 2
    Gaps = {0, 1}
    Draws <- MCDraws
    ReplicaDraws <- MCReplicaDraws
    Degree = 2
    ShardSizeLists <- MCShardSizeLists
    DecodeCosts <- MCDecodeCosts
INVARIANTS
    ReplicasBalanced
    CodedRowsExact
    StrategiesNeverSlower
    PercentilesExact
CHECK_DEADLOCK FALSE
