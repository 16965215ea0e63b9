SPECIFICATION ClusterSpec
CONSTANTS
    MaxShardId = 7
    ConcurrencyLimit = 2
    MaxQueueDepth = 3
    ServiceTimes <- MCServiceTimes
    MaxTime = 10
    MaxJobs = 10
    Graph <- MCGraph
    Workloads <- MCWorkloads
    WaitCosts <- MCWaitCosts
    RequestIds = {1, 2}
    NoTime = NoTime
    MaxRuns = 2
INVARIANTS
    QueueSound
    WorkConserving
    QuotesAreHonoured
    ReportMatchesTrace
PROPERTY ImplementsRequestSimulation
CHECK_DEADLOCK FALSE
