CONSTANTS
    MaxShardId = 5
    Words = 2
    Inputs <- MCInputs
SPECIFICATION FairSpec
INVARIANT RegularGraphsServe
INVARIANT PlanTopological
INVARIANT PeelingComplete
INVARIANT BitExactRecovery
INVARIANT RecoverablePlansExecute
PROPERTY RecoveryEnds
CHECK_DEADLOCK FALSE
