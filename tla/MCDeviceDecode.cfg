CONSTANT MaxShardId = 7
CONSTANT CudaFaults = TRUE
CONSTANT MaxLaunches = 2
CONSTANT Calls <- MCCalls
SPECIFICATION DeviceSpec
INVARIANT ExecutedEquationsHold
INVARIANT RefusalsAgree
INVARIANT ResultsMatchCpu
INVARIANT HostShardsGenuine
CHECK_DEADLOCK FALSE
