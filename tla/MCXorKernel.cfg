SPECIFICATION KernelSpec
CONSTANTS
    WordCounts <- MCWordCounts
    Devices <- MCDevices
INVARIANTS
    KernelCoversShard
PROPERTY
    WordsWrittenOnce
CHECK_DEADLOCK FALSE
