\* A run of either kind with more captures than frames.
SPECIFICATION Spec
CONSTANTS
    PoolSize = 3
    ImageBytes = 1
    Configs <- SmallConfigs
INVARIANTS FramesFresh
PROPERTIES AcquireReturns
\* The run has ended.
CHECK_DEADLOCK FALSE
