\* Every overload policy, a stop request at any moment.
SPECIFICATION Spec
CONSTANTS
    Policies = {"block", "drop_newest", "latest"}
    IngressCapacity = 2
    StageCapacity = 1
    PoolFrames = 0
    MaxFrames = 4
    Stoppable = TRUE
    Faulty = {}
    FaultyFrames = {}
INVARIANTS FramesConserved CaptureOrder ReportAddsUp
PROPERTIES RunReturns
\* Nothing happens after run() has returned.
CHECK_DEADLOCK FALSE
