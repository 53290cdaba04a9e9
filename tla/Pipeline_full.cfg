\* More frames than the pipeline can hold: every hand-off fills up.  The source
\* and inference may throw, inference also with everything around it full.
SPECIFICATION Spec
CONSTANTS
    Policies = {"block"}
    IngressCapacity = 1
    StageCapacity = 1
    PoolFrames = 0
    MaxFrames = 10
    Stoppable = FALSE
    Faulty = {0, 2}
    FaultyFrames = {1, 5}
INVARIANTS CaptureNeverStarves AbortStopsDelivery
\* Nothing happens after run() has returned.
CHECK_DEADLOCK FALSE
