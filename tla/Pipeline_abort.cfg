\* Source and sink may throw and somebody may stop the run.  The pool is smaller
\* than the pipeline: capture sleeps in acquire() and leaves it for a frame or
\* for a stop.
SPECIFICATION Spec
CONSTANTS
    Policies = {"block"}
    IngressCapacity = 1
    StageCapacity = 1
    PoolFrames = 2
    MaxFrames = 4
    Stoppable = TRUE
    Faulty = {0, 4}
    FaultyFrames = {0, 1, 2, 3}
INVARIANTS FramesConserved
PROPERTIES RunReturns
\* Nothing happens after run() has returned.
CHECK_DEADLOCK FALSE
