\* The documented promise that a stop drains what was admitted.
SPECIFICATION Spec
CONSTANTS
    Policies = {"block"}
    IngressCapacity = 1
    StageCapacity = 1
    PoolFrames = 0
    MaxFrames = 2
    Stoppable = TRUE
    Faulty = {}
    FaultyFrames = {}
INVARIANTS StopDrainsAdmitted
\* Nothing happens after run() has returned.
CHECK_DEADLOCK FALSE
