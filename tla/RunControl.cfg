\* Three runs of one Pipeline object, two callers, two stop requests.
SPECIFICATION Spec
CONSTANTS
    Callers = {"a", "b"}
    MaxSinks = 2
    MaxRuns = 3
    MaxStops = 2
INVARIANTS OneRunAtATime NoStaleStop SinksFinished
PROPERTIES InstalledStopEndsRun
\* Every run begun and every stop asked for: nothing is left to do.
CHECK_DEADLOCK FALSE
