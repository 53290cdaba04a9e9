\* The documented promise that an interrupt ends the run.
SPECIFICATION AppSpec
CONSTANTS
    Callers = {"main"}
    MaxSinks = 2
    MaxRuns = 1
    MaxStops = 3
PROPERTIES InterruptEndsRun
\* The program has exited.
CHECK_DEADLOCK FALSE
