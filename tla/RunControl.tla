----------------------------- MODULE RunControl -----------------------------
(***************************************************************************)
(* The life of a Pipeline object over several runs (pipeline.cpp): the     *)
(* guard that admits one run at a time, begin_run with its warm-up and the *)
(* sinks' on_start, the stop_source that each run installs for itself,     *)
(* run() and run_sequential() as one loop that a stop, the end of the      *)
(* source or an exception ends, and the sinks' on_finish.  What happens    *)
(* inside a pipelined loop is Pipeline.tla.                                *)
(*                                                                         *)
(* request_stop() comes from any thread: takt_run's interrupt watcher, a   *)
(* sink's quit key, a test.                                                *)
(*                                                                         *)
(* Operators named after a mistake are wrong versions of the definition    *)
(* after them and not part of the specification.                           *)
(***************************************************************************)
EXTENDS Integers, FiniteSets

CONSTANTS Callers,   \* threads that call run() or run_sequential()
          MaxSinks,  \* bound: sinks that are added
          MaxRuns,   \* bound: runs that are begun
          MaxStops   \* bound: calls of request_stop()

ASSUME RunControlAssumption ==
    /\ IsFiniteSet(Callers)
    /\ MaxSinks \in Nat /\ MaxRuns \in Nat /\ MaxStops \in Nat

VARIABLES
    running,
    stop_source,  \* number of the stop_source in the member stop_source_
    requested,    \* stop_sources on which a stop was requested
    sinks,        \* how many sinks were added
    started,      \* sinks whose on_start the current begin_run has called
    open,         \* sinks with an on_start and no on_finish after it
    pc, mode,     \* per caller: location, which of the two entry points
    token,        \* per caller: the stop_source whose token its loop watches
    runs, stops,  \* how many runs were begun, how many stops asked for
    asked,        \* history: a stop was asked for since the current run began
    looped        \* history: the current or last run got past begin_run

vars == <<running, stop_source, requested, sinks, started, open, pc, mode,
          token, runs, stops, asked, looped>>

Goto(c, l) == pc' = [pc EXCEPT ![c] = l]

Init ==
    /\ running = FALSE
    /\ stop_source = 0 /\ requested = {}
    /\ sinks = 0 /\ started = 0 /\ open = {}
    /\ pc = [c \in Callers |-> "idle"]
    /\ mode = [c \in Callers |-> "pipelined"]
    /\ token = [c \in Callers |-> 0]
    /\ runs = 0 /\ stops = 0
    /\ asked = FALSE /\ looped = FALSE

-----------------------------------------------------------------------------
\* add_sink() refuses while a run is in progress.  The look at running_ and the
\* push_back are one step: sinks are set up by the thread that runs the pipeline
\* later, so that no run begins in between.
add_sink ==
    /\ ~running
    /\ sinks < MaxSinks
    /\ sinks' = sinks + 1
    /\ UNCHANGED <<started, running, stop_source, requested, open, pc, mode,
                   token, runs, stops, asked, looped>>

EnterUnguarded(c) ==
    /\ pc[c] = "idle"
    /\ runs < MaxRuns
    /\ runs' = runs + 1
    /\ running' = TRUE
    /\ started' = 0
    /\ \E m \in {"pipelined", "sequential"} : mode' = [mode EXCEPT ![c] = m]
    /\ asked' = FALSE /\ looped' = FALSE
    /\ Goto(c, "warmup")
    /\ UNCHANGED <<stop_source, requested, sinks, open, token, stops>>

\* RunGuard: the exchange lets one caller in; the others get a logic_error,
\* which leaves everything as it was.
Enter(c) ==
    /\ pc[c] = "idle"
    /\ runs < MaxRuns
    /\ ~running
    /\ runs' = runs + 1
    /\ running' = TRUE
    /\ started' = 0
    /\ \E m \in {"pipelined", "sequential"} : mode' = [mode EXCEPT ![c] = m]
    /\ asked' = FALSE /\ looped' = FALSE
    /\ Goto(c, "warmup")
    /\ UNCHANGED <<stop_source, requested, sinks, open, token, stops>>

\* begin_run: metrics and tracker start over, the backend warms up.
WarmUp(c) ==
    /\ pc[c] = "warmup"
    /\ Goto(c, "start")
    /\ UNCHANGED <<running, stop_source, requested, sinks, started, open, mode,
                   token, runs, stops, asked, looped>>

\* begin_run: on_start of every sink, in the order they were added.
StartSink(c) ==
    /\ pc[c] = "start"
    /\ started < sinks
    /\ started' = started + 1
    /\ open' = open \cup {started + 1}
    /\ UNCHANGED <<running, stop_source, requested, sinks, pc, mode, token,
                   runs, stops, asked, looped>>

InstallKeepsSource(c) ==
    /\ pc[c] = "start"
    /\ started = sinks
    /\ token' = [token EXCEPT ![c] = stop_source]
    /\ Goto(c, "setup")
    /\ UNCHANGED <<running, stop_source, requested, sinks, started, open, mode,
                   runs, stops, asked, looped>>

\* The last act of begin_run: a new stop_source for this run, under the lock.
Install(c) ==
    /\ pc[c] = "start"
    /\ started = sinks
    /\ stop_source' = stop_source + 1
    /\ token' = [token EXCEPT ![c] = stop_source + 1]
    /\ Goto(c, "setup")
    /\ UNCHANGED <<running, requested, sinks, started, open, mode, runs, stops,
                   asked, looped>>

\* The pool, the hand-offs and the threads of the run are made.
SetUp(c) ==
    /\ pc[c] = "setup"
    /\ looped' = TRUE
    /\ Goto(c, "loop")
    /\ UNCHANGED <<running, stop_source, requested, sinks, started, open, mode,
                   token, runs, stops, asked>>

LoopWatchesOldToken(c) ==
    /\ pc[c] = "loop"
    /\ token[c] - 1 \in requested
    /\ Goto(c, "finish")
    /\ UNCHANGED <<running, stop_source, requested, sinks, started, open, mode,
                   token, runs, stops, asked, looped>>

\* The loop sees the stop; a pipelined one drains and joins its threads.
LoopStopped(c) ==
    /\ pc[c] = "loop"
    /\ token[c] \in requested
    /\ Goto(c, "finish")
    /\ UNCHANGED <<running, stop_source, requested, sinks, started, open, mode,
                   token, runs, stops, asked, looped>>

\* The source ends, or max_frames is reached.
LoopEnds(c) ==
    /\ pc[c] = "loop"
    /\ Goto(c, "finish")
    /\ UNCHANGED <<running, stop_source, requested, sinks, started, open, mode,
                   token, runs, stops, asked, looped>>

LoopThrowsUnfinished(c) ==
    /\ pc[c] = "loop"
    /\ Goto(c, "leave")
    /\ UNCHANGED <<running, stop_source, requested, sinks, started, open, mode,
                   token, runs, stops, asked, looped>>

\* An exception in the loop: run() aborts, which requests the stop of its own
\* source, and finishes the sinks before it rethrows; run_sequential() lets
\* the exception through.
LoopThrows(c) ==
    /\ pc[c] = "loop"
    /\ IF mode[c] = "pipelined"
       THEN /\ requested' = requested \cup {token[c]}
            /\ Goto(c, "finish")
       ELSE /\ Goto(c, "leave")
            /\ UNCHANGED requested
    /\ UNCHANGED <<running, stop_source, sinks, started, open, mode, token,
                   runs, stops, asked, looped>>

\* An exception before the loop: the warm-up, a sink's on_start, the allocation
\* of the run's frames and hand-offs, or the first stage thread.
BeginThrows(c) ==
    /\ pc[c] \in {"warmup", "start", "setup"}
    /\ Goto(c, "leave")
    /\ UNCHANGED <<running, stop_source, requested, sinks, started, open, mode,
                   token, runs, stops, asked, looped>>

\* A later stage thread cannot be made: the destructors of those before it join
\* them, and nobody closes the hand-offs on which they wait, stop or no stop.
ThreadsThrow(c) ==
    /\ pc[c] = "setup" /\ mode[c] = "pipelined"
    /\ Goto(c, "stuck")
    /\ UNCHANGED <<running, stop_source, requested, sinks, started, open, mode,
                   token, runs, stops, asked, looped>>

\* on_finish of every sink (finish_run, or the error path of run).
Finish(c) ==
    /\ pc[c] = "finish"
    /\ open' = {}
    /\ Goto(c, "leave")
    /\ UNCHANGED <<running, stop_source, requested, sinks, started, mode,
                   token, runs, stops, asked, looped>>

\* on_finish of sink k throws: those after it are not called.
FinishThrows(c) ==
    /\ pc[c] = "finish"
    /\ \E k \in 1..sinks : open' = open \ (1..(k - 1))
    /\ Goto(c, "unfinished")
    /\ UNCHANGED <<running, stop_source, requested, sinks, started, mode,
                   token, runs, stops, asked, looped>>

\* ~RunGuard, however the run ends.
Leave(c) ==
    /\ pc[c] \in {"leave", "unfinished"}
    /\ running' = FALSE
    /\ Goto(c, "idle")
    /\ UNCHANGED <<stop_source, requested, sinks, started, open, mode, token,
                   runs, stops, asked, looped>>

\* request_stop(), under the lock.
request_stop ==
    /\ stops < MaxStops
    /\ stops' = stops + 1
    /\ requested' = requested \cup {stop_source}
    /\ asked' = running
    /\ UNCHANGED <<running, stop_source, sinks, started, open, pc, mode, token,
                   runs, looped>>

-----------------------------------------------------------------------------
RunStep(c) ==
    \/ WarmUp(c) \/ StartSink(c) \/ Install(c) \/ SetUp(c)
    \/ LoopStopped(c) \/ Finish(c) \/ Leave(c)

Next ==
    \/ add_sink
    \/ request_stop
    \/ \E c \in Callers :
          \/ Enter(c) \/ RunStep(c) \/ LoopEnds(c)
          \/ LoopThrows(c) \/ BeginThrows(c) \/ ThreadsThrow(c) \/ FinishThrows(c)

\* A caller inside run() goes on.  The source may be endless, and nobody has
\* to begin a run, stop it or fail.
Fairness == \A c \in Callers : WF_vars(RunStep(c))

Spec == Init /\ [][Next]_vars /\ Fairness

-----------------------------------------------------------------------------
Inside == {c \in Callers : pc[c] # "idle"}

TypeOK ==
    /\ running \in BOOLEAN
    /\ stop_source \in 0..MaxRuns
    /\ requested \subseteq 0..MaxRuns
    /\ sinks \in 0..MaxSinks /\ started \in 0..MaxSinks
    /\ open \subseteq 1..MaxSinks
    /\ pc \in [Callers -> {"idle", "warmup", "start", "setup", "loop",
                           "finish", "leave", "unfinished", "stuck"}]
    /\ mode \in [Callers -> {"pipelined", "sequential"}]
    /\ token \in [Callers -> 0..MaxRuns]
    /\ runs \in 0..MaxRuns /\ stops \in 0..MaxStops
    /\ asked \in BOOLEAN /\ looped \in BOOLEAN

\* RunGuard: the object is reusable after every run that leaves, failed ones
\* included, and never used by two at once: running_ is set exactly while one
\* caller is in.
OneRunAtATime == Cardinality(Inside) = (IF running THEN 1 ELSE 0)

\* A stop meant for an earlier run never ends a later one: a loop finds its
\* stop requested only if somebody asked since its own run began.
NoStaleStop ==
    \A c \in Callers : pc[c] = "loop" /\ token[c] \in requested => asked

\* A pipelined run that got as far as its loop leaves no sink open, however
\* the loop ends and whatever earlier runs left behind, unless an on_finish
\* itself throws ("unfinished").
SinksFinished ==
    \A c \in Callers :
        pc[c] = "leave" /\ looped /\ mode[c] = "pipelined" => open = {}

\* A stop that reaches the stop_source of the run in progress ends it, even
\* with an endless source.
InstalledStopEndsRun ==
    \A c \in Callers :
        pc[c] = "loop" /\ token[c] \in requested ~> pc[c] = "idle"
=============================================================================
