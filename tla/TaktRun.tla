------------------------------ MODULE TaktRun ------------------------------
(***************************************************************************)
(* The program takt_run (apps/takt_run.cpp) around one run of a Pipeline   *)
(* object: its signal handler, which may only set a flag, the watcher      *)
(* thread that turns the flag into a stop request, and the quit key of the *)
(* preview window.  Parsing the command line and printing the report are   *)
(* left out.                                                               *)
(***************************************************************************)
EXTENDS RunControl

VARIABLES
    g_interrupted,
    watcher,  \* the thread interrupt_watcher: "none", "polling" or "done"
    app       \* main(): "setup", "run", "returned" or "exited"

app_vars == <<vars, g_interrupted, watcher, app>>

AppInit ==
    /\ Init
    /\ g_interrupted = FALSE /\ watcher = "none" /\ app = "setup"

\* The sinks that the options ask for.
AddSinks ==
    /\ app = "setup"
    /\ add_sink
    /\ UNCHANGED <<g_interrupted, watcher, app>>

\* The handlers are installed, the watcher is started and the run is called.
StartWatcher ==
    /\ app = "setup"
    /\ app' = "run" /\ watcher' = "polling"
    /\ UNCHANGED <<vars, g_interrupted>>

\* SIGINT or SIGTERM.
on_signal ==
    /\ app \in {"run", "returned"}
    /\ g_interrupted' = TRUE
    /\ UNCHANGED <<vars, watcher, app>>

\* The watcher finds the flag set, asks for the stop once and ends.
Watch ==
    /\ watcher = "polling" /\ g_interrupted
    /\ request_stop
    /\ watcher' = "done"
    /\ UNCHANGED <<g_interrupted, app>>

\* Its jthread is asked to stop, after the run or by its destructor.
WatcherEnds ==
    /\ watcher = "polling" /\ app = "returned"
    /\ watcher' = "done"
    /\ UNCHANGED <<vars, g_interrupted, app>>

\* run() or run_sequential() on the main thread.
CallRun(c) ==
    /\ app = "run"
    /\ Enter(c)
    /\ UNCHANGED <<g_interrupted, watcher, app>>

RunGoesOn(c) ==
    /\ RunStep(c)
    /\ UNCHANGED <<g_interrupted, watcher, app>>

\* The run ends by itself or fails.  That the program can make its threads is
\* taken for granted here: ThreadsThrow is left to RunControl.
RunEnds(c) ==
    /\ LoopEnds(c) \/ LoopThrows(c) \/ BeginThrows(c) \/ FinishThrows(c)
    /\ UNCHANGED <<g_interrupted, watcher, app>>

\* The sink calls on_quit for a quit key, from the loop; another call would
\* change nothing.
QuitKey(c) ==
    /\ pc[c] = "loop" /\ sinks > 0
    /\ token[c] \notin requested
    /\ request_stop
    /\ UNCHANGED <<g_interrupted, watcher, app>>

\* The run has returned its report or thrown.
RunReturned ==
    /\ app = "run" /\ runs > 0 /\ ~running
    /\ app' = "returned"
    /\ UNCHANGED <<vars, g_interrupted, watcher>>

\* The watcher is joined on the way out.
Exit ==
    /\ app = "returned" /\ watcher = "done"
    /\ app' = "exited"
    /\ UNCHANGED <<vars, g_interrupted, watcher>>

AppNext ==
    \/ AddSinks \/ StartWatcher \/ on_signal \/ Watch \/ WatcherEnds
    \/ RunReturned \/ Exit
    \/ \E c \in Callers : CallRun(c) \/ RunGoesOn(c) \/ RunEnds(c) \/ QuitKey(c)

\* The main thread and the watcher go on; the source may be endless, and no
\* signal or key has to come.
AppFairness ==
    /\ WF_app_vars(StartWatcher) /\ WF_app_vars(Watch) /\ WF_app_vars(WatcherEnds)
    /\ WF_app_vars(RunReturned) /\ WF_app_vars(Exit)
    /\ \A c \in Callers : WF_app_vars(CallRun(c)) /\ WF_app_vars(RunGoesOn(c))

AppSpec == AppInit /\ [][AppNext]_app_vars /\ AppFairness

-----------------------------------------------------------------------------
\* Claim of the comments on the watcher, which "turns the flag into a proper
\* stop request", and on request_stop(), which "Ends the current run
\* gracefully": an interrupted program comes to its end.
InterruptEndsRun == g_interrupted /\ app = "run" ~> app = "exited"
=============================================================================
