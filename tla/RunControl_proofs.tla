-------------------------- MODULE RunControl_proofs --------------------------
(***************************************************************************)
(* The guard of a Pipeline object and the isolation of its runs hold for   *)
(* any number of callers, sinks, runs and stop requests.                   *)
(*                                                                         *)
(* Neither property is inductive.  That one caller is inside follows from  *)
(* the guard being down exactly while nobody is; that a stop does not      *)
(* survive its run follows from the numbers of the stop_sources: none is   *)
(* requested before it is installed, and the loop in progress watches the  *)
(* installed one.  That a pipelined run leaves no sink open needs to know  *)
(* which exceptions can come before the loop.                              *)
(***************************************************************************)
EXTENDS RunControl, FiniteSetTheorems, TLAPS

\* running_ is set while a caller is inside, and then nobody else is.
Guarded ==
    /\ \A c \in Callers : pc[c] # "idle" => running
    /\ running => \E c \in Callers : pc[c] # "idle"
    /\ \A c, d \in Callers : pc[c] # "idle" /\ pc[d] # "idle" => c = d

\* Each run installs at most one stop_source of its own.
Numbered ==
    /\ stop_source <= runs
    /\ \A c \in Callers : pc[c] \in {"warmup", "start"} => stop_source < runs
    /\ \A s \in requested : s <= stop_source

\* A run past begin_run watches the installed stop_source, on which only
\* requests made during this run count.
Watched ==
    \A c \in Callers : pc[c] \in {"setup", "loop"} =>
        /\ token[c] = stop_source
        /\ stop_source \in requested => asked

\* A run that is still setting up has not looped, and only a pipelined one
\* that has finished its sinks, or never looped, leaves in the regular way.
Finishing ==
    \A c \in Callers :
        /\ pc[c] \in {"warmup", "start", "setup"} => ~looped
        /\ pc[c] = "leave" /\ looped /\ mode[c] = "pipelined" => open = {}

IInv == TypeOK /\ Guarded /\ Numbered /\ Watched /\ Finishing

-----------------------------------------------------------------------------
\* A new Pipeline object is idle and nobody has asked it to stop.
LEMMA InvInit == Init => IInv
<1> SUFFICES ASSUME Init PROVE IInv
  OBVIOUS
<1>1. TypeOK
  <2>1. /\ pc \in [Callers -> {"idle"}] /\ mode \in [Callers -> {"pipelined"}]
        /\ token \in [Callers -> {0}]
    BY DEF Init
  <2>2. /\ stop_source \in 0..MaxRuns /\ requested \subseteq 0..MaxRuns
        /\ sinks \in 0..MaxSinks /\ started \in 0..MaxSinks
        /\ open \subseteq 1..MaxSinks
        /\ runs \in 0..MaxRuns /\ stops \in 0..MaxStops /\ 0 \in 0..MaxRuns
    BY RunControlAssumption DEF Init
  <2>3. running \in BOOLEAN /\ asked \in BOOLEAN /\ looped \in BOOLEAN
    BY DEF Init
  <2> QED  BY <2>1, <2>2, <2>3 DEF TypeOK
<1>2. Guarded /\ Watched /\ Finishing
  BY DEF Init, Guarded, Watched, Finishing
<1>3. Numbered
  BY DEF Init, Numbered
<1> QED  BY <1>1, <1>2, <1>3 DEF IInv

\* The types survive every operation; that the stop_source stays within the
\* number of runs is where Numbered is needed.
LEMMA TypeStep == IInv /\ [Next]_vars => TypeOK'
<1> SUFFICES ASSUME IInv, [Next]_vars PROVE TypeOK'
  OBVIOUS
<1> USE RunControlAssumption DEF IInv, TypeOK, Goto
<1>1. CASE add_sink  BY <1>1 DEF add_sink
<1>2. CASE request_stop  BY <1>2 DEF request_stop
<1>3. ASSUME NEW c \in Callers,
             Enter(c) \/ RunStep(c) \/ LoopEnds(c) \/ LoopThrows(c)
             \/ BeginThrows(c) \/ ThreadsThrow(c) \/ FinishThrows(c)
      PROVE  TypeOK'
  <2>1. CASE Enter(c)
    <3>1. PICK m \in {"pipelined", "sequential"} :
            mode' = [mode EXCEPT ![c] = m]
      BY <2>1 DEF Enter
    <3>2. /\ mode' \in [Callers -> {"pipelined", "sequential"}]
          /\ runs' \in 0..MaxRuns
      BY <2>1, <3>1 DEF Enter
    <3>3. running' \in BOOLEAN /\ asked' \in BOOLEAN /\ looped' \in BOOLEAN
      BY <2>1 DEF Enter
    <3> QED  BY <2>1, <3>2, <3>3 DEF Enter
  <2>2. CASE WarmUp(c) \/ SetUp(c) \/ LoopStopped(c) \/ LoopEnds(c)
             \/ BeginThrows(c) \/ ThreadsThrow(c) \/ Finish(c) \/ Leave(c)
    BY <2>2 DEF WarmUp, SetUp, LoopStopped, LoopEnds, BeginThrows,
                ThreadsThrow, Finish, Leave
  <2>3. CASE StartSink(c)  BY <2>3 DEF StartSink
  <2>4. CASE Install(c)
    <3>1. stop_source + 1 \in 0..MaxRuns
      BY <2>4 DEF Install, Numbered
    <3>2. token' \in [Callers -> 0..MaxRuns]
      BY <2>4, <3>1 DEF Install
    <3> QED  BY <2>4, <3>1, <3>2 DEF Install
  <2>5. CASE LoopThrows(c)
    <3>1. \/ requested' = requested \cup {token[c]} /\ Goto(c, "finish")
          \/ requested' = requested /\ Goto(c, "leave")
      BY <2>5 DEF LoopThrows
    <3>2. /\ requested' \subseteq 0..MaxRuns
          /\ pc' \in [Callers -> {"idle", "warmup", "start", "setup", "loop",
                                  "finish", "leave", "unfinished", "stuck"}]
      BY <3>1
    <3> QED  BY <2>5, <3>2 DEF LoopThrows
  <2>6. CASE FinishThrows(c)  BY <2>6 DEF FinishThrows
  <2> QED  BY <1>3, <2>1, <2>2, <2>3, <2>4, <2>5, <2>6 DEF RunStep
<1>4. CASE UNCHANGED vars  BY <1>4 DEF vars
<1> QED  BY <1>1, <1>2, <1>3, <1>4 DEF Next

\* RunGuard admits a caller only when nobody is inside, and only the caller
\* that is inside takes the guard down.
LEMMA GuardStep == IInv /\ [Next]_vars => Guarded'
<1> SUFFICES ASSUME IInv, [Next]_vars PROVE Guarded'
  OBVIOUS
<1> USE DEF IInv, TypeOK, Guarded, Goto
<1>1. CASE add_sink \/ request_stop \/ UNCHANGED vars
  BY <1>1 DEF add_sink, request_stop, vars
<1>2. ASSUME NEW c \in Callers, Enter(c) PROVE Guarded'
  BY <1>2 DEF Enter
<1>3. ASSUME NEW c \in Callers, Leave(c) PROVE Guarded'
  BY <1>3 DEF Leave
<1>4. ASSUME NEW c \in Callers,
             WarmUp(c) \/ StartSink(c) \/ Install(c) \/ SetUp(c)
             \/ LoopStopped(c) \/ Finish(c) \/ LoopEnds(c) \/ LoopThrows(c)
             \/ BeginThrows(c) \/ ThreadsThrow(c) \/ FinishThrows(c)
      PROVE  Guarded'
  <2>1. /\ running' = running /\ pc[c] # "idle" /\ pc'[c] # "idle"
        /\ \A d \in Callers : d # c => pc'[d] = pc[d]
    BY <1>4
    DEF WarmUp, StartSink, Install, SetUp, LoopStopped, Finish, LoopEnds,
        LoopThrows, BeginThrows, ThreadsThrow, FinishThrows
  <2> QED  BY <2>1
<1> QED  BY <1>1, <1>2, <1>3, <1>4 DEF Next, RunStep

\* begin_run moves on to a stop_source nobody has seen; a request marks the
\* installed one, and a failing loop marks the one it watches.
LEMMA SourceStep == IInv /\ [Next]_vars => Numbered' /\ Watched'
<1> SUFFICES ASSUME IInv, [Next]_vars PROVE Numbered' /\ Watched'
  OBVIOUS
<1> USE DEF IInv, TypeOK, Numbered, Watched, Goto
<1>1. CASE add_sink \/ UNCHANGED vars  BY <1>1 DEF add_sink, vars
<1>2. CASE request_stop
  <2>1. \A c \in Callers : pc[c] # "idle" => asked'
    BY <1>2 DEF request_stop, Guarded
  <2> QED  BY <1>2, <2>1 DEF request_stop
<1>3. ASSUME NEW c \in Callers, Enter(c) PROVE Numbered' /\ Watched'
  <2>1. \A d \in Callers : pc[d] = "idle"
    BY <1>3 DEF Enter, Guarded
  <2> QED  BY <1>3, <2>1 DEF Enter
<1>4. ASSUME NEW c \in Callers, Install(c) PROVE Numbered' /\ Watched'
  <2>1. \A d \in Callers : d # c => pc[d] = "idle"
    BY <1>4 DEF Install, Guarded
  <2>2. stop_source + 1 \notin requested
    OBVIOUS
  <2>3. /\ stop_source' = stop_source + 1 /\ token'[c] = stop_source + 1
        /\ pc'[c] = "setup" /\ requested' = requested /\ runs' = runs
        /\ \A d \in Callers : d # c => pc'[d] = "idle"
    BY <1>4, <2>1 DEF Install
  <2>4. stop_source < runs
    BY <1>4 DEF Install
  <2>5. Numbered'
    <3>1. stop_source \in Nat /\ runs \in Nat /\ requested \subseteq Nat
      BY RunControlAssumption
    <3>2. \A s \in requested : s <= stop_source + 1
      BY <3>1
    <3>3. \A d \in Callers : pc'[d] \notin {"warmup", "start"}
      BY <2>3
    <3>4. stop_source + 1 <= runs
      BY <2>4, <3>1
    <3> HIDE DEF IInv, TypeOK, Watched
    <3> QED  BY <2>3, <3>2, <3>3, <3>4
  <2>6. Watched'
    BY <2>2, <2>3
  <2> QED  BY <2>5, <2>6
<1>5. ASSUME NEW c \in Callers, LoopThrows(c) PROVE Numbered' /\ Watched'
  <2>1. \A d \in Callers : d # c => pc[d] = "idle"
    BY <1>5 DEF LoopThrows, Guarded
  <2>2. \A d \in Callers : pc'[d] \in {"idle", "finish", "leave"}
    BY <1>5, <2>1 DEF LoopThrows
  <2>3. \A s \in requested' : s <= stop_source
    <3>1. requested' \subseteq requested \cup {token[c]}
      BY <1>5 DEF LoopThrows
    <3>2. token[c] = stop_source
      BY <1>5 DEF LoopThrows
    <3> QED  BY <3>1, <3>2
  <2>4. stop_source' = stop_source /\ runs' = runs
    BY <1>5 DEF LoopThrows
  <2> QED  BY <2>2, <2>3, <2>4
<1>6. ASSUME NEW c \in Callers,
             WarmUp(c) \/ StartSink(c) \/ SetUp(c) \/ LoopStopped(c)
             \/ LoopEnds(c) \/ BeginThrows(c) \/ ThreadsThrow(c) \/ Finish(c)
             \/ FinishThrows(c) \/ Leave(c)
      PROVE  Numbered' /\ Watched'
  BY <1>6
  DEF WarmUp, StartSink, SetUp, LoopStopped, LoopEnds, BeginThrows,
      ThreadsThrow, Finish, FinishThrows, Leave
<1> QED  BY <1>1, <1>2, <1>3, <1>4, <1>5, <1>6 DEF Next, RunStep

\* Sinks are opened and closed by the one caller inside.
LEMMA FinishStep == IInv /\ [Next]_vars => Finishing'
<1> SUFFICES ASSUME IInv, [Next]_vars PROVE Finishing'
  OBVIOUS
<1> USE DEF IInv, TypeOK, Finishing, Goto
<1>1. CASE add_sink \/ request_stop \/ UNCHANGED vars
  BY <1>1 DEF add_sink, request_stop, vars
<1>2. ASSUME NEW c \in Callers,
             Enter(c) \/ RunStep(c) \/ LoopEnds(c) \/ LoopThrows(c)
             \/ BeginThrows(c) \/ ThreadsThrow(c) \/ FinishThrows(c)
      PROVE  Finishing'
  <2>1. \A d \in Callers : d # c => pc[d] = "idle" /\ pc'[d] = "idle"
    <3>1. CASE Enter(c)
      BY <3>1 DEF Enter, Guarded
    <3>2. CASE ~Enter(c)
      <4>1. pc[c] # "idle" /\ \A d \in Callers : d # c => pc'[d] = pc[d]
        BY <1>2, <3>2
        DEF RunStep, WarmUp, StartSink, Install, SetUp, LoopStopped, Finish,
            Leave, LoopEnds, LoopThrows, BeginThrows, ThreadsThrow, FinishThrows
      <4> QED  BY <4>1 DEF Guarded
    <3> QED  BY <3>1, <3>2
  <2>2. /\ pc'[c] \in {"warmup", "start", "setup"} => ~looped'
        /\ pc'[c] = "leave" /\ looped' /\ mode'[c] = "pipelined" => open' = {}
    <3>1. CASE Enter(c)  BY <3>1 DEF Enter
    <3>2. CASE WarmUp(c) \/ StartSink(c) \/ Install(c) \/ BeginThrows(c)
               \/ ThreadsThrow(c)
      BY <3>2 DEF WarmUp, StartSink, Install, BeginThrows, ThreadsThrow
    <3>3. CASE SetUp(c) \/ LoopStopped(c) \/ LoopEnds(c)
      BY <3>3 DEF SetUp, LoopStopped, LoopEnds
    <3>4. CASE LoopThrows(c)
      BY <3>4 DEF LoopThrows
    <3>5. CASE Finish(c) \/ FinishThrows(c) \/ Leave(c)
      BY <3>5 DEF Finish, FinishThrows, Leave
    <3> QED  BY <1>2, <3>1, <3>2, <3>3, <3>4, <3>5 DEF RunStep
  <2> QED  BY <2>1, <2>2
<1> QED  BY <1>1, <1>2 DEF Next

\* The inductive invariant of the object that runs share.
THEOREM Invariance == Spec => []IInv
<1>1. Init => IInv
  BY InvInit
<1>2. IInv /\ [Next]_vars => IInv'
  BY TypeStep, GuardStep, SourceStep, FinishStep DEF IInv
<1> QED  BY <1>1, <1>2, PTL DEF Spec

\* RunGuard: running_ is set exactly while one caller is inside run() or
\* run_sequential(), whatever runs ended in whatever way before.
THEOREM Guard == Spec => []OneRunAtATime
<1>1. IInv => OneRunAtATime
  <2> SUFFICES ASSUME IInv PROVE OneRunAtATime
    OBVIOUS
  <2>1. CASE running
    <3>1. PICK c \in Callers : pc[c] # "idle"
      BY <2>1 DEF IInv, Guarded
    <3>2. Inside = {c}
      BY <3>1 DEF IInv, Guarded, Inside
    <3> QED  BY <2>1, <3>2, FS_Singleton DEF OneRunAtATime
  <2>2. CASE ~running
    <3>1. Inside = {}
      BY <2>2 DEF IInv, Guarded, Inside
    <3> QED  BY <2>2, <3>1, FS_EmptySet DEF OneRunAtATime
  <2> QED  BY <2>1, <2>2
<1> QED  BY <1>1, Invariance, PTL

\* A stop requested for one run never ends a later one: begin_run installs a
\* stop_source of its own for each.
THEOREM Isolation == Spec => []NoStaleStop
<1>1. IInv => NoStaleStop
  BY DEF IInv, Watched, NoStaleStop
<1> QED  BY <1>1, Invariance, PTL

\* run() finishes every sink on each of its ways out of the loop, an exception
\* included, whatever an earlier run left open.
THEOREM Finished == Spec => []SinksFinished
<1>1. IInv => SinksFinished
  BY DEF IInv, Finishing, SinksFinished
<1> QED  BY <1>1, Invariance, PTL
=============================================================================
