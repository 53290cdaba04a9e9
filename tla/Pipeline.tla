------------------------------ MODULE Pipeline ------------------------------
(***************************************************************************)
(* One Pipeline::run (pipeline.cpp): the capture loop on the calling       *)
(* thread, four stage threads in run_stage, the hand-offs between them,    *)
(* the frame pool, the counters of PipelineMetrics, abort() when a thread  *)
(* throws, and request_stop() from another thread at any moment.           *)
(*                                                                         *)
(* Thread 0 is capture; 1 preprocess, 2 inference, 3 postprocess and       *)
(* tracking, 4 sink.  Thread t pops from hand-off t and pushes to t + 1:   *)
(* 1 is ingress, 2 to_infer, 3 to_post, 4 to_sink.  A hand-off is used     *)
(* through the operations of HandOff.tla, in particular with its window    *)
(* between the closed check and the insertion.  A frame is its sequence    *)
(* number; what the stages compute on it is not looked at here.            *)
(*                                                                         *)
(* Operators named after a mistake are wrong versions of the definition    *)
(* after them and not part of the specification.                           *)
(***************************************************************************)
EXTENDS HandOffPolicy, FiniteSets

CONSTANTS Policies,         \* possible values of config_.ingress_policy
          IngressCapacity,  \* config_.ingress_capacity, rounded up by the ring
          StageCapacity,    \* config_.stage_queue_capacity, rounded up
          PoolFrames,       \* config_.pool_size; 0: derived
          MaxFrames,        \* bound: config_.max_frames
          Stoppable,        \* may somebody call request_stop()?
          Faulty,           \* threads that may throw
          FaultyFrames      \* bound: the frames on which they may throw

ASSUME PipelineAssumption ==
    /\ Policies \subseteq IngressPolicy
    /\ IngressCapacity \in Nat \ {0} /\ StageCapacity \in Nat \ {0}
    /\ PoolFrames \in Nat
    /\ MaxFrames \in Nat \ {0}
    /\ Stoppable \in BOOLEAN
    /\ Faulty \subseteq 0..4 /\ FaultyFrames \subseteq Nat

Threads == 0..4
Stages == 1..4
HandOffs == 1..4
Capture == 0
Sink == 4

Numbers == 0..(MaxFrames - 1)
None == -1    \* no frame
Blank == -2   \* a frame from the pool without a sequence number

VARIABLES
    policy,    \* config_.ingress_policy, fixed
    items,     \* contents of each hand-off
    closed,    \* its closed flag
    pc,        \* location of each thread
    hand,      \* the frame each thread owns
    result,    \* HandOffResult of the thread's last push
    next_close,\* abort(): the hand-off to close next
    free,      \* frames in the pool
    sequence,  \* capture's counter
    stop,      \* the run's stop_source
    spc,       \* location of the thread that calls request_stop()
    aborted,
    error,     \* the thread whose exception is reported; None
    captured, dropped, completed,  \* PipelineMetrics
    delivered, \* history: sequence numbers given to the sinks, in order
    late       \* history: deliveries after aborted was set

counters == <<captured, dropped, completed>>
abort_state == <<next_close, aborted, error>>
vars == <<policy, items, closed, pc, hand, result, next_close, free, sequence,
          stop, spc, aborted, error, captured, dropped, completed, delivered,
          late>>

PolicyOf(h) == IF h = 1 THEN policy ELSE internal_policy(policy)
CapacityOf(h) == IF h = 1 THEN IngressCapacity ELSE StageCapacity
HasOutput(t) == t # Sink

pool_size_tight ==
    IF PoolFrames > 0 THEN PoolFrames
    ELSE IF policy = "latest" THEN 4
    ELSE IngressCapacity + 3 * StageCapacity

\* Every slot of every hand-off, one frame in each thread's hands, one spare.
pool_size ==
    IF PoolFrames > 0 THEN PoolFrames
    ELSE IF policy = "latest" THEN 3 + 3 * 3 + 5 + 1
    ELSE IngressCapacity + 3 * StageCapacity + 5 + 1

Goto(t, l) == pc' = [pc EXCEPT ![t] = l]

\* The frame that thread t owns goes out of scope and back to the pool.
Release(t) ==
    /\ hand' = [hand EXCEPT ![t] = None]
    /\ free' = free + 1

Init ==
    /\ policy \in Policies
    /\ items = [h \in HandOffs |-> <<>>]
    /\ closed = [h \in HandOffs |-> FALSE]
    /\ pc = [t \in Threads |-> IF t = Capture THEN "loop" ELSE "pop"]
    /\ hand = [t \in Threads |-> None]
    /\ result = [t \in Threads |-> "accepted"]
    /\ next_close = [t \in Threads |-> 1]
    /\ free = pool_size
    /\ sequence = 0
    /\ stop = FALSE /\ spc = "idle"
    /\ aborted = FALSE /\ error = None
    /\ captured = 0 /\ dropped = 0 /\ completed = 0
    /\ delivered = <<>> /\ late = 0

-----------------------------------------------------------------------------
(* Capture loop.                                                             *)

CaptureLoop ==
    /\ pc[Capture] = "loop"
    /\ Goto(Capture, IF stop \/ aborted \/ sequence >= MaxFrames
                     THEN "close" ELSE "acquire")
    /\ UNCHANGED <<policy, items, closed, hand, result, abort_state, free,
                   sequence, stop, spc, counters, delivered, late>>

CaptureAcquireIgnoresStop ==
    /\ pc[Capture] = "acquire" /\ free > 0
    /\ free' = free - 1
    /\ hand' = [hand EXCEPT ![Capture] = Blank]
    /\ Goto(Capture, "read")
    /\ UNCHANGED <<policy, items, closed, result, abort_state, sequence, stop,
                   spc, counters, delivered, late>>

\* FramePool::acquire(stop): a frame if there is one, null once stopped.
CaptureAcquire ==
    /\ pc[Capture] = "acquire"
    /\ \/ /\ free > 0
          /\ free' = free - 1
          /\ hand' = [hand EXCEPT ![Capture] = Blank]
          /\ Goto(Capture, "read")
       \/ /\ free = 0 /\ stop
          /\ Goto(Capture, "close")
          /\ UNCHANGED <<policy, hand, free>>
    /\ UNCHANGED <<policy, items, closed, result, abort_state, sequence, stop,
                   spc, counters, delivered, late>>

\* FrameSource::read fills the frame and the loop numbers it.
CaptureRead ==
    /\ pc[Capture] = "read"
    /\ hand' = [hand EXCEPT ![Capture] = sequence]
    /\ sequence' = sequence + 1
    /\ Goto(Capture, "push")
    /\ UNCHANGED <<policy, items, closed, result, abort_state, free, stop, spc,
                   counters, delivered, late>>

\* FrameSource::read reports the end of the stream.
CaptureEndOfSource ==
    /\ pc[Capture] = "read"
    /\ Release(Capture)
    /\ Goto(Capture, "close")
    /\ UNCHANGED <<policy, items, closed, result, abort_state, sequence, stop,
                   spc, counters, delivered, late>>

CaptureCountBlind ==
    /\ pc[Capture] = "count"
    /\ captured' = captured + 1
    /\ Goto(Capture, "loop")
    /\ UNCHANGED <<policy, items, closed, hand, result, abort_state, free,
                   sequence, stop, spc, dropped, completed, delivered, late>>

CaptureCount ==
    /\ pc[Capture] = "count"
    /\ captured' = captured + 1
    /\ Goto(Capture, IF result[Capture] = "accepted" THEN "loop" ELSE "drop")
    /\ UNCHANGED <<policy, items, closed, hand, result, abort_state, free,
                   sequence, stop, spc, dropped, completed, delivered, late>>

-----------------------------------------------------------------------------
(* HandOff::push by thread t.  A frame that is not queued goes out of scope  *)
(* inside push().                                                            *)

\* Where push() returns to.
Returned(t, r) ==
    CASE t = Capture /\ r = "closed" -> "close"
      [] t = Capture /\ r # "closed" -> "count"
      [] t # Capture /\ is_drop(r) -> "drop"
      [] OTHER -> "pop"

PushCheckClosed(t) ==
    /\ pc[t] = "push"
    /\ IF closed[t + 1]
       THEN /\ Release(t)
            /\ result' = [result EXCEPT ![t] = "closed"]
            /\ Goto(t, Returned(t, "closed"))
       ELSE /\ Goto(t, IF PolicyOf(t + 1) = "latest" THEN "publish"
                                                     ELSE "insert")
            /\ UNCHANGED <<policy, hand, result, free>>
    /\ UNCHANGED <<policy, items, closed, abort_state, sequence, stop, spc,
                   counters, delivered, late>>

\* LatestSlot::publish looks again and hands the frame itself back when
\* closed, which HandOff::push takes for a displaced one.
PublishCheckClosed(t) ==
    /\ pc[t] = "publish"
    /\ IF closed[t + 1]
       THEN /\ Release(t)
            /\ result' = [result EXCEPT ![t] = "replaced_stale"]
            /\ Goto(t, Returned(t, "replaced_stale"))
       ELSE /\ Goto(t, "insert")
            /\ UNCHANGED <<policy, hand, result, free>>
    /\ UNCHANGED <<policy, items, closed, abort_state, sequence, stop, spc,
                   counters, delivered, late>>

PushInsertForgetsDisplaced(t) ==
    LET h == t + 1
        q == items[h]
    IN  /\ pc[t] = "insert"
        /\ ~Full(PolicyOf(h), CapacityOf(h), q)
        /\ items' = [items EXCEPT ![h] = Inserted(PolicyOf(h), q, hand[t])]
        /\ hand' = [hand EXCEPT ![t] = None]
        /\ result' = [result EXCEPT ![t] = InsertResult(PolicyOf(h), q)]
        /\ Goto(t, Returned(t, InsertResult(PolicyOf(h), q)))
        /\ UNCHANGED <<policy, closed, abort_state, free, sequence, stop, spc,
                       counters, delivered, late>>

PushInsert(t) ==
    LET h == t + 1
        q == items[h]
    IN  /\ pc[t] = "insert"
        /\ ~Full(PolicyOf(h), CapacityOf(h), q)
        /\ items' = [items EXCEPT ![h] = Inserted(PolicyOf(h), q, hand[t])]
        /\ hand' = [hand EXCEPT ![t] = None]
        /\ free' = free + Len(Displaced(PolicyOf(h), q))
        /\ result' = [result EXCEPT ![t] = InsertResult(PolicyOf(h), q)]
        /\ Goto(t, Returned(t, InsertResult(PolicyOf(h), q)))
        /\ UNCHANGED <<policy, closed, abort_state, sequence, stop, spc,
                       counters, delivered, late>>

\* No room: drop_newest gives the frame up, block waits for a pop or a close.
PushRefuse(t) ==
    /\ pc[t] = "insert"
    /\ Full(PolicyOf(t + 1), CapacityOf(t + 1), items[t + 1])
    /\ IF PolicyOf(t + 1) = "drop_newest"
       THEN /\ Release(t)
            /\ result' = [result EXCEPT ![t] = "dropped_incoming"]
            /\ Goto(t, Returned(t, "dropped_incoming"))
       ELSE /\ Goto(t, "blocked")
            /\ UNCHANGED <<policy, hand, result, free>>
    /\ UNCHANGED <<policy, items, closed, abort_state, sequence, stop, spc,
                   counters, delivered, late>>

PushWake(t) ==
    /\ pc[t] = "blocked"
    /\ \/ ~Full(PolicyOf(t + 1), CapacityOf(t + 1), items[t + 1])
       \/ closed[t + 1]
    /\ Goto(t, "push")
    /\ UNCHANGED <<policy, items, closed, hand, result, abort_state, free,
                   sequence, stop, spc, counters, delivered, late>>

CountDrop(t) ==
    /\ pc[t] = "drop"
    /\ dropped' = dropped + 1
    /\ Goto(t, IF t = Capture THEN "loop" ELSE "pop")
    /\ UNCHANGED <<policy, items, closed, hand, result, abort_state, free,
                   sequence, stop, spc, captured, completed, delivered, late>>

-----------------------------------------------------------------------------
(* run_stage by thread t.                                                    *)

StagePop(t) ==
    /\ pc[t] = "pop"
    /\ items[t] # <<>>
    /\ hand' = [hand EXCEPT ![t] = Head(items[t])]
    /\ items' = [items EXCEPT ![t] = Tail(items[t])]
    /\ Goto(t, "check")
    /\ UNCHANGED <<policy, closed, result, abort_state, free, sequence, stop,
                   spc, counters, delivered, late>>

\* pop() returns nullopt.
StageEnd(t) ==
    /\ pc[t] = "pop"
    /\ closed[t] /\ items[t] = <<>>
    /\ Goto(t, "close")
    /\ UNCHANGED <<policy, items, closed, hand, result, abort_state, free,
                   sequence, stop, spc, counters, delivered, late>>

StageCheckAbortedMissing(t) ==
    /\ pc[t] = "check"
    /\ Goto(t, "body")
    /\ UNCHANGED <<policy, items, closed, hand, result, abort_state, free,
                   sequence, stop, spc, counters, delivered, late>>

StageCheckAborted(t) ==
    /\ pc[t] = "check"
    /\ IF aborted
       THEN Release(t) /\ Goto(t, "pop")
       ELSE Goto(t, "body") /\ UNCHANGED <<hand, free>>
    /\ UNCHANGED <<policy, items, closed, result, abort_state, sequence, stop,
                   spc, counters, delivered, late>>

StageBody(t) ==
    /\ pc[t] = "body"
    /\ HasOutput(t)
    /\ Goto(t, "push")
    /\ UNCHANGED <<policy, items, closed, hand, result, abort_state, free,
                   sequence, stop, spc, counters, delivered, late>>

\* deliver(): the sinks consume the frame ...
SinkConsume ==
    /\ pc[Sink] = "body"
    /\ delivered' = Append(delivered, hand[Sink])
    /\ late' = IF aborted THEN late + 1 ELSE late
    /\ Goto(Sink, "count")
    /\ UNCHANGED <<policy, items, closed, hand, result, abort_state, free,
                   sequence, stop, spc, counters>>

\* ... then it is counted and goes back to the pool.
SinkCount ==
    /\ pc[Sink] = "count"
    /\ completed' = completed + 1
    /\ Release(Sink)
    /\ Goto(Sink, "pop")
    /\ UNCHANGED <<policy, items, closed, result, abort_state, sequence, stop,
                   spc, captured, dropped, delivered, late>>

CloseOutputMissing(t) ==
    /\ pc[t] = "close"
    /\ Goto(t, IF t = Capture THEN "join" ELSE "done")
    /\ UNCHANGED <<policy, items, closed, hand, result, abort_state, free,
                   sequence, stop, spc, counters, delivered, late>>

\* The thread's last act: close what it pushes to (the sink has nothing).
CloseOutput(t) ==
    /\ pc[t] = "close"
    /\ closed' = [h \in HandOffs |-> closed[h] \/ (HasOutput(t) /\ h = t + 1)]
    /\ Goto(t, IF t = Capture THEN "join" ELSE "done")
    /\ UNCHANGED <<policy, items, hand, result, abort_state, free, sequence,
                   stop, spc, counters, delivered, late>>

-----------------------------------------------------------------------------
(* abort() by thread t: note the first error, raise the flag, request the    *)
(* stop (whose callback closes ingress, as the next step does anyway), close *)
(* the four hand-offs in turn, and leave through CloseOutput.                *)

\* The source, a stage body or a sink throws; the frame is released while the
\* stack unwinds.
Throw(t) ==
    /\ t \in Faulty /\ (IF t = Capture THEN sequence ELSE hand[t]) \in FaultyFrames
    /\ pc[t] = (IF t = Capture THEN "read" ELSE "body")
    /\ Release(t)
    /\ Goto(t, "abort")
    /\ UNCHANGED <<policy, items, closed, result, abort_state, sequence, stop,
                   spc, counters, delivered, late>>

AbortNoteError(t) ==
    /\ pc[t] = "abort"
    /\ error' = IF error = None THEN t ELSE error
    /\ Goto(t, "flag")
    /\ UNCHANGED <<policy, items, closed, hand, result, next_close, aborted,
                   free, sequence, stop, spc, counters, delivered, late>>

AbortFlag(t) ==
    /\ pc[t] = "flag"
    /\ aborted' = TRUE
    /\ Goto(t, "stop")
    /\ UNCHANGED <<policy, items, closed, hand, result, next_close, error,
                   free, sequence, stop, spc, counters, delivered, late>>

AbortStop(t) ==
    /\ pc[t] = "stop"
    /\ stop' = TRUE
    /\ Goto(t, "close_all")
    /\ UNCHANGED <<policy, items, closed, hand, result, abort_state, free,
                   sequence, spc, counters, delivered, late>>

AbortClose(t) ==
    /\ pc[t] = "close_all"
    /\ closed' = [closed EXCEPT ![next_close[t]] = TRUE]
    /\ next_close' = [next_close EXCEPT ![t] = @ + 1]
    /\ Goto(t, IF next_close[t] = 4 THEN "close" ELSE "close_all")
    /\ UNCHANGED <<policy, items, hand, result, aborted, error, free, sequence,
                   stop, spc, counters, delivered, late>>

-----------------------------------------------------------------------------
(* Pipeline::request_stop from outside, and the stop_callback of run().  The *)
(* callback is gone, and has run to its end if it had begun, once run() has  *)
(* left the scope of the stage threads.                                      *)

RequestStop ==
    /\ Stoppable
    /\ spc = "idle"
    /\ stop' = TRUE
    /\ spc' = IF stop \/ pc[Capture] \in {"report", "done"} THEN "done"
                                                             ELSE "callback"
    /\ UNCHANGED <<policy, items, closed, pc, hand, result, abort_state, free,
                   sequence, counters, delivered, late>>

StopCallback ==
    /\ spc = "callback"
    /\ closed' = [closed EXCEPT ![1] = TRUE]
    /\ spc' = "done"
    /\ UNCHANGED <<policy, items, pc, hand, result, abort_state, free,
                   sequence, stop, counters, delivered, late>>

\* The stage threads are joined: the counters now go into the report, or the
\* error is rethrown.
Join ==
    /\ pc[Capture] = "join"
    /\ \A t \in Stages : pc[t] = "done"
    /\ spc # "callback"
    /\ Goto(Capture, "report")
    /\ UNCHANGED <<policy, items, closed, hand, result, abort_state, free,
                   sequence, stop, spc, counters, delivered, late>>

ReturnLeavesQueued ==
    /\ pc[Capture] = "report"
    /\ items' = [h \in HandOffs |-> <<>>]
    /\ Goto(Capture, "done")
    /\ UNCHANGED <<policy, closed, hand, result, abort_state, free, sequence,
                   stop, spc, counters, delivered, late>>

\* run() returns: the RunContext goes before the pool, and the frames still in
\* its hand-offs with it.
Return ==
    /\ pc[Capture] = "report"
    /\ free' = free + Len(items[1]) + Len(items[2])
                    + Len(items[3]) + Len(items[4])
    /\ items' = [h \in HandOffs |-> <<>>]
    /\ Goto(Capture, "done")
    /\ UNCHANGED <<policy, closed, hand, result, abort_state, sequence, stop,
                   spc, counters, delivered, late>>

-----------------------------------------------------------------------------
PushStep(t) ==
    \/ PushCheckClosed(t) \/ PublishCheckClosed(t) \/ PushInsert(t)
    \/ PushRefuse(t) \/ PushWake(t) \/ CountDrop(t)

AbortStep(t) ==
    \/ AbortNoteError(t) \/ AbortFlag(t) \/ AbortStop(t) \/ AbortClose(t)

CaptureStep ==
    \/ CaptureLoop \/ CaptureAcquire \/ CaptureRead \/ CaptureCount
    \/ PushStep(Capture) \/ AbortStep(Capture) \/ CloseOutput(Capture)
    \/ Join \/ Return

StageStep(t) ==
    \/ StagePop(t) \/ StageEnd(t) \/ StageCheckAborted(t) \/ StageBody(t)
    \/ t = Sink /\ (SinkConsume \/ SinkCount)
    \/ HasOutput(t) /\ PushStep(t)
    \/ AbortStep(t) \/ CloseOutput(t)

Next ==
    \/ CaptureStep
    \/ CaptureEndOfSource
    \/ \E t \in Stages : StageStep(t)
    \/ \E t \in Threads : Throw(t)
    \/ RequestStop
    \/ StopCallback

\* The scheduler runs every thread that can go on, the source and the stage
\* bodies return.  Nobody has to stop the run or to fail.
Fairness ==
    /\ WF_vars(CaptureStep)
    /\ \A t \in Stages : WF_vars(StageStep(t))
    /\ WF_vars(StopCallback)

Spec == Init /\ [][Next]_vars /\ Fairness

-----------------------------------------------------------------------------
Locations == {"loop", "acquire", "read", "push", "publish", "insert",
              "blocked", "count", "drop", "pop", "check", "body", "close",
              "abort", "flag", "stop", "close_all", "join", "report", "done"}

TypeOK ==
    /\ policy \in Policies
    /\ items \in [HandOffs -> Seq(Numbers)]
    /\ closed \in [HandOffs -> BOOLEAN]
    /\ pc \in [Threads -> Locations]
    /\ hand \in [Threads -> Numbers \cup {None, Blank}]
    /\ result \in [Threads -> HandOffResult]
    /\ next_close \in [Threads -> 1..5]
    /\ free \in 0..pool_size
    /\ sequence \in 0..MaxFrames
    /\ stop \in BOOLEAN /\ spc \in {"idle", "callback", "done"}
    /\ aborted \in BOOLEAN /\ error \in Threads \cup {None}
    /\ captured \in Nat /\ dropped \in Nat /\ completed \in Nat
    /\ delivered \in Seq(Numbers) /\ late \in Nat

Holders == {t \in Threads : hand[t] # None}

\* Every frame of the pool has exactly one owner: the pool, a hand-off or a
\* thread.  No path through push(), a drop, an exception or the end of run()
\* leaks a frame or returns it twice.
FramesConserved ==
    free + Cardinality(Holders) + Len(items[1]) + Len(items[2])
         + Len(items[3]) + Len(items[4]) = pool_size

\* Frames in the order in which they left the source, the oldest first: what
\* was delivered, then the sink's hand and its hand-off, and so on upstream.
Line ==
    LET owned(t) == IF hand[t] \in Numbers THEN <<hand[t]>> ELSE <<>>
        done == IF pc[Sink] = "count" THEN <<>> ELSE owned(4)
    IN  delivered \o done \o items[4] \o owned(3) \o items[3]
        \o owned(2) \o items[2] \o owned(1) \o items[1] \o owned(0)

\* The stages never overtake each other: sequence numbers grow from the sinks
\* back to the source, so the sinks and the tracker see frames in capture
\* order under every policy.
CaptureOrder == \A i, j \in 1..Len(Line) : i < j => Line[i] < Line[j]

\* With the derived pool size capture never waits for a frame, however full
\* the pipeline is.
CaptureNeverStarves ==
    PoolFrames = 0 /\ pc[Capture] = "acquire" => free > 0

\* The report adds up: every captured frame was delivered or counted as a
\* drop, everything behind ingress was drained.  A stopped run can lose sight
\* of one frame, no more: the one whose push had passed the closed check when
\* the stop callback closed ingress, and which is still there.
ReportAddsUp ==
    pc[Capture] = "report" /\ ~aborted =>
        /\ captured = dropped + completed + Len(items[1])
        /\ Len(items[1]) <= (IF stop THEN 1 ELSE 0)
        /\ \A h \in 2..4 : items[h] = <<>>

\* "they drain the frames still in flight without processing them" (abort):
\* once aborted is set the sinks see at most the frame that the sink thread
\* had already checked.
AbortStopsDelivery == late <= 1

\* run() returns, whatever blocks where: a full hand-off, an empty one, an
\* exhausted pool, with or without a stop request and failures.
RunReturns == <>(pc[Capture] = "done")

\* Claim of ARCHITECTURE.md and pipeline.hpp: a stop drains, every admitted
\* frame is delivered or counted as dropped.
StopDrainsAdmitted ==
    pc[Capture] = "report" /\ ~aborted => captured = dropped + completed
=============================================================================
