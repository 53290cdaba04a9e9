------------------------------ MODULE Capture ------------------------------
(***************************************************************************)
(* The frames of a run: the capture thread of run(), or the loop of        *)
(* run_sequential(), takes a frame from the pool, reads the source into    *)
(* it, stamps it and hands it on; the stages fill its buffers, the sinks   *)
(* look at it, and whoever lets go of it puts it back.  The hand-offs,     *)
(* which Pipeline.tla has in detail, are reduced to what matters here: a   *)
(* stage takes its frames in order, and a frame on its way may be dropped  *)
(* at any time.  Exceptions are left to that module too: to the frames     *)
(* they are drops.                                                         *)
(*                                                                         *)
(* Operators named after a mistake are wrong versions of the definition    *)
(* after them and not part of the specification.                           *)
(***************************************************************************)
EXTENDS FramePool

CONSTANT Configs  \* sequential or pipelined run, tracking, max_frames

ASSUME CaptureAssumption ==
    Configs \subseteq [sequential : BOOLEAN, tracking : BOOLEAN,
                       max_frames : Nat \ {0}]

VARIABLES
    cfg,    \* the configuration of the run
    cap,    \* the capture thread: pc, frame in hand, sequence
    at,     \* per frame: "pool", "capture" or the stage it goes to next
    owed,   \* notify_one() calls still to come, after the unlock of recycle()
    stop    \* a stop was requested of this run

vars == <<pool, cfg, cap, at, owed, stop>>

\* Values of the constants for the runs.
SmallConfigs ==
    { [sequential |-> TRUE, tracking |-> TRUE, max_frames |-> 4],
      [sequential |-> FALSE, tracking |-> TRUE, max_frames |-> 4],
      [sequential |-> FALSE, tracking |-> FALSE, max_frames |-> 4] }

Frames == DOMAIN at
NextStage == [preprocess |-> "inference", inference |-> "postprocess",
              postprocess |-> "sink"]
Goto(l) == cap' = [cap EXCEPT !.pc = l]

\* run() and run_sequential() as far as the pool: one frame is enough for the
\* sequential loop.
NewRun(sequential) == NewPool(IF sequential THEN 1 ELSE PoolSize)

Init ==
    /\ cfg \in Configs
    /\ pool = NewRun(cfg.sequential)
    /\ cap = [pc |-> "loop", frame |-> 0, sequence |-> 0]
    /\ at = [f \in DOMAIN pool.frame |-> "pool"]
    /\ owed = 0 /\ stop = FALSE

\* FramePtr's deleter: recycle() of frame f of pool p.
Release(p, f) ==
    /\ pool' = recycle(p, f)
    /\ at' = [at EXCEPT ![f] = "pool"]
    /\ owed' = owed + 1

-----------------------------------------------------------------------------
\* The condition of the capture loop.
CaptureLoop ==
    /\ cap.pc = "loop"
    /\ IF stop \/ cap.sequence >= cfg.max_frames THEN Goto("end") ELSE Goto("acquire")
    /\ UNCHANGED <<pool, cfg, at, owed, stop>>

\* acquire() holds the mutex from its look at free_ until it sleeps; after a
\* stop it still takes a frame that is free.  The sequential loop has a frame
\* back in every iteration, so its try_acquire() is the first case.
acquire ==
    /\ cap.pc = "acquire"
    /\ IF pool.free # <<>>
       THEN /\ pool' = take_locked(pool)
            /\ at' = [at EXCEPT ![Taken(pool)] = "capture"]
            /\ cap' = [cap EXCEPT !.pc = "read", !.frame = Taken(pool)]
       ELSE /\ Goto(IF stop THEN "end" ELSE "asleep")
            /\ UNCHANGED <<pool, at>>
    /\ UNCHANGED <<cfg, owed, stop>>

NotifyNobody ==
    /\ owed > 0
    /\ owed' = owed - 1
    /\ UNCHANGED <<pool, cfg, cap, at, stop>>

\* recycle() notifies after it has unlocked the free list.
notify_one ==
    /\ owed > 0
    /\ owed' = owed - 1
    /\ IF cap.pc = "asleep" THEN Goto("acquire") ELSE UNCHANGED cap
    /\ UNCHANGED <<pool, cfg, at, stop>>

\* A condition variable may wake up for nothing.
SpuriousWakeUp ==
    /\ cap.pc = "asleep"
    /\ Goto("acquire")
    /\ UNCHANGED <<pool, cfg, at, owed, stop>>

\* request_stop(): the stop_token's callback also ends a wait in acquire().
request_stop ==
    /\ ~stop
    /\ cap.pc # "end"
    /\ stop' = TRUE
    /\ IF cap.pc = "asleep" THEN Goto("acquire") ELSE UNCHANGED cap
    /\ UNCHANGED <<pool, cfg, at, owed>>

\* read() delivers a frame (FrameSources.tla says when); the first one tells
\* the pool the size of the images, then the frame is stamped and handed on.
CaptureRead ==
    /\ cap.pc = "read"
    /\ LET f == cap.frame
           filled == [pool EXCEPT !.frame[f] = Fill(@, cap.sequence)]
           sized == IF cap.sequence = 0 /\ ~cfg.sequential
                    THEN reserve_image_bytes(filled, ImageBytes) ELSE filled
       IN /\ pool' = [sized EXCEPT !.frame[f].captured_at = cap.sequence + 1,
                                   !.frame[f].sequence = cap.sequence]
          /\ at' = [at EXCEPT ![f] = "preprocess"]
    /\ cap' = [cap EXCEPT !.pc = IF cfg.sequential THEN "inline" ELSE "loop",
                          !.sequence = @ + 1]
    /\ UNCHANGED <<cfg, owed, stop>>

\* read() returns false.
CaptureEndOfSource ==
    /\ cap.pc = "read"
    /\ Release(pool, cap.frame)
    /\ Goto("end")
    /\ UNCHANGED <<cfg, stop>>

-----------------------------------------------------------------------------
\* timed(): the stage's service time is written after its work.
timed(frame, ids) ==
    [frame EXCEPT !.service_time =
        [s \in StageId |-> IF s \in ids THEN frame.sequence + 1 ELSE @[s]]]

preprocess(frame) ==
    timed([frame EXCEPT !.input = frame.image, !.letterbox = frame.image],
          {"kPreprocess"})

infer(frame) == timed([frame EXCEPT !.output = frame.input], {"kInference"})

\* Detections of one frame scaled by the letterbox of another are nobody's.
postprocess(frame) ==
    timed([frame EXCEPT !.detections =
             IF frame.output = frame.letterbox THEN frame.output ELSE None],
          {"kPostprocess"})

track(frame) ==
    timed([frame EXCEPT !.tracks = IF cfg.tracking THEN frame.detections ELSE @],
          {"kTracking"})

Body(stage, frame) ==
    CASE stage = "preprocess" -> preprocess(frame)
      [] stage = "inference" -> infer(frame)
      [] stage = "postprocess" -> track(postprocess(frame))

FirstAt(f) == \A g \in Frames : at[g] = at[f] =>
                 pool.frame[f].sequence <= pool.frame[g].sequence

Stage(f) ==
    /\ at[f] \in DOMAIN NextStage
    /\ FirstAt(f)
    /\ pool' = [pool EXCEPT !.frame[f] = Body(at[f], @)]
    /\ at' = [at EXCEPT ![f] = NextStage[at[f]]]
    /\ UNCHANGED <<cfg, cap, owed, stop>>

\* deliver(): the sinks consume the frame inside timed(), and the frame is let
\* go after it.
deliver(f) ==
    /\ at[f] = "sink"
    /\ FirstAt(f)
    /\ Release([pool EXCEPT !.frame[f] = timed(@, {"kSink"})], f)
    /\ UNCHANGED <<cfg, cap, stop>>

\* A frame is displaced in a mailbox, refused by a full queue or drained.
Drop(f) ==
    /\ ~cfg.sequential
    /\ at[f] \in DOMAIN NextStage \cup {"sink"}
    /\ Release(pool, f)
    /\ UNCHANGED <<cfg, cap, stop>>

\* The sequential loop has the frame delivered before it goes on.
InlineDone ==
    /\ cap.pc = "inline"
    /\ at[cap.frame] = "pool"
    /\ Goto("loop")
    /\ UNCHANGED <<pool, cfg, at, owed, stop>>

-----------------------------------------------------------------------------
StageStep == \E f \in Frames : Stage(f) \/ deliver(f)

Next ==
    \/ CaptureLoop \/ acquire \/ notify_one \/ SpuriousWakeUp \/ request_stop
    \/ CaptureRead \/ CaptureEndOfSource \/ InlineDone
    \/ StageStep \/ \E f \in Frames : Drop(f)

\* The stage threads go on, and recycle() gets to its notify_one().
Fairness == WF_vars(StageStep) /\ WF_vars(notify_one)

Spec == Init /\ [][Next]_vars /\ Fairness

-----------------------------------------------------------------------------
\* A recycled frame is as good as a new one.  What the sinks see of it is its
\* own: image, detections, tracks, stamps and stage times of this capture,
\* never something its last user left there, and the sink's own service time,
\* not known yet, is zero.  And once the first frame is captured no image
\* buffer has to grow, though frames deep in the free list are first used late.
FramesFresh ==
    /\ \A f \in Frames : at[f] = "sink" =>
          LET frame == pool.frame[f]
              own == frame.sequence + 1
          IN /\ frame.captured_at = own /\ frame.image = own
             /\ frame.detections = own
             /\ frame.tracks = (IF cfg.tracking THEN own ELSE None)
             /\ \A s \in StageId \ {"kSink"} : frame.service_time[s] = own
             /\ frame.service_time["kSink"] = None
    /\ cap.sequence > 0 => \A f \in Frames : pool.frame[f].capacity >= ImageBytes

\* Capture asleep in acquire() always wakes up: the frames come back and
\* recycle() tells it, or a stop does.
AcquireReturns == cap.pc = "asleep" ~> cap.pc # "asleep"
=============================================================================
