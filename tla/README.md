# Verification of takt-vision

takt-vision is a real-time vision pipeline in C++20: a capture loop and four
stage threads hand frames to each other through single-producer
single-consumer queues or mailboxes, frames come from and return to a
preallocated pool, and a run ends by a stop request, the end of the source, a
frame limit or an exception. This directory holds TLA+ models of that
machinery and of the objects the threads drive, TLC runs that check them on
small instances, and proofs checked by TLAPS: every invariant that a passing run
checks, and both refinements, are proved for every value of the constants.
Paths below are relative to the repository root.

## The system

| part | state | operations | hard because |
|---|---|---|---|
| `SpscRing` (`include/takt/core/spsc_ring.hpp`) | head, tail, a private copy of each, slots, two wake-up epochs, closed | push, try_push, pop, try_pop, close | lock-free; blocks on epochs; closed by third threads |
| `LatestSlot` (`include/takt/core/latest_slot.hpp`) | three slots, the middle index with its fresh bit, back, front, an epoch, closed | publish, take, try_take, close | lock-free rotation; values are replaced under the consumer's eyes |
| `HandOff` (`hand_off.hpp`, `src/pipeline/hand_off.cpp`) | a ring or a mailbox, a policy | push, pop, close | the closed check and the insertion are separate |
| `FramePool` (`src/pipeline/frame_pool.cpp`) | free frames | acquire(stop), try_acquire, recycle | exhaustion; a frame must come back exactly once on every path |
| `Pipeline::run` (`src/pipeline/pipeline.cpp`) | four hand-offs, five threads, counters, aborted, first error, stop source | capture loop, run_stage, abort, stop callback, joins | shutdown and failure ripple through blocked threads |
| `Pipeline` object | running flag, current stop source, sinks | add_sink, run, run_sequential, request_stop | reused after failed and stopped runs; stops from any thread |
| `LatencyHistogram` (`src/core/latency_histogram.cpp`), `PipelineMetrics` | buckets, count, sum, extremes; counters | record_us, percentile_ms, summarize, reset | read one by one while other threads write |
| `ByteTracker` (`src/track/byte_tracker.cpp`) | tracks with id, state and ages | update, reset | three associations per frame, over long sequences of frames |
| `LinearAssignment` (`src/track/linear_assignment.cpp`) | scratch vectors | solve | gate, ties, rectangular inputs |
| `Letterboxer` (`src/vision/letterbox.cpp`) | interpolation tables of the last image size | run, to_model, to_source | two roundings that must fit together; tables kept between frames |
| `YoloDecoder`, `Nms` (`src/vision`) | scratch vectors kept between frames | decode, apply | layout guessed from a shape; compaction in place |
| back ends (`src/infer`, `apps/app_support.cpp`) | declared tensors | make_backend, infer | checks spread over four constructors |
| sources (`src/io/synthetic_source.cpp`, `opencv_source.cpp`) | frames read, next deadline, position in a file | read | pacing after a delay; failing reads; reuse by a later run |
| sinks (`src/io/overlay_sink.cpp`, `overlay.cpp`, `json_lines_sink.cpp`) | trails by track id, writer, window | on_start, consume, on_finish | dropped frames, ids that disappear, runs that fail |
| `takt_run` (`apps/takt_run.cpp`) | interrupt flag, watcher thread | on_signal, run | a signal at any moment |

How they interact: capture (on the thread that calls `run`) takes a frame from
the pool, lets the source fill it, and pushes it to the hand-off `ingress`;
preprocess, inference, postprocess with tracking, and sink each pop from one
hand-off and push to the next. Frames are owned by smart pointers, so a frame
that is delivered, displaced, refused or unwound returns to the pool.
`request_stop` triggers a stop callback that closes `ingress`; an exception
calls `abort`, which raises a flag, requests the stop and closes all four
hand-offs. A thread whose input is closed and drained closes its output.

## Modules

| module | models | uses |
|---|---|---|
| `HandOffPolicy` | policies, results, `is_drop`, what an insertion does to the contents | |
| `HandOff` | the promise of one hand-off: an abstract specification | `HandOffPolicy` |
| `SpscRing` | the ring, one action per access to shared memory | implements `HandOff` |
| `LatestSlot` | the mailbox, one action per access to shared memory | implements `HandOff` |
| `Pipeline` | one `Pipeline::run` with its threads, hand-offs, pool, counters, abort and stop | `HandOffPolicy`, the operations of `HandOff` |
| `RunControl` | the `Pipeline` object over several runs | |
| `TaktRun` | the program `takt_run` around one run: signal flag, watcher, quit key | extends `RunControl` |
| `FramePool` | frames, their buffers and the free list, as operators | |
| `Capture` | frames with an identity through capture, the stages and back to the pool | `FramePool` |
| `FrameSources` | `make_source`, both sources and their pacing | |
| `Letterboxer` | geometry, tables and writes of the letterbox | |
| `Backends` | a model from its shapes to its first frame | `YoloDecoder` |
| `YoloDecoder` | layout and decoding of a YOLO head | |
| `Nms` | non-maximum suppression | |
| `LinearAssignment` | the gated assignment solver | |
| `ByteTracker` | the life cycle of tracks | |
| `LatencyHistogram` | the lock-free histogram, its recorders and a reader | |
| `OverlaySink` | the overlay sink and the trails of its renderer | |
| `StageObjects` | the nine objects above side by side, for the runs | all nine |
| `HandOff_proofs` | proofs about `HandOff` | |
| `SpscRing_proofs` | proofs about `SpscRing`, with the facts about remainders they rest on, and that it implements `HandOff` | |
| `LatestSlot_proofs` | proofs about `LatestSlot`, and that it implements `HandOff` | |
| `RunControl_proofs` | proofs about `RunControl` | |
| `Pipeline_proofs` | proofs about `Pipeline` | |
| `Capture_proofs` | proofs about `Capture` | |
| `StageObjects_proofs` | induction, and proofs about the sources, the tracker and the histogram in `StageObjects` | |
| `Algorithms_proofs` | proofs about what the algorithms in `StageObjects` compute: suppression, letterbox, decoder, models, trails, assignment | `StageObjects_proofs` |

Operators named after a mistake (`...Missing`, `...Skipped`, `...NoCompare` and
so on) are deliberately wrong versions of the definition that follows them.
They are not part of any specification; putting one in place of its original
must break the property that `PROJECT.json` pairs it with.

### HandOff

The abstract hand-off is a bounded sequence, a closed flag and one bit,
`armed`: a push has looked at the closed flag and has not inserted yet. The bit
is there because the code has that window (`spsc_ring.hpp:64-65`,
`latest_slot.hpp:38-42`, `hand_off.cpp:47-49` and `56-57`), so the promise
cannot be "a closed hand-off takes nothing". What does hold is that at most one
element can be stranded, the one whose push raced with `close()`.

### SpscRing and LatestSlot

Locations of the producer, the consumer and each `close()` call follow the
code line by line. Steps on a thread's private members are folded into the
next shared access. `wait` is two-phase, as `std::atomic::wait` is: compare
with the epoch loaded earlier, park only if equal; `notify` sends a parked
thread back to the comparison. Spurious returns of `wait` are left out: they
lead only to states that are reachable anyway, and would hide lost wake-ups.
Indices and epochs wrap (`IndexMod`, `EpochMod` stand for 2^64 and 2^32). The
policy of the hand-off that owns the ring is a variable that never changes, so
that one run covers `push()` and `try_push()`.

Operations interleave in one total order. The memory orders of the code
(acquire, release, relaxed) are not modelled; that is a limit of these modules.

### Pipeline

Thread 0 is capture, 1 to 4 are the stages; thread t pops from hand-off t and
pushes to hand-off t + 1. A push is a closed check, for a mailbox the second
check inside `publish`, and an insertion or a refusal; a blocked push goes back
to its check when there is room or the hand-off is closed. `close()`, `pop()`
and the insertion are single steps here, which the refinements of `SpscRing`
and `LatestSlot` justify. A frame is its sequence number; every location
of a thread between two visible effects of the code (counting after pushing,
the six steps of `abort`, the check of the abort flag and the body) is separate.
The capacities are the ones the ring has after rounding up to a power of two.
The close of `ingress` by the stop callback during `abort` coincides with the
first close of `abort` itself and is folded into it. A sink's quit key calls
`request_stop`, which the external stop request already covers.

### RunControl

`run` and `run_sequential` are one loop that a stop, the end of the source or
an exception ends; what distinguishes them is the error path. A stop source is
a number, `stop_source` the one in the member, `token` the one a loop watches.
Failures are modelled in the warm-up, in `on_start`, while the pool and the
threads of a run are made, in the loop and in `on_finish`. A later stage thread that
cannot be made hangs the run for ever (`ThreadsThrow`): the destructors join the
stages made before it, which wait on hand-offs that nobody closes
(`pipeline.cpp:287-298`), and `running_` stays up. Nothing in the repository
says otherwise, so no finding comes of it, and the properties hold with it.
`add_sink` is one step although it looks at `running_` and then appends:
`takt_run` and the tests add sinks on the thread that calls the run, before it,
so that no run begins in between.

### TaktRun

`run` of `takt_run.cpp` as seen from its three threads of control: the main
thread adds the sinks, starts the watcher and calls the pipeline; the signal
handler sets `g_interrupted`; the watcher polls it, calls `request_stop` once
and returns. The run itself is `RunControl` with one caller, and the threads of
the run can be made.

### FramePool and Capture

`Pipeline` counts frames; here they have an identity. The content of a buffer
is the sequence number of the capture it was computed from, so that a buffer
left over from the frame's last user is told apart from a fresh one. `acquire`
looks and goes to sleep under the mutex, `recycle` unlocks before it notifies,
a condition variable may wake up for nothing, and a stop ends the wait. A
hand-off is reduced to an order with drops at any moment. Exceptions are left
to `Pipeline`; for the frames they are drops.

### The stage objects

Each of these modules keeps one object in one variable and has one action per
call (`LinearAssignment`: per loop iteration; `LatencyHistogram`: per atomic
operation), with small inputs chosen anew for every call, because what goes
wrong in them is what an earlier call left behind. `StageObjects` puts them
side by side: no object reads another's state, so a behaviour follows one of
them (`subject`), and the instance stays small.

- `Letterboxer`: doubles are exact fractions; where a fraction falls on a
  rounding boundary both sides are possible. Written ranges of the tensor and
  bytes read from the image are sets; pixel values and weights are left out.
- `YoloDecoder`: scores are small naturals, a box value is told apart by its
  place in the tensor; NaN is left out.
- `Backends`: shapes of raw heads in either orientation and of end-to-end
  exports go through `make_backend`, the `Pipeline` constructor and the checks
  of the first frame. What ONNX Runtime computes is external.
- `Nms`: integer rectangles make an IoU an exact fraction; `std::sort` may
  order equal scores either way.
- `LinearAssignment`: integer costs, doubled so that half the limit is exact.
  Infinity in `min_slack` is the number -1, which no reduced cost is. The tests
  of `cost < kForbidden` are exact because `LinearAssignmentAssumption` asks for
  a forbidden cost above that of any assignment.
- `ByteTracker`: without boxes an association is any one-to-one matching.
- `LatencyHistogram`: all accesses of the code are relaxed, so the bucket, the
  count and the maximum of one sample become visible in any order. Sum and
  minimum come last, since only a summary at rest reads them. The loops of
  minimum and maximum are a load and compare-exchanges, each a step. The loads
  of a reader are taken in the order of the program. A sample is at
  most what the minimum starts with (`SamplesFit`; `UINT64_MAX` in the code,
  which no 64-bit sample exceeds). `BucketsRoundTrip` speaks about the constants
  alone, so that the run looks at it in one state. The rounding of
  `q * total` in double precision is not modelled.
- `FrameSources`: one clock for the source and its reader; a read may come
  late, fail, or come from a later run.
- `OverlaySink`: a point of a trail is the sequence number of its frame.

## Runs

| run | instance | states | what it shows |
|---|---|---|---|
| `handoff` | every policy, capacity 2, 4 elements | 601 | `StrandedAtMostOne`, `InOrder` |
| `spsc_ring` | blocking and dropping pushes, capacity 2, indices mod 4, epochs mod 6, 4 elements, two closers | 283,745 | `FifoDelivery`, `SlotExclusion`, `DrainedAtEnd`, `CloseEndsConsumer`, `PushReturns`, `ImplementsHandOff` |
| `latest_slot` | epochs mod 8, 5 elements, two closers | 73,987 | `Rotation`, `Conservation`, `NewestGetsThrough`, `CloseEndsConsumer`, `ImplementsHandOff` |
| `pipeline_policies` | every policy, ingress 2, stages 1, 4 frames, stop at any moment | 763,470 | `FramesConserved`, `CaptureOrder`, `ReportAddsUp`, `RunReturns` |
| `pipeline_full` | block, capacities 1, derived pool, 10 frames, source and inference may throw on two of them | 4,342,494 | `CaptureNeverStarves`, `AbortStopsDelivery` |
| `pipeline_abort` | block, pool of 2, 4 frames, source and sink may throw, stop at any moment | 801,626 | `FramesConserved`, `RunReturns` |
| `runcontrol` | two callers, three runs, two sinks, two stops | 89,797 | `OneRunAtATime`, `NoStaleStop`, `SinksFinished`, `InstalledStopEndsRun` |
| `capture` | pool of 3, run and run_sequential, more captures than frames | 210,153 | `FramesFresh`, `AcquireReturns` |
| `stage_objects` | each stage object on small inputs | 2,365,708 | `LetterboxExact`, `PixelsMapBack`, `DecodeExact`, `AcceptedModelFits`, `NmsGreedy`, `AssignmentOptimal`, `TrackIdentity`, `TrackLifeCycle`, `BucketsRoundTrip`, `PercentileSound`, `SummaryExact`, `NoBurst`, `TrailsTrue` |
| `pipeline_stop_claim` | block, 2 frames | violation | finding 1 |
| `takt_run_stop_claim` | one caller, a signal at any moment | violation | finding 2 |
| `yolo_shape_claim` | as `stage_objects` | violation | finding 3 |

What the properties of `capture` and `stage_objects` say: the sinks see nothing of a
frame's last user and no image buffer grows after the first capture
(`FramesFresh`); capture asleep in `acquire` wakes up (`AcquireReturns`); every
float of the tensor is written once, none outside it, and nothing is read
through the tables of another image (`LetterboxExact`); boxes come back to the
pixels they were found on (`PixelsMapBack`); the decoder finds exactly the
anchors above the threshold (`DecodeExact`); a model that is accepted fails no
size check on a frame and is read in its orientation (`AcceptedModelFits`); the
result of suppression is the greedy one (`NmsGreedy`), that of the solver is
optimal (`AssignmentOptimal`); a detection feeds one track and a track has the
state its history gives it (`TrackIdentity`, `TrackLifeCycle`); bucket index and
bound are inverse (`BucketsRoundTrip`), a percentile under concurrent recording
is off by no more than the samples recorded meanwhile (`PercentileSound`), and a
summary at rest is exact (`SummaryExact`); a source read late does not catch up
in a burst (`NoBurst`); a trail holds its own track's last sightings
(`TrailsTrue`).

Deadlock is not checked: everything may have been pushed, popped and closed, or
`run()` may have returned. That nothing stops too early is what the liveness
properties say.

### Bounds

- Ring: 4 elements over 2 slots with indices mod 4 wrap both the slots and the
  indices. `EpochMod` 6 is the smallest value that `SpscRingAssumption` admits
  with two closers; with 5 a wake-up can be missed, because an epoch that comes
  round completely between the load and the wait looks unchanged. In the code
  the epoch has 2^32 values against at most capacity + closers + 1 changes.
- Mailbox: 5 elements take the rotation round more than once. Nothing but the
  number of publications bounds how far the epoch moves while the consumer is
  between its load and its wait; `EpochMod` is larger than that number, as it
  is in the code unless 2^32 frames are published in that window.
- Pipeline: capacity 1 between stages makes every stage block; 4 frames are
  enough for drops at ingress and for displacements at different mailboxes at
  once; 10 frames are more than the nine that fill four hand-offs and five
  hands. In `pipeline_full` the source and inference may throw on the frames 1
  and 5 (`FaultyFrames`): both at once while the pipeline fills up, or inference
  with everything before and after it full. In `pipeline_abort` the source and
  the sink may throw on every frame. Its pool of 2 makes capture find the pool
  exhausted and sleep in `acquire` while the stages, a failing sink or a stop go
  on. What ends the wait may be a frame that comes back, or only the stop: an
  abort can leave both frames in hand-offs whose consumers have ended, each put
  there by a push that raced with a close, and then no frame ever comes back.
  `MaxFrames` is `config_.max_frames`, or the length of a longer source.
- RunControl: three runs show a stop left over from the first and a run after
  a failure; two callers compete for the guard.

- Capture: a pool of 3 frames is smaller than the number of threads, and more
  captures than frames make every frame come back to a second user.
- Stage objects: image sizes from empty over smaller to larger than the target,
  with odd and even padding; heads of both layouts with two frames in a row;
  three detections of two classes over boxes in a row that overlap their
  neighbours; cost matrices of up to the shapes of `SmallShapes` with costs
  below, at and above the limit; four frames with two detections for the
  tracker, enough to start, confirm, lose, find again and age out a track, and
  one reset; three samples by two recorders and one reader over a histogram of
  four-bit values, with one that is clamped; five reads over eight
  units of time; trails of two points over two runs.

### Fairness

Weak fairness of each thread's own steps: the scheduler runs every thread that
can go on, the source, the stage bodies and the sinks return. No fairness on
starting a push, closing, stopping, failing or ending the source, so nothing is
obliged to rescue a blocked thread except the code's own wake-ups. The end of a
run in `Pipeline` follows from `MaxFrames`, in `RunControl` it is not assumed.
In `Capture` the stages and `notify_one` go on; nobody has to stop, drop a frame
or wake up for nothing. In `TaktRun` the main thread and the watcher go on; the
source may be endless, and neither a signal nor a key has to come.

## Findings

1. `pipeline_stop_claim`: after a stop, a captured frame can be neither
   delivered nor counted as dropped. Capture passes the closed check, the stop
   callback closes `ingress` (`pipeline.cpp:284`), preprocess sees it closed
   and empty and ends, capture inserts and counts the frame. ARCHITECTURE.md
   says "every admitted frame is still delivered", and
   `tests/test_pipeline.cpp:170` expects the counters to add up.
   `ReportAddsUp` is the sharp version: one frame at most, only after a stop,
   and never beyond `ingress`.
2. `takt_run_stop_claim`: `begin_run` warms the back end up and starts the sinks
   before it replaces the stop source (`pipeline.cpp:189`). The watcher of
   `takt_run`, started before the run, asks once; if the interrupt comes during
   the warm-up the request goes to the old stop source and the run goes on.
   `takt_run.cpp:131` says the watcher "turns the flag into a proper stop
   request", `pipeline.hpp:75` that `request_stop` "ends the current run
   gracefully". `InstalledStopEndsRun` is what holds: a stop after the
   replacement ends the run.
3. `yolo_shape_claim`: `yolo_layout_from_shape` accepts `[1, 300, 6]` as a raw
   head of 300 anchors and 2 classes; `yolo_decoder.hpp:22` says it throws for
   exactly that shape, and the test tries only `{1, 300, 4}`.

`run_sequential` leaves the sinks unfinished when a run fails, where `run`
finishes them; `SinksFinished` is therefore about pipelined runs. A small `--fake-input` with many
classes (64 with 80 gives `[1, 84, 84]`) breaks the presumption stated at
`yolo_decoder.cpp:15` that a head has more anchors than attributes, and is read
in the wrong orientation; `AcceptedModelFits` excludes it as the comment does.

## Proofs

TLAPS checks these theorems for every value of the constants that the named
assumptions admit; the runs check the same definitions on small instances.

| theorem | states | from |
|---|---|---|
| `SpscRing_proofs!TypeCorrect` | `TypeOK` | `SpscRingAssumption` |
| `SpscRing_proofs!Fifo` | `FifoDelivery` | the same |
| `SpscRing_proofs!Exclusion` | `SlotExclusion` | the same |
| `SpscRing_proofs!Drained` | `DrainedAtEnd` | the same |
| `SpscRing_proofs!Implementation` | `ImplementsHandOff` | the same |
| `HandOff_proofs!Stranded` | `StrandedAtMostOne` | `HandOffAssumption` |
| `HandOff_proofs!Order` | `InOrder` | the same |
| `RunControl_proofs!Guard` | `OneRunAtATime` | `RunControlAssumption` |
| `RunControl_proofs!Isolation` | `NoStaleStop` | the same |
| `RunControl_proofs!Finished` | `SinksFinished` | the same |
| `LatestSlot_proofs!RotationHolds` | `Rotation` | `LatestSlotAssumption` |
| `LatestSlot_proofs!ConservationHolds` | `Conservation` | the same |
| `LatestSlot_proofs!Implementation` | `ImplementsHandOff` | the same |
| `Pipeline_proofs!TypeCorrect` | `TypeOK` | `PipelineAssumption` |
| `Pipeline_proofs!FramesConservedHolds` | `FramesConserved` | the same |
| `Pipeline_proofs!NeverStarves` | `CaptureNeverStarves` | the same |
| `Pipeline_proofs!AbortHolds` | `AbortStopsDelivery` | the same |
| `Pipeline_proofs!ReportHolds` | `ReportAddsUp` | the same |
| `Pipeline_proofs!OrderHolds` | `CaptureOrder` | the same |
| `Capture_proofs!FramesFreshHolds` | `FramesFresh` | `FramePoolAssumption`, `CaptureAssumption` |
| `StageObjects_proofs!PacedWithoutBurst` | `NoBurst` | `FrameSourcesAssumption` |
| `StageObjects_proofs!TrackIdentityHolds` | `TrackIdentity` | `ByteTrackerAssumption` |
| `StageObjects_proofs!TrackLifeCycleHolds` | `TrackLifeCycle` | the same |
| `StageObjects_proofs!BucketsRoundTripHolds` | `BucketsRoundTrip` | `LatencyHistogramAssumption` |
| `StageObjects_proofs!PercentileSoundHolds` | `PercentileSound` | the same |
| `StageObjects_proofs!SummaryExactHolds` | `SummaryExact` | the same, `SamplesFit` |
| `Algorithms_proofs!NmsGreedyHolds` | `NmsGreedy` | `NmsAssumption` |
| `Algorithms_proofs!LetterboxExactHolds` | `LetterboxExact` | `LetterboxerAssumption` |
| `Algorithms_proofs!PixelsMapBackHolds` | `PixelsMapBack` | the same |
| `Algorithms_proofs!DecodeExactHolds` | `DecodeExact` | `YoloDecoderAssumption` |
| `Algorithms_proofs!AcceptedModelFitsHolds` | `AcceptedModelFits` | `BackendsAssumption`, `YoloDecoderAssumption` |
| `Algorithms_proofs!TrailsTrueHolds` | `TrailsTrue` | `OverlaySinkAssumption` |
| `Algorithms_proofs!AssignmentOptimalHolds` | `AssignmentOptimal` | `LinearAssignmentAssumption` |

**The ring.** The assumption asks for a capacity that divides the number of
index values and is smaller than it, which `bit_ceil` and 64-bit indices give.
The invariant is `IInv == TypeOK /\ Offered /\ Placement /\ Closing`. The indices
wrap, so they alone do not say which element is in which slot: `Placement` ties
them to the unwrapped counts `Len(sent)` and `Len(received)`, says that each
private copy of an index stands for an older count that is still near enough to
be unambiguous, and that every slot outside the two threads' hands is either
vacant or holds the element of its count. Lemmas about remainders supply the
arithmetic: two counts less than a capacity apart are in different slots. `Closing` relates
what was published at the moment of `close()` to what has been received.

**The refinement.** The abstract queue is what was published and not yet
released. The store of `tail_` is `Insert`, the store of `head_` is `Pop`, the
second look at `head_` that still finds the ring full is `Refuse`, the second
look at `tail_` after `closed_` was seen is `End`, the load of `closed_` in
`push()` is `PassClosedCheck`; every other access is invisible. `Insert` asks
for growing numbers, hence the extra invariant `Numbered`.

**The hand-off.** `StrandedAtMostOne` is inductive together with `TypeOK`.
`InOrder` is not: an insertion has to be newer than everything before it, which
is `NothingNewer`.

**Run control.** `Guarded` (the flag is down exactly while nobody is inside, and
nobody shares) gives `OneRunAtATime`. `NoStaleStop` rests on the numbers of the
stop sources: none is requested before it is installed (`Numbered`), and a run
past `begin_run` watches the installed one (`Watched`).

`SinksFinished` needs `Finishing`: a run
that fails before its loop never counts as one that looped, and a pipelined run
on its way out of the loop has no sink open.

**The mailbox.** `Rotation` says what the slots in use contain; an exchange
brings back the ones that were not, so `Ownership` says what is in each of the
three at every location. `Conservation` counts copies. That the count is one
rests on `Numbering` (a value that is being published is newer than all that
were stored), `Published`, `OnePlaceEach` (no two places agree, a comparison
instead of a count) and `NothingLost`. For the refinement the abstract queue is
the value in the middle slot if the fresh bit is set; the producer's exchange is
`Insert`, with the displaced value handed back, and the consumer's is `Pop`.

**The pipeline.** The invariant has ten parts. `HandWhere` fixes which locations
a thread has and when it holds a frame; `Balance` is the count of the frames,
written as a sum over the four hand-offs and five hands, and gives
`FramesConserved`. With `QueueBounds` the same sum gives `CaptureNeverStarves`:
four full hand-offs and four busy stages are two frames less than the derived
pool, and capture, which asks, holds none. `LateOnce` gives
`AbortStopsDelivery`. `ReportAddsUp` needs three parts:
`Account` is the equation of the counters in every state of a run without a
failure, where a thread's `Weight` corrects for frames that are already queued
and not yet counted, or dropped and not yet counted; `Closing` says that
hand-offs close from the source to the sink, that a stage which has ended leaves
an empty hand-off, and that what is left in `ingress` is the one frame of a push
that raced a stop; `Joined` that all stages have ended at the report. `Ordered`
compares every two places that can hold frames; `CaptureOrder` follows by
putting its `Line` together from ten pieces.

**Capture.** `FreeList` (the free list is the set of frames in the pool, without
repetition) and `InHand` make a frame's place unique. `Carries` says for each
place which of a frame's buffers already belong to this capture and that no
track or service time of an earlier one is left; `FramesFresh` is its last line.
`FirstRead` explains why `reserve_image_bytes` after the first read reaches
every frame: nobody else has one yet.

**The paced source.** `NoBurst` compares delivery times four frames apart. What
carries it is `DeadlineHolds`: a `read()` that waits was at most a period late
when it began, otherwise the deadline was moved up to the present, and each
frame since has moved it on by a period.

**The tracker.** `TrackIdentity` and `TrackLifeCycle` are inductive together
with the types and `Dated` (no track is from the future). `update` builds its
table from three matchings; the proof follows a track through them. New ids are
given by rank among the detections that start a track, and that two of them
differ and stay below `next_id` is a statement about cardinalities.

**The histogram.** `Counted` says that the counter is the number of samples that
have added to it; `Maximum` that it is the value of a sample, at least that of
every sample that is done with it. `LoopsRight` says of the compare-exchange
loops that the maximum is at least, and the minimum at most, what a loop has
seen, so that a successful exchange only moves them towards the sample and a
loop that gives up had reason to. `Summarized` keeps count and maximum for a
summary, during which nothing is in flight.

**Loops as recursive functions.** The loops of the algorithms are recursive
functions in the models, and the theorems about them are inductions over the
number of iterations. The induction theorems of the library take an operator,
which the provers cannot instantiate, so `StageObjects_proofs` has its own: the
set of the naturals for which a statement holds contains 0 and with a number its
successor (`Induction`, `InductionUpTo`), because a least number outside
(`LeastElement`, from `WFMin`) would follow one inside. Each recursive function
first gets a lemma that it satisfies its own equations.

**Suppression.** `NmsAt` is the loop invariant of the pass in place: the
detections kept so far are an increasing choice from the sorted ones that is
greedy up to index i, the ones from i on are still where they were, and exactly
those that overlap an earlier kept one are marked. The move of a detection to
the front is safe because no more were kept than visited.

**The letterbox.** A scaled side is at most the target (`Fits`), so above, left,
image, right and below partition every plane of the tensor; an index has one
plane, row and column, and exactly one range holds it. `LetterboxInv` says that
the interpolation tables are those of the image in hand whenever a call has
returned, so that what it reads lies in that image.

**The decoder.** Both scan orders return for each anchor its box and the first
of its best classes (`ScanDecodes`, `RowDecodes`), whatever the scratch vectors
held; `Picks` says which anchors the loop has pushed. `DecoderInv` keeps the
layout of a decoder between frames.

**Models.** `ModelInv` follows a model through its phases: what a back end has
declared, what the constructor of the pipeline has accepted, and that no frame
changes either. Its core is arithmetic on shapes: the product of the axes is
the size that the layout gives, in either orientation.

**Buckets.** A value above the linear range has one pair of a shift s and leading
bits t with t * 2^s <= v < (t + 1) * 2^s (`InBucket`). The index is linear in s
and t, the upper bound inverts it, and the next value begins the next bucket;
monotony and the error bound follow.

**Percentiles.** `Bucketed` counts in each bucket the samples that were added to
it. `Scanning` encloses what a reader has accumulated between the samples that
were recorded before it started, up to its bucket, and those that are in those
buckets now; both sides survive any recorder's step. The maximum it loaded
covers the earlier samples (`MaximumLoaded`).

**The summary.** Nothing is in flight at rest, so the scan finds for every rank
the bucket of the sample with that rank (`RankedBy`). `SummaryInv` adds that the
sum is the sum over the samples that have been added and the minimum is the
least of those, or what it started with.

**The trails.** `Enumerates` relates a trail to the history: an increasing
enumeration of the last positions at which the track was seen since it was last
gone, with the last `trail_length` of them if there are more. `TrailsKept` says
it of every trail and ties `last_seen_` to the last sighting, which is what the
pruning looks at.

**The assignment.** `SolverInv` has a part per loop. In all of them the potentials
are feasible and the assigned pairs tight. `Covers` says that after i rows the
columns are assigned to the rows 1..i, each once. While a path is looked for,
`min_slack` and `way` are the least slack over the used columns and where it was
seen (`SlackKept`), a free column exists by the pigeonhole principle
(`FreeColumn`), and `way` leads from every used column back to column 0 along
tight pairs; a rank that falls along it (`LeadsBack`) says that the second loop
never meets a column twice. At the end the assignment is a permutation along
tight pairs, and weak duality (`Duality`, from `TotalPermuted`) makes it the
cheapest one of the extended matrix. `MatchingDescribed` and `PriceIsWeight`
turn every gated matching into a permutation of the same cost, and back.

Only model-checked: the liveness properties `CloseEndsConsumer`, `PushReturns`,
`NewestGetsThrough`, `RunReturns`, `InstalledStopEndsRun` and `AcquireReturns`,
because the prover handles neither fairness nor `ENABLED`. The three properties of
the runs that end in a violation are claims of the repository that do not hold.

`TypeOK` of the ring and of the pipeline is the other way round: it is proved
and no run repeats it.

## Not modelled

- Memory orders of the ring and the mailbox: see above. Of the histogram's
  relaxed accesses those of one `record_us` are modelled as unordered; those of
  a reader, which another order could mix, are not.
- Numbers in floating point: interpolated pixels, confidences, the Kalman
  filter and the matrix library behind it. They have no control flow of their
  own; what depends on their results is a choice in the models.
- Running out of memory inside `prepare` or while a run is set up, other than
  the failures of `RunControl`.
- Drawing, the heads-up display, the JSON lines and the text of reports: pure
  output. The reporter thread only reads the histogram, as the reader of
  `LatencyHistogram` does, and the counters.
- OpenCV and ONNX Runtime: third-party calls, modelled by what they may return.
- Command lines, benchmarks, scripts and build files.

## Plan

1. Done: hand-offs, pipeline, run control and `takt_run`, the pool with frame
   identities, the objects behind the stages, sources and overlay, all checked
   on small instances; for every instance the safety of the ring, the mailbox,
   the pipeline, run control, the frames of capture, the paced sources and the
   tracker, and that ring and mailbox implement the hand-off.
2. Done: proofs of every invariant that the runs check, for every instance.
3. An abstract pipeline (an ordered channel that may drop) that `Pipeline`
   implements.
4. Views per thread for the ring's and the mailbox's memory orders.
