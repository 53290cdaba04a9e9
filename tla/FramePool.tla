----------------------------- MODULE FramePool -----------------------------
(***************************************************************************)
(* The pooled frames of one run: frame.hpp and frame_pool.cpp.  The free   *)
(* list is last in first out, and every buffer of a frame keeps what its   *)
(* last user left there unless reset() or a stage overwrites it.           *)
(*                                                                         *)
(* A buffer's content is modelled by its origin: n + 1 if it was computed  *)
(* from the source's frame with sequence number n, and None if it is       *)
(* empty, zero or never written.                                           *)
(*                                                                         *)
(* Operators named after a mistake are wrong versions of the definition    *)
(* after them and not part of the specification.                           *)
(***************************************************************************)
EXTENDS Integers, Sequences, SequencesExt

CONSTANTS PoolSize,    \* frames of the pool of a pipelined run
          ImageBytes   \* size of the source's images

ASSUME FramePoolAssumption ==
    PoolSize \in Nat \ {0} /\ ImageBytes \in Nat \ {0}

VARIABLE pool

None == 0
StageId == {"kPreprocess", "kInference", "kPostprocess", "kTracking", "kSink"}

NewFrame ==
    [sequence |-> 0, captured_at |-> None, image |-> None, capacity |-> 0,
     input |-> None, output |-> None, letterbox |-> None, detections |-> None,
     tracks |-> None, service_time |-> [s \in StageId |-> None]]

\* FramePool::FramePool: the frames are pushed on the free list one by one.
NewPool(frame_count) ==
    [free |-> [i \in 1..frame_count |-> i],
     frame |-> [f \in 1..frame_count |-> NewFrame]]

ResetKeepsTimes(frame) ==
    [frame EXCEPT !.sequence = 0, !.captured_at = None, !.detections = None,
                  !.tracks = None]

\* Frame::reset(): the tensors, the image and the letterbox stay as they are.
reset_frame(frame) ==
    [frame EXCEPT !.sequence = 0, !.captured_at = None, !.detections = None,
                  !.tracks = None, !.service_time = [s \in StageId |-> None]]

\* take_locked(): the frame that was used last.
Taken(p) == Last(p.free)
take_locked(p) == [p EXCEPT !.free = Front(@)]

\* recycle(): FrameRecycler runs it on whichever thread drops the frame.
recycle(p, f) ==
    [free |-> Append(p.free, f), frame |-> [p.frame EXCEPT ![f] = reset_frame(@)]]

\* reserve_image_bytes(): the free frames only.
reserve_image_bytes(p, bytes) ==
    [p EXCEPT !.frame = [f \in DOMAIN p.frame |->
        IF f \in Range(p.free) /\ p.frame[f].capacity < bytes
        THEN [p.frame[f] EXCEPT !.capacity = bytes] ELSE p.frame[f]]]

\* Image::reshape() to the source's size, and the pixels of frame n.
Fill(frame, n) ==
    [frame EXCEPT !.image = n + 1,
                  !.capacity = IF @ < ImageBytes THEN ImageBytes ELSE @]
=============================================================================
