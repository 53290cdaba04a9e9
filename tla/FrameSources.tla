---------------------------- MODULE FrameSources ----------------------------
(***************************************************************************)
(* Where frames come from: SyntheticSource (synthetic_source.cpp) and      *)
(* OpenCvSource with its stills, video files and cameras                   *)
(* (opencv_source.cpp).  Pixels are left out; what is kept is which calls  *)
(* of read() deliver a frame and when a paced source lets one through.     *)
(* Time is counted in whole units of the caller's choice.                  *)
(*                                                                         *)
(* Operators named after a mistake are wrong versions of the definition    *)
(* after them and not part of the specification.                           *)
(***************************************************************************)
EXTENDS Integers, Sequences

CONSTANTS Period,       \* time between two frames of a paced source
          FrameCount,   \* frame_count of a finite synthetic source
          VideoLength,  \* frames of a video file
          MaxReads,     \* bound: frames that are read
          MaxTime       \* bound: the clock

ASSUME FrameSourcesAssumption ==
    /\ Period \in Nat \ {0}
    /\ FrameCount \in Nat \ {0} /\ VideoLength \in Nat
    /\ MaxReads \in Nat /\ MaxTime \in Nat

\* A source and its reader: src, whether a read() sleeps, the clock, whether
\* the last read() returned false and, as a history, when the frames were
\* delivered.  A source outlives the runs that read it, so a read() may come
\* long after the last one, and after one that returned false.
VARIABLE fs

\* produced stands for produced_ and frames_read; position is that of the
\* video file, which belongs to cv::VideoCapture.
Opened(kind, period, frame_count, loop) ==
    [kind |-> kind, period |-> period, frame_count |-> frame_count,
     loop |-> loop, produced |-> 0, next_deadline |-> 0,
     still_delivered |-> FALSE, position |-> 0]

\* make_source() and the constructors: stills and cameras are never paced.
make_source ==
    { Opened("synthetic", p, n, FALSE) : p \in {0, Period}, n \in {0, FrameCount} }
    \cup { Opened("still", 0, 0, b) : b \in BOOLEAN }
    \cup { Opened("video", p, 0, b) : p \in {0, Period}, b \in BOOLEAN }
    \cup { Opened("camera", 0, 0, b) : b \in BOOLEAN }

\* read() returns false before it waits for anything.
AtEnd(s) ==
    \/ s.kind = "synthetic" /\ s.frame_count # 0 /\ s.produced >= s.frame_count
    \/ s.kind = "still" /\ s.still_delivered /\ ~s.loop

AnchoredOnce(s, t) ==
    IF s.produced = 0 THEN [s EXCEPT !.next_deadline = t] ELSE s

\* What a paced read() does at time t before it sleeps until next_deadline:
\* the first frame, and one that is late by more than a period, start the
\* grid again.
Anchored(s, t) ==
    IF s.produced = 0 \/ t > s.next_deadline + s.period
    THEN [s EXCEPT !.next_deadline = t] ELSE s

\* The sources read() can leave behind when it delivers a frame.  The file of
\* a looping video is rewound once, at its end or after a frame that does not
\* decode.
Delivers(s) ==
    LET next == [s EXCEPT !.next_deadline = @ + s.period, !.produced = @ + 1]
    IN CASE s.kind = "synthetic" -> {next}
         [] s.kind = "still"  -> {[s EXCEPT !.still_delivered = TRUE]}
         [] s.kind = "camera" -> {next}
         [] s.kind = "video"  ->
              { [next EXCEPT !.position = p] :
                  p \in {q \in {s.position + 1} \cup (IF s.loop THEN {1} ELSE {}) :
                           q <= VideoLength} }

\* The ones it can leave behind when it returns false after its sleep: a
\* camera is gone, a file has ended or does not decode, also after the rewind.
Fails(s) ==
    IF s.kind \in {"camera", "video"}
    THEN {[s EXCEPT !.next_deadline = @ + s.period,
                    !.position = IF s.kind = "video" /\ s.loop THEN 0 ELSE @]}
    ELSE {}

-----------------------------------------------------------------------------
Init_fs ==
    \E s \in make_source :
        fs = [src |-> s, reading |-> FALSE, time |-> 0, ended |-> FALSE, times |-> <<>>]

\* read() up to its sleep_until().
ReadBegin ==
    /\ ~fs.reading
    /\ Len(fs.times) < MaxReads
    /\ IF AtEnd(fs.src)
       THEN fs' = [fs EXCEPT !.ended = TRUE]
       ELSE fs' = [fs EXCEPT !.reading = TRUE,
                             !.src = IF @.period > 0 THEN Anchored(@, fs.time) ELSE @]

Awake == fs.reading /\ (fs.src.period > 0 => fs.time >= fs.src.next_deadline)

\* The rest of a read() that delivers a frame.
ReadDelivers ==
    /\ Awake
    /\ \E s \in Delivers(fs.src) :
          fs' = [fs EXCEPT !.src = s, !.reading = FALSE, !.ended = FALSE,
                           !.times = Append(@, fs.time)]

\* The rest of a read() that returns false.
ReadFails ==
    /\ Awake
    /\ \E s \in Fails(fs.src) :
          fs' = [fs EXCEPT !.src = s, !.reading = FALSE, !.ended = TRUE]

Tick == fs.time < MaxTime /\ fs' = [fs EXCEPT !.time = @ + 1]

Next_fs == ReadBegin \/ ReadDelivers \/ ReadFails \/ Tick

-----------------------------------------------------------------------------
\* A paced source that is read too late does not make up for the frames it
\* missed, as a camera would not: four frames in a row take a period at least.
NoBurst ==
    fs.src.period > 0 =>
        \A i \in 1..(Len(fs.times) - 3) : fs.times[i + 3] - fs.times[i] >= Period
=============================================================================
