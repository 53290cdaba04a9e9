--------------------------- MODULE Capture_proofs ---------------------------
(***************************************************************************)
(* Safety of Capture for every size of the pool, every image size and      *)
(* every set of configurations: a frame that comes back from the pool      *)
(* carries nothing of its last use to the sinks.                           *)
(***************************************************************************)
EXTENDS Capture, SequenceTheorems, TLAPS

Frame ==
    [sequence : Nat, captured_at : Nat, image : Nat, capacity : Nat, input : Nat,
     output : Nat, letterbox : Nat, detections : Nat, tracks : Nat,
     service_time : [StageId -> Nat]]
Place == {"pool", "capture", "preprocess", "inference", "postprocess", "sink"}

Types ==
    /\ cfg \in [sequential : BOOLEAN, tracking : BOOLEAN, max_frames : Nat \ {0}]
    /\ at \in [Frames -> Place]
    /\ pool \in [free : Seq(Frames), frame : [Frames -> Frame]]
    /\ cap \in [pc : {"loop", "acquire", "asleep", "read", "inline", "end"},
                frame : Frames \cup {0}, sequence : Nat]
    /\ cfg.sequential => Frames = {1}

\* The free list holds the frames that are in the pool, each one once.
FreeList ==
    /\ \A i \in 1..Len(pool.free) : at[pool.free[i]] = "pool"
    /\ \A f \in Frames : at[f] = "pool" => \E i \in 1..Len(pool.free) : pool.free[i] = f
    /\ \A i, j \in 1..Len(pool.free) : pool.free[i] = pool.free[j] => i = j

\* Capture has a frame in its hand while it reads, and only then.
InHand ==
    /\ \A f \in Frames : at[f] = "capture" <=> cap.pc = "read" /\ cap.frame = f
    /\ cap.pc = "read" => cap.frame \in Frames

\* Whose service times a frame has at a place.
Timed(place) ==
    CASE place = "inference" -> {"kPreprocess"}
      [] place = "postprocess" -> {"kPreprocess", "kInference"}
      [] place = "sink" -> StageId \ {"kSink"}
      [] OTHER -> {}

\* What a frame carries at each place of its way: what the stages before it
\* computed for this capture, and nothing else that a later stage would keep.
Carries(frame, place, tracking) ==
    LET own == frame.sequence + 1
    IN /\ place \notin {"pool", "capture"} => frame.captured_at = own /\ frame.image = own
       /\ place = "inference" => frame.input = own
       /\ place \in {"inference", "postprocess"} => frame.letterbox = own
       /\ place = "postprocess" => frame.output = own
       /\ place = "sink" => frame.detections = own
       /\ frame.tracks = IF place = "sink" /\ tracking THEN own ELSE None
       /\ \A s \in StageId :
             frame.service_time[s] = IF s \in Timed(place) THEN own ELSE None
Contents == \A f \in Frames : Carries(pool.frame[f], at[f], cfg.tracking)

\* Before the first frame is read every frame is in the pool or in capture's
\* hand, so that reserve_image_bytes() reaches all the others.
FirstRead ==
    cap.sequence = 0 => \A f \in Frames : at[f] \in {"pool", "capture"}
Room == cap.sequence > 0 => \A f \in Frames : pool.frame[f].capacity >= ImageBytes

IInv == Types /\ FreeList /\ InHand /\ Contents /\ FirstRead /\ Room

-----------------------------------------------------------------------------
(* What happens to a frame on its way.                                       *)

\* Frame::reset().
LEMMA ResetFrame ==
  ASSUME NEW frame \in Frame, NEW tracking \in BOOLEAN
  PROVE  /\ reset_frame(frame) \in Frame
         /\ Carries(reset_frame(frame), "pool", tracking)
         /\ reset_frame(frame).capacity = frame.capacity
<1>1. /\ reset_frame(frame) \in Frame /\ reset_frame(frame).tracks = None
      /\ reset_frame(frame).service_time = [s \in StageId |-> None]
      /\ reset_frame(frame).capacity = frame.capacity
  BY DEF reset_frame, Frame, None
<1>2. Timed("pool") = {}
  BY DEF Timed
<1> HIDE DEF reset_frame
<1> QED  BY <1>1, <1>2 DEF Carries

\* The frame after read(), the stamps and Image::reshape().
Captured(frame, n) ==
    [Fill(frame, n) EXCEPT !.captured_at = n + 1, !.sequence = n]

\* A frame that was blank is this capture's own.
LEMMA CaptureFrame ==
  ASSUME NEW frame \in Frame, NEW tracking \in BOOLEAN, NEW n \in Nat,
         Carries(frame, "capture", tracking)
  PROVE  /\ Captured(frame, n) \in Frame
         /\ Carries(Captured(frame, n), "preprocess", tracking)
         /\ Captured(frame, n).capacity >= ImageBytes
<1>0. ImageBytes \in Nat /\ n + 1 \in Nat
  BY FramePoolAssumption
<1> DEFINE filled == Fill(frame, n)
           g == Captured(frame, n)
<1>1. /\ filled \in Frame /\ filled.image = n + 1 /\ filled.capacity >= ImageBytes
      /\ filled.tracks = frame.tracks /\ filled.service_time = frame.service_time
  <2> DEFINE c == IF frame.capacity < ImageBytes THEN ImageBytes ELSE frame.capacity
  <2>1. c \in Nat /\ c >= ImageBytes
    BY <1>0 DEF Frame
  <2>2. filled = [frame EXCEPT !.image = n + 1, !.capacity = c]
    BY DEF Fill
  <2> HIDE DEF c
  <2> QED  BY <1>0, <2>1, <2>2 DEF Frame
<1> HIDE DEF filled
<1>2. /\ g \in Frame /\ g.sequence = n /\ g.captured_at = n + 1 /\ g.image = n + 1
      /\ g.capacity >= ImageBytes
      /\ g.tracks = frame.tracks /\ g.service_time = frame.service_time
  BY <1>0, <1>1 DEF Captured, Frame, filled
<1>3. Timed("preprocess") = {} /\ Timed("capture") = {}
  BY DEF Timed
<1>4. frame.tracks = None /\ \A s \in StageId : frame.service_time[s] = None
  BY <1>3 DEF Carries
<1> HIDE DEF g
<1> QED  BY <1>2, <1>3, <1>4 DEF Carries, g

\* A stage's work on a frame takes it to the next stage.
LEMMA StageFrame ==
  ASSUME NEW frame \in Frame, NEW place \in DOMAIN NextStage,
         cfg.tracking \in BOOLEAN, Carries(frame, place, cfg.tracking)
  PROVE  /\ Body(place, frame) \in Frame
         /\ Carries(Body(place, frame), NextStage[place], cfg.tracking)
         /\ Body(place, frame).capacity = frame.capacity
<1> DEFINE own == frame.sequence + 1
<1>0. own \in Nat /\ None \in Nat /\ frame.service_time \in [StageId -> Nat]
  BY DEF Frame, None
<1>1. /\ DOMAIN NextStage = {"preprocess", "inference", "postprocess"}
      /\ NextStage["preprocess"] = "inference" /\ NextStage["inference"] = "postprocess"
      /\ NextStage["postprocess"] = "sink"
  BY DEF NextStage
<1>2. ASSUME NEW g \in Frame, NEW ids \in SUBSET StageId, g.sequence = frame.sequence
      PROVE  /\ timed(g, ids) \in Frame
             /\ \A s \in StageId : timed(g, ids).service_time[s] =
                                     IF s \in ids THEN own ELSE g.service_time[s]
             /\ timed(g, ids).sequence = g.sequence
             /\ timed(g, ids).captured_at = g.captured_at /\ timed(g, ids).image = g.image
             /\ timed(g, ids).capacity = g.capacity /\ timed(g, ids).input = g.input
             /\ timed(g, ids).output = g.output /\ timed(g, ids).letterbox = g.letterbox
             /\ timed(g, ids).detections = g.detections /\ timed(g, ids).tracks = g.tracks
  <2> DEFINE times == [s \in StageId |-> IF s \in ids THEN own ELSE g.service_time[s]]
  <2>1. times \in [StageId -> Nat]
    BY <1>0 DEF Frame
  <2>2. timed(g, ids) = [g EXCEPT !.service_time = times]
    BY <1>2 DEF timed
  <2>3. \A s \in StageId : times[s] = IF s \in ids THEN own ELSE g.service_time[s]
    OBVIOUS
  <2> HIDE DEF times, own
  <2> QED  BY <2>1, <2>2, <2>3 DEF Frame
<1>3. CASE place = "preprocess"
  <2> DEFINE g == [frame EXCEPT !.input = frame.image, !.letterbox = frame.image]
             b == timed(g, {"kPreprocess"})
  <2>1. Body(place, frame) = b
    BY <1>3 DEF Body, preprocess
  <2>2. /\ g \in Frame /\ g.sequence = frame.sequence /\ g.input = frame.image
        /\ g.letterbox = frame.image /\ g.image = frame.image
        /\ g.captured_at = frame.captured_at /\ g.capacity = frame.capacity
        /\ g.tracks = frame.tracks /\ g.service_time = frame.service_time
    BY DEF Frame
  <2>3. /\ frame.image = own /\ frame.captured_at = own /\ frame.tracks = None
        /\ \A s \in StageId : frame.service_time[s] = None
    BY <1>3 DEF Carries, Timed
  <2>4. {"kPreprocess"} \in SUBSET StageId /\ Timed("inference") = {"kPreprocess"}
    BY DEF StageId, Timed
  <2> HIDE DEF g
  <2>5. /\ b \in Frame /\ b.sequence = frame.sequence /\ b.input = own
        /\ b.letterbox = own /\ b.image = own /\ b.captured_at = own
        /\ b.capacity = frame.capacity /\ b.tracks = None
        /\ \A s \in StageId : b.service_time[s] = IF s \in {"kPreprocess"} THEN own ELSE None
    BY <1>2, <2>2, <2>3, <2>4
  <2> HIDE DEF b
  <2> QED  BY <1>1, <1>3, <2>1, <2>4, <2>5 DEF Carries
<1>4. CASE place = "inference"
  <2> DEFINE g == [frame EXCEPT !.output = frame.input]
             b == timed(g, {"kInference"})
  <2>1. Body(place, frame) = b
    BY <1>4 DEF Body, infer
  <2>2. /\ g \in Frame /\ g.sequence = frame.sequence /\ g.output = frame.input
        /\ g.letterbox = frame.letterbox /\ g.image = frame.image
        /\ g.captured_at = frame.captured_at /\ g.capacity = frame.capacity
        /\ g.tracks = frame.tracks /\ g.service_time = frame.service_time
    BY DEF Frame
  <2>3. /\ frame.image = own /\ frame.captured_at = own /\ frame.tracks = None
        /\ frame.input = own /\ frame.letterbox = own
        /\ \A s \in StageId : frame.service_time[s] =
                                 IF s = "kPreprocess" THEN own ELSE None
    BY <1>4 DEF Carries, Timed
  <2>4. /\ {"kInference"} \in SUBSET StageId
        /\ Timed("postprocess") = {"kPreprocess", "kInference"}
    BY DEF StageId, Timed
  <2> HIDE DEF g
  <2>5. /\ b \in Frame /\ b.sequence = frame.sequence /\ b.output = own
        /\ b.letterbox = own /\ b.image = own /\ b.captured_at = own
        /\ b.capacity = frame.capacity /\ b.tracks = None
        /\ \A s \in StageId : b.service_time[s] =
              IF s \in {"kPreprocess", "kInference"} THEN own ELSE None
    BY <1>2, <2>2, <2>3, <2>4
  <2> HIDE DEF b
  <2> QED  BY <1>1, <1>4, <2>1, <2>4, <2>5 DEF Carries
<1>5. CASE place = "postprocess"
  <2> DEFINE g == [frame EXCEPT !.detections =
                     IF frame.output = frame.letterbox THEN frame.output ELSE None]
             p == timed(g, {"kPostprocess"})
             h == [p EXCEPT !.tracks = IF cfg.tracking THEN p.detections ELSE p.tracks]
             b == timed(h, {"kTracking"})
  <2>1. Body(place, frame) = b
    BY <1>5 DEF Body, track, postprocess
  <2>3. /\ frame.image = own /\ frame.captured_at = own /\ frame.tracks = None
        /\ frame.output = own /\ frame.letterbox = own
        /\ \A s \in StageId : frame.service_time[s] =
                                 IF s \in {"kPreprocess", "kInference"} THEN own ELSE None
    BY <1>5 DEF Carries, Timed
  <2>2. /\ g \in Frame /\ g.sequence = frame.sequence /\ g.detections = own
        /\ g.image = own /\ g.captured_at = own /\ g.capacity = frame.capacity
        /\ g.tracks = None /\ g.service_time = frame.service_time
    BY <1>0, <2>3 DEF Frame
  <2>4. /\ {"kPostprocess"} \in SUBSET StageId /\ {"kTracking"} \in SUBSET StageId
        /\ Timed("sink") = {"kPreprocess", "kInference", "kPostprocess", "kTracking"}
    BY DEF StageId, Timed
  <2> HIDE DEF g
  <2>5. /\ p \in Frame /\ p.sequence = frame.sequence /\ p.detections = own
        /\ p.image = own /\ p.captured_at = own /\ p.capacity = frame.capacity
        /\ p.tracks = None
        /\ \A s \in StageId : p.service_time[s] =
              IF s \in {"kPreprocess", "kInference", "kPostprocess"} THEN own ELSE None
    BY <1>2, <2>2, <2>3, <2>4
  <2> HIDE DEF p, own
  <2>6. /\ h \in Frame /\ h.sequence = frame.sequence /\ h.detections = own
        /\ h.image = own /\ h.captured_at = own /\ h.capacity = frame.capacity
        /\ h.tracks = IF cfg.tracking THEN own ELSE None
        /\ h.service_time = p.service_time
    BY <1>0, <2>5 DEF Frame
  <2> HIDE DEF h
  <2>7. /\ b \in Frame /\ b.sequence = frame.sequence /\ b.detections = own
        /\ b.image = own /\ b.captured_at = own /\ b.capacity = frame.capacity
        /\ b.tracks = IF cfg.tracking THEN own ELSE None
        /\ \A s \in StageId : b.service_time[s] = IF s \in Timed("sink") THEN own ELSE None
    BY <1>2, <2>4, <2>5, <2>6
  <2> HIDE DEF b
  <2> QED  BY <1>1, <1>5, <2>1, <2>7 DEF Carries, own
<1> QED  BY <1>1, <1>3, <1>4, <1>5

-----------------------------------------------------------------------------
(* The steps.                                                                *)

\* What the invariant says of the state's types.
LEMMA TypeFacts ==
  ASSUME Types
  PROVE  /\ pool.free \in Seq(Frames) /\ pool.frame \in [Frames -> Frame]
         /\ at \in [Frames -> Place] /\ cfg.tracking \in BOOLEAN
         /\ cap.sequence \in Nat /\ Len(pool.free) \in Nat
         /\ \A i \in 1..Len(pool.free) : pool.free[i] \in Frames
         /\ pool = [free |-> pool.free, frame |-> pool.frame]
BY DEF Types

\* One frame changes place and content, the others do not.
LEMMA OneFrame ==
  ASSUME Types, Contents, NEW f \in Frames, NEW x \in Frame, NEW place \in Place,
         pool'.frame = [pool.frame EXCEPT ![f] = x], at' = [at EXCEPT ![f] = place],
         cfg' = cfg, Carries(x, place, cfg.tracking)
  PROVE  /\ Frames' = Frames /\ at' \in [Frames -> Place]
         /\ pool'.frame \in [Frames -> Frame] /\ Contents'
         /\ \A g \in Frames : /\ at'[g] = IF g = f THEN place ELSE at[g]
                              /\ pool'.frame[g] = IF g = f THEN x ELSE pool.frame[g]
<1>1. pool.frame \in [Frames -> Frame] /\ at \in [Frames -> Place]
  BY TypeFacts
<1>2. Frames' = Frames /\ at' \in [Frames -> Place] /\ pool'.frame \in [Frames -> Frame]
  BY <1>1 DEF Frames
<1>3. \A g \in Frames : /\ at'[g] = IF g = f THEN place ELSE at[g]
                        /\ pool'.frame[g] = IF g = f THEN x ELSE pool.frame[g]
  BY <1>1
<1>4. ASSUME NEW g \in Frames PROVE Carries(pool'.frame[g], at'[g], cfg'.tracking)
  <2>1. CASE g = f
    BY <1>3, <2>1
  <2>2. CASE g # f
    BY <1>3, <2>2 DEF Contents
  <2> QED  BY <2>1, <2>2
<1>5. Contents'
  BY <1>2, <1>4 DEF Contents
<1> QED  BY <1>2, <1>3, <1>5

\* Steps that move no frame.
LEMMA RestStep ==
  ASSUME IInv, pool' = pool, at' = at, cfg' = cfg,
         \/ cap' = cap
         \/ \E l \in {"loop", "acquire", "asleep", "inline", "end"} :
               cap.pc # "read" /\ cap' = [cap EXCEPT !.pc = l]
  PROVE  IInv'
<1>1. CASE cap' = cap
  BY <1>1 DEF IInv, Types, FreeList, InHand, Contents, FirstRead, Room, Frames
<1>2. ASSUME NEW l \in {"loop", "acquire", "asleep", "inline", "end"},
             cap.pc # "read", cap' = [cap EXCEPT !.pc = l]
      PROVE  IInv'
  <2>1. /\ cap' \in [pc : {"loop", "acquire", "asleep", "read", "inline", "end"},
                     frame : Frames \cup {0}, sequence : Nat]
        /\ cap'.sequence = cap.sequence /\ cap'.pc # "read"
    BY <1>2 DEF IInv, Types
  <2> QED
    BY <1>2, <2>1 DEF IInv, Types, FreeList, InHand, Contents, FirstRead, Room, Frames
<1> QED  BY <1>1, <1>2

\* take_locked(): the free list without its last frame.
LEMMA AcquireStep ==
  ASSUME IInv, cap.pc # "read", pool.free # <<>>, cfg' = cfg,
         pool' = take_locked(pool), at' = [at EXCEPT ![Taken(pool)] = "capture"],
         cap' = [cap EXCEPT !.pc = "read", !.frame = Taken(pool)]
  PROVE  IInv'
<1> DEFINE n == Len(pool.free)
           f == pool.free[n]
<1>t. /\ Types /\ pool.free \in Seq(Frames) /\ pool.frame \in [Frames -> Frame]
      /\ at \in [Frames -> Place] /\ cfg.tracking \in BOOLEAN /\ cap.sequence \in Nat
      /\ n \in Nat /\ \A i \in 1..n : pool.free[i] \in Frames
  BY TypeFacts DEF IInv
<1>1. n >= 1 /\ n \in 1..n /\ f \in Frames /\ Taken(pool) = f /\ at[f] = "pool"
  <2>1. n # 0
    BY <1>t, EmptySeq
  <2> QED  BY <1>t, <2>1 DEF IInv, FreeList, Taken, Last
<1>2. /\ pool'.frame = pool.frame /\ pool'.free = SubSeq(pool.free, 1, n - 1)
      /\ pool' = [free |-> pool'.free, frame |-> pool'.frame]
  BY DEF take_locked, Front, IInv, Types
<1>3. /\ pool'.free \in Seq(Frames) /\ Len(pool'.free) = n - 1
      /\ \A i \in 1..(n - 1) : pool'.free[i] = pool.free[i]
  <2> DEFINE s == SubSeq(pool.free, 1, n - 1)
  <2>1. 1 \in Int /\ n - 1 \in Int /\ \A i \in 1..(n - 1) : pool.free[i] \in Frames
    BY <1>t
  <2>2. /\ s \in Seq(Frames) /\ Len(s) = IF 1 <= n - 1 THEN (n - 1) - 1 + 1 ELSE 0
        /\ \A i \in 1..((n - 1) - 1 + 1) : s[i] = pool.free[1 + i - 1]
    BY <2>1, SubSeqProperties
  <2>3. \A i \in 1..(n - 1) : i \in 1..((n - 1) - 1 + 1) /\ 1 + i - 1 = i
    BY <1>t
  <2> HIDE DEF s
  <2>4. Len(s) = n - 1
    BY <1>t, <1>1, <2>2
  <2> QED  BY <1>2, <2>2, <2>3, <2>4 DEF s
<1> HIDE DEF f
<1>4. Carries(pool.frame[f], "capture", cfg.tracking)
  <2>1. Carries(pool.frame[f], "pool", cfg.tracking)
    BY <1>1 DEF IInv, Contents
  <2>2. Timed("pool") = {} /\ Timed("capture") = {}
    BY DEF Timed
  <2> QED  BY <2>1, <2>2 DEF Carries
<1>5. pool'.frame = [pool.frame EXCEPT ![f] = pool.frame[f]]
  BY <1>t, <1>1, <1>2
<1>6. /\ Frames' = Frames /\ at' \in [Frames -> Place]
      /\ pool'.frame \in [Frames -> Frame] /\ Contents'
      /\ \A g \in Frames : at'[g] = IF g = f THEN "capture" ELSE at[g]
  <2>1. pool.frame[f] \in Frame /\ "capture" \in Place
    BY <1>t, <1>1 DEF Place
  <2> QED  BY <1>t, <1>1, <1>4, <1>5, <2>1, OneFrame DEF IInv
<1>7. /\ cap' \in [pc : {"loop", "acquire", "asleep", "read", "inline", "end"},
                   frame : Frames \cup {0}, sequence : Nat]
      /\ cap'.pc = "read" /\ cap'.frame = f /\ cap'.sequence = cap.sequence
  BY <1>t, <1>1 DEF Types
<1>8. Types'
  BY <1>t, <1>2, <1>3, <1>6, <1>7 DEF Types
<1>9. FreeList'
  <2>1. \A i, j \in 1..n : pool.free[i] = pool.free[j] => i = j
    BY DEF IInv, FreeList
  <2>2. \A i \in 1..(n - 1) : i \in 1..n /\ i # n
    BY <1>t
  <2>3. \A i \in 1..(n - 1) : pool.free[i] # f
    BY <1>1, <2>1, <2>2 DEF f
  <2>4. \A i \in 1..(n - 1) : at'[pool'.free[i]] = "pool"
    BY <1>t, <1>3, <1>6, <2>2, <2>3 DEF IInv, FreeList
  <2>5. ASSUME NEW g \in Frames, at'[g] = "pool"
        PROVE  \E i \in 1..(n - 1) : pool'.free[i] = g
    <3>1. g # f /\ at[g] = "pool"
      BY <1>6, <2>5
    <3>2. PICK i \in 1..n : pool.free[i] = g
      BY <3>1 DEF IInv, FreeList
    <3>3. i \in 1..(n - 1)
      BY <1>t, <3>1, <3>2 DEF f
    <3> QED  BY <1>3, <3>2, <3>3
  <2>6. \A i, j \in 1..(n - 1) : pool'.free[i] = pool'.free[j] => i = j
    BY <1>3, <2>1, <2>2
  <2> HIDE DEF n
  <2> QED  BY <1>3, <1>6, <2>4, <2>5, <2>6 DEF FreeList
<1>10. InHand'
  <2>1. \A g \in Frames : at[g] # "capture"
    BY DEF IInv, InHand
  <2> QED  BY <1>1, <1>6, <1>7, <2>1 DEF InHand
<1>11. FirstRead' /\ Room'
  BY <1>2, <1>6, <1>7 DEF IInv, FirstRead, Room
<1> QED  BY <1>6, <1>8, <1>9, <1>10, <1>11 DEF IInv

\* recycle() of a frame that is not in the pool.
LEMMA ReleaseStep ==
  ASSUME IInv, NEW f \in Frames, at[f] # "pool", cfg' = cfg,
         NEW p, p.free = pool.free, p.frame \in [Frames -> Frame],
         \A g \in Frames : g # f => p.frame[g] = pool.frame[g],
         p.frame[f].capacity = pool.frame[f].capacity,
         Release(p, f),
         \/ at[f] # "capture" /\ cap' = cap
         \/ at[f] = "capture" /\ cap' = [cap EXCEPT !.pc = "end"]
  PROVE  IInv'
<1> DEFINE n == Len(pool.free)
           x == reset_frame(p.frame[f])
<1>t. /\ Types /\ pool.free \in Seq(Frames) /\ pool.frame \in [Frames -> Frame]
      /\ at \in [Frames -> Place] /\ cfg.tracking \in BOOLEAN /\ cap.sequence \in Nat
      /\ n \in Nat /\ \A i \in 1..n : pool.free[i] \in Frames
  BY TypeFacts DEF IInv
<1>1. /\ x \in Frame /\ Carries(x, "pool", cfg.tracking)
      /\ x.capacity = pool.frame[f].capacity
  BY <1>t, ResetFrame
<1> HIDE DEF x
<1>2. /\ pool'.free = Append(pool.free, f)
      /\ pool' = [free |-> pool'.free, frame |-> pool'.frame]
      /\ pool'.frame = [p.frame EXCEPT ![f] = x]
      /\ at' = [at EXCEPT ![f] = "pool"]
  BY DEF Release, recycle, x
<1>3. pool'.frame = [pool.frame EXCEPT ![f] = x]
  BY <1>t, <1>2
<1>4. /\ Frames' = Frames /\ at' \in [Frames -> Place]
      /\ pool'.frame \in [Frames -> Frame] /\ Contents'
      /\ \A g \in Frames : /\ at'[g] = IF g = f THEN "pool" ELSE at[g]
                           /\ pool'.frame[g] = IF g = f THEN x ELSE pool.frame[g]
  <2>1. "pool" \in Place
    BY DEF Place
  <2> QED  BY <1>t, <1>1, <1>2, <1>3, <2>1, OneFrame DEF IInv
<1>5. /\ pool'.free \in Seq(Frames) /\ Len(pool'.free) = n + 1
      /\ \A i \in 1..n : pool'.free[i] = pool.free[i]
      /\ pool'.free[n + 1] = f
  BY <1>t, <1>2
<1>6. /\ cap' \in [pc : {"loop", "acquire", "asleep", "read", "inline", "end"},
                   frame : Frames \cup {0}, sequence : Nat]
      /\ cap'.sequence = cap.sequence
      /\ at[f] # "capture" => cap' = cap
      /\ at[f] = "capture" => cap'.pc = "end"
  BY <1>t DEF Types
<1>7. Types'
  BY <1>t, <1>2, <1>4, <1>5, <1>6 DEF Types
<1>8. FreeList'
  <2>1. \A i \in 1..n : at[pool.free[i]] = "pool" /\ pool.free[i] # f
    BY DEF IInv, FreeList
  <2>2. \A i \in 1..(n + 1) : i \in 1..n \/ i = n + 1
    BY <1>t
  <2>3. \A i \in 1..(n + 1) : at'[pool'.free[i]] = "pool"
    BY <1>t, <1>4, <1>5, <2>1, <2>2
  <2>4. ASSUME NEW g \in Frames, at'[g] = "pool"
        PROVE  \E i \in 1..(n + 1) : pool'.free[i] = g
    <3>1. CASE g = f
      <4>1. n + 1 \in 1..(n + 1)
        BY <1>t
      <4> QED  BY <1>5, <3>1, <4>1
    <3>2. CASE g # f
      <4>1. PICK i \in 1..n : pool.free[i] = g
        BY <1>4, <2>4, <3>2 DEF IInv, FreeList
      <4>2. i \in 1..(n + 1)
        BY <1>t
      <4> QED  BY <1>5, <4>1, <4>2
    <3> QED  BY <3>1, <3>2
  <2>5. ASSUME NEW i \in 1..(n + 1), NEW j \in 1..(n + 1), pool'.free[i] = pool'.free[j]
        PROVE  i = j
    <3>1. CASE i \in 1..n /\ j \in 1..n
      BY <1>5, <2>5, <3>1 DEF IInv, FreeList
    <3>2. CASE i = n + 1 \/ j = n + 1
      BY <1>5, <2>1, <2>2, <2>5, <3>2
    <3> QED  BY <2>2, <3>1, <3>2
  <2> HIDE DEF n
  <2> QED  BY <1>4, <1>5, <2>3, <2>4, <2>5 DEF FreeList
<1>9. InHand'
  BY <1>4, <1>6 DEF IInv, InHand
<1>10. FirstRead' /\ Room'
  BY <1>1, <1>4, <1>6 DEF IInv, FirstRead, Room
<1> QED  BY <1>4, <1>7, <1>8, <1>9, <1>10 DEF IInv

\* A stage's work on a frame.
LEMMA WorkStep ==
  ASSUME IInv, NEW f \in Frames, Stage(f)
  PROVE  IInv'
<1> DEFINE x == Body(at[f], pool.frame[f])
           place == NextStage[at[f]]
<1>t. /\ Types /\ pool.free \in Seq(Frames) /\ pool.frame \in [Frames -> Frame]
      /\ at \in [Frames -> Place] /\ cfg.tracking \in BOOLEAN
      /\ \A i \in 1..Len(pool.free) : pool.free[i] \in Frames
  BY TypeFacts DEF IInv
<1>1. /\ at[f] \in DOMAIN NextStage /\ cfg' = cfg /\ cap' = cap
      /\ pool' = [pool EXCEPT !.frame[f] = x] /\ at' = [at EXCEPT ![f] = place]
  BY DEF Stage
<1>2. at[f] \in {"preprocess", "inference", "postprocess"}
      /\ place \in {"inference", "postprocess", "sink"}
  BY <1>1 DEF NextStage
<1>3. x \in Frame /\ Carries(x, place, cfg.tracking)
      /\ x.capacity = pool.frame[f].capacity
  BY <1>t, <1>1, StageFrame DEF IInv, Contents
<1> HIDE DEF x, place
<1>4. /\ pool'.free = pool.free /\ pool'.frame = [pool.frame EXCEPT ![f] = x]
      /\ pool' = [free |-> pool'.free, frame |-> pool'.frame]
  BY <1>t, <1>1 DEF Types
<1>5. /\ Frames' = Frames /\ at' \in [Frames -> Place]
      /\ pool'.frame \in [Frames -> Frame] /\ Contents'
      /\ \A g \in Frames : /\ at'[g] = IF g = f THEN place ELSE at[g]
                           /\ pool'.frame[g] = IF g = f THEN x ELSE pool.frame[g]
  <2>1. place \in Place
    BY <1>2 DEF Place
  <2> QED  BY <1>t, <1>1, <1>3, <1>4, <2>1, OneFrame DEF IInv
<1>6. Types'
  BY <1>t, <1>1, <1>4, <1>5 DEF Types
<1>7. FreeList'
  BY <1>t, <1>2, <1>4, <1>5 DEF IInv, FreeList
<1>8. InHand'
  BY <1>1, <1>2, <1>5 DEF IInv, InHand
<1>9. FirstRead'
  BY <1>1, <1>2, <1>5 DEF IInv, FirstRead
<1>10. Room'
  BY <1>1, <1>3, <1>5 DEF IInv, Room
<1> QED  BY <1>5, <1>6, <1>7, <1>8, <1>9, <1>10 DEF IInv

\* read() delivers a frame; with the first one the free frames get their room.
LEMMA ReadStep ==
  ASSUME IInv, CaptureRead
  PROVE  IInv'
<1> DEFINE f == cap.frame
           n == cap.sequence
           filled == [pool EXCEPT !.frame[f] = Fill(pool.frame[f], n)]
           first == n = 0 /\ ~cfg.sequential
           sized == IF first THEN reserve_image_bytes(filled, ImageBytes) ELSE filled
           x == Captured(pool.frame[f], n)
           Sized(g) == IF /\ first /\ g \in Range(pool.free)
                          /\ pool.frame[g].capacity < ImageBytes
                       THEN [pool.frame[g] EXCEPT !.capacity = ImageBytes]
                       ELSE pool.frame[g]
<1>t. /\ Types /\ pool.free \in Seq(Frames) /\ pool.frame \in [Frames -> Frame]
      /\ at \in [Frames -> Place] /\ cfg.tracking \in BOOLEAN /\ cap.sequence \in Nat
      /\ \A i \in 1..Len(pool.free) : pool.free[i] \in Frames
      /\ ImageBytes \in Nat
  BY TypeFacts, FramePoolAssumption DEF IInv
<1>1. f \in Frames /\ at[f] = "capture" /\ cap.pc = "read"
  BY DEF CaptureRead, IInv, InHand
<1>2. /\ pool' = [sized EXCEPT !.frame[f].captured_at = n + 1, !.frame[f].sequence = n]
      /\ at' = [at EXCEPT ![f] = "preprocess"] /\ cfg' = cfg
      /\ cap' = [cap EXCEPT !.pc = IF cfg.sequential THEN "inline" ELSE "loop",
                            !.sequence = n + 1]
  BY DEF CaptureRead
<1>3. /\ x \in Frame /\ Carries(x, "preprocess", cfg.tracking)
      /\ x.capacity >= ImageBytes
  <2>1. Carries(pool.frame[f], "capture", cfg.tracking) /\ pool.frame[f] \in Frame
    BY <1>t, <1>1 DEF IInv, Contents
  <2> QED  BY <1>t, <2>1, CaptureFrame
<1>4. f \notin Range(pool.free)
  <2>1. \A i \in 1..Len(pool.free) : at[pool.free[i]] = "pool"
    BY DEF IInv, FreeList
  <2>2. DOMAIN pool.free = 1..Len(pool.free)
    BY <1>t
  <2> QED  BY <1>1, <2>1, <2>2 DEF Range
<1>5. \A g \in Frames : /\ Sized(g) \in Frame
                        /\ Carries(Sized(g), at[g], cfg.tracking)
                        /\ Sized(g).capacity >= pool.frame[g].capacity
                        /\ first /\ g \in Range(pool.free) => Sized(g).capacity >= ImageBytes
  <2> SUFFICES ASSUME NEW g \in Frames
               PROVE  /\ Sized(g) \in Frame
                      /\ Carries(Sized(g), at[g], cfg.tracking)
                      /\ Sized(g).capacity >= pool.frame[g].capacity
                      /\ first /\ g \in Range(pool.free) => Sized(g).capacity >= ImageBytes
    OBVIOUS
  <2>1. pool.frame[g] \in Frame /\ Carries(pool.frame[g], at[g], cfg.tracking)
    BY <1>t DEF IInv, Contents
  <2> DEFINE old == pool.frame[g]
             larger == [old EXCEPT !.capacity = ImageBytes]
  <2>2. /\ larger \in Frame /\ larger.capacity = ImageBytes
        /\ larger.sequence = old.sequence /\ larger.captured_at = old.captured_at
        /\ larger.image = old.image /\ larger.input = old.input
        /\ larger.output = old.output /\ larger.letterbox = old.letterbox
        /\ larger.detections = old.detections /\ larger.tracks = old.tracks
        /\ larger.service_time = old.service_time
    BY <1>t, <2>1 DEF Frame
  <2>3. Sized(g) = old \/ (Sized(g) = larger /\ old.capacity < ImageBytes)
    OBVIOUS
  <2>4. first /\ g \in Range(pool.free) => Sized(g) = larger \/ ~(old.capacity < ImageBytes)
    OBVIOUS
  <2>5. old.capacity \in Nat
    BY <2>1 DEF Frame
  <2> HIDE DEF Sized, larger, old, first
  <2>6. Carries(larger, at[g], cfg.tracking)
    BY <2>1, <2>2 DEF Carries, old
  <2>7. old \in Frame /\ Carries(old, at[g], cfg.tracking) /\ old = pool.frame[g]
    BY <2>1 DEF old
  <2> QED  BY <1>t, <2>2, <2>3, <2>4, <2>5, <2>6, <2>7
<1>6. /\ pool'.free = pool.free
      /\ pool'.frame = [g \in Frames |-> IF g = f THEN x ELSE Sized(g)]
      /\ pool' = [free |-> pool'.free, frame |-> pool'.frame]
  <2>1. /\ filled.free = pool.free
        /\ filled.frame = [g \in Frames |-> IF g = f THEN Fill(pool.frame[f], n)
                                                     ELSE pool.frame[g]]
        /\ filled = [free |-> filled.free, frame |-> filled.frame]
    <3> DEFINE y == Fill(pool.frame[f], n)
    <3> HIDE DEF y
    <3>1. filled = [pool EXCEPT !.frame[f] = y]
      BY DEF y
    <3> HIDE DEF filled
    <3> QED  BY <1>t, <1>1, <3>1 DEF Types, y
  <2>2. /\ sized.free = pool.free
        /\ sized.frame = [g \in Frames |-> IF g = f THEN Fill(pool.frame[f], n)
                                                    ELSE Sized(g)]
        /\ sized = [free |-> sized.free, frame |-> sized.frame]
    <3>1. CASE first
      <4>1. sized = [filled EXCEPT !.frame =
               [g \in DOMAIN filled.frame |->
                  IF g \in Range(filled.free) /\ filled.frame[g].capacity < ImageBytes
                  THEN [filled.frame[g] EXCEPT !.capacity = ImageBytes]
                  ELSE filled.frame[g]]]
        BY <3>1 DEF reserve_image_bytes
      <4> HIDE DEF filled, sized
      <4>2. DOMAIN filled.frame = Frames
        BY <2>1
      <4>3. \A g \in Frames :
               (IF g \in Range(filled.free) /\ filled.frame[g].capacity < ImageBytes
                THEN [filled.frame[g] EXCEPT !.capacity = ImageBytes]
                ELSE filled.frame[g])
               = IF g = f THEN Fill(pool.frame[f], n) ELSE Sized(g)
        BY <1>4, <2>1, <3>1
      <4> HIDE DEF Sized
      <4>4. sized.frame = [g \in Frames |-> IF g = f THEN Fill(pool.frame[f], n)
                                                      ELSE Sized(g)]
        BY <2>1, <4>1, <4>2, <4>3
      <4> QED  BY <2>1, <4>1, <4>4
    <3>2. CASE ~first
      <4>1. sized = filled /\ \A g \in Frames : Sized(g) = pool.frame[g]
        BY <3>2
      <4> HIDE DEF filled, sized, Sized
      <4> QED  BY <2>1, <4>1
    <3> QED  BY <3>1, <3>2
  <2> HIDE DEF sized, filled, Sized
  <2>3. x = [Fill(pool.frame[f], n) EXCEPT !.captured_at = n + 1, !.sequence = n]
    BY DEF Captured
  <2> HIDE DEF x
  <2> QED  BY <1>1, <1>2, <2>2, <2>3
<1> HIDE DEF x, Sized, sized, filled
<1>7. /\ Frames' = Frames /\ at' \in [Frames -> Place]
      /\ \A g \in Frames : at'[g] = IF g = f THEN "preprocess" ELSE at[g]
      /\ \A g \in Frames : pool'.frame[g] = IF g = f THEN x ELSE Sized(g)
      /\ pool'.frame \in [Frames -> Frame]
  <2>1. "preprocess" \in Place
    BY DEF Place
  <2>2. at' \in [Frames -> Place] /\ DOMAIN at' = DOMAIN at
    BY <1>t, <1>2, <2>1
  <2>3. \A g \in Frames : at'[g] = IF g = f THEN "preprocess" ELSE at[g]
    BY <1>t, <1>2
  <2>4. Frames' = Frames
    BY <2>2 DEF Frames
  <2> QED  BY <1>3, <1>5, <1>6, <2>2, <2>3, <2>4
<1>8. /\ cap' \in [pc : {"loop", "acquire", "asleep", "read", "inline", "end"},
                   frame : Frames \cup {0}, sequence : Nat]
      /\ cap'.pc # "read" /\ cap'.sequence = n + 1
  <2> DEFINE l == IF cfg.sequential THEN "inline" ELSE "loop"
  <2>1. l \in {"loop", "acquire", "asleep", "read", "inline", "end"} /\ l # "read"
    OBVIOUS
  <2>2. n + 1 \in Nat /\ cap' = [cap EXCEPT !.pc = l, !.sequence = n + 1]
    BY <1>t, <1>2
  <2> HIDE DEF l
  <2> QED  BY <1>t, <2>1, <2>2 DEF Types
<1>9. Types'
  BY <1>t, <1>2, <1>6, <1>7, <1>8 DEF Types
<1>10. FreeList'
  BY <1>t, <1>1, <1>6, <1>7 DEF IInv, FreeList
<1>11. InHand'
  BY <1>1, <1>7, <1>8 DEF IInv, InHand
<1>12. Contents'
  <2>1. \A g \in Frames : Carries(pool'.frame[g], at'[g], cfg'.tracking)
    BY <1>2, <1>3, <1>5, <1>7
  <2> QED  BY <1>7, <2>1 DEF Contents
<1>13. FirstRead'
  BY <1>t, <1>8 DEF FirstRead
<1>14. Room'
  <2> SUFFICES ASSUME NEW g \in Frames PROVE pool'.frame[g].capacity >= ImageBytes
    BY <1>7 DEF Room
  <2>1. CASE g = f
    BY <1>3, <1>7, <2>1
  <2>2. CASE g # f /\ n = 0
    <3>1. ~cfg.sequential
      BY <1>t, <1>1, <2>2 DEF Types
    <3>2. at[g] = "pool"
      BY <1>1, <2>2 DEF IInv, InHand, FirstRead
    <3>3. g \in Range(pool.free)
      BY <1>t, <3>2 DEF IInv, FreeList, Range
    <3> QED  BY <1>5, <1>7, <2>2, <3>1, <3>3
  <2>3. CASE g # f /\ n # 0
    <3>1. pool.frame[g].capacity >= ImageBytes /\ pool.frame[g].capacity \in Nat
      BY <1>t, <2>3 DEF IInv, Room, Frame
    <3>2. Sized(g).capacity \in Nat
      BY <1>5 DEF Frame
    <3>3. Sized(g).capacity >= pool.frame[g].capacity
      BY <1>5
    <3> QED  BY <1>t, <1>7, <2>3, <3>1, <3>2, <3>3
  <2> QED  BY <2>1, <2>2, <2>3
<1> QED  BY <1>9, <1>10, <1>11, <1>12, <1>13, <1>14 DEF IInv

-----------------------------------------------------------------------------
(* The theorems.                                                             *)

\* A new run satisfies the invariant.
LEMMA InvInit == Init => IInv
<1> SUFFICES ASSUME Init PROVE IInv
  OBVIOUS
<1> DEFINE k == IF cfg.sequential THEN 1 ELSE PoolSize
<1>1. /\ cfg \in [sequential : BOOLEAN, tracking : BOOLEAN, max_frames : Nat \ {0}]
      /\ k \in Nat /\ k >= 1 /\ cfg.tracking \in BOOLEAN
  BY CaptureAssumption, FramePoolAssumption DEF Init
<1>2. pool = [free |-> [i \in 1..k |-> i], frame |-> [f \in 1..k |-> NewFrame]]
  BY DEF Init, NewRun, NewPool
<1> HIDE DEF k
<1>3. /\ pool.free = [i \in 1..k |-> i] /\ pool.frame = [f \in 1..k |-> NewFrame]
      /\ at = [f \in 1..k |-> "pool"] /\ Frames = 1..k
  BY <1>2 DEF Init, Frames
<1>4. /\ pool.free \in Seq(1..k) /\ Len(pool.free) = k
      /\ \A i \in 1..k : pool.free[i] = i
  BY <1>1, <1>3
<1>5. /\ NewFrame \in Frame /\ NewFrame.tracks = None
      /\ \A s \in StageId : NewFrame.service_time[s] = None
  BY DEF NewFrame, Frame, None
<1>6. Carries(NewFrame, "pool", cfg.tracking)
  <2>1. Timed("pool") = {}
    BY DEF Timed
  <2> HIDE DEF NewFrame
  <2> QED  BY <1>5, <2>1 DEF Carries
<1>7. cap = [pc |-> "loop", frame |-> 0, sequence |-> 0]
  BY DEF Init
<1>8. Types
  <2>1. cfg.sequential => Frames = {1}
    BY <1>3 DEF k
  <2>2. at \in [Frames -> Place]
    BY <1>3 DEF Place
  <2>3. pool.frame \in [Frames -> Frame] /\ pool.free \in Seq(Frames)
    BY <1>3, <1>4, <1>5
  <2>4. pool \in [free : Seq(Frames), frame : [Frames -> Frame]]
    BY <1>2, <2>3
  <2> QED  BY <1>1, <1>7, <2>1, <2>2, <2>4 DEF Types
<1>9. FreeList /\ InHand
  BY <1>3, <1>4, <1>7 DEF FreeList, InHand
<1>10. Contents
  BY <1>3, <1>6 DEF Contents
<1>11. FirstRead /\ Room
  BY <1>3, <1>7 DEF FirstRead, Room
<1> QED  BY <1>8, <1>9, <1>10, <1>11 DEF IInv

\* Every step keeps the invariant.
LEMMA InvNext == IInv /\ [Next]_vars => IInv'
<1> SUFFICES ASSUME IInv, [Next]_vars PROVE IInv'
  OBVIOUS
<1>t. /\ Types /\ pool.frame \in [Frames -> Frame] /\ cfg.tracking \in BOOLEAN
      /\ at \in [Frames -> Place]
  BY TypeFacts DEF IInv
<1>1. CASE UNCHANGED vars
  BY <1>1, RestStep DEF vars
<1>2. CASE CaptureLoop \/ notify_one \/ SpuriousWakeUp \/ request_stop \/ InlineDone
  BY <1>2, RestStep DEF CaptureLoop, notify_one, SpuriousWakeUp, request_stop,
                        InlineDone, Goto
<1>3. CASE acquire
  <2>1. CASE pool.free # <<>>
    BY <1>3, <2>1, AcquireStep DEF acquire
  <2>2. CASE pool.free = <<>>
    BY <1>3, <2>2, RestStep DEF acquire, Goto
  <2> QED  BY <2>1, <2>2
<1>4. CASE CaptureRead
  BY <1>4, ReadStep
<1>5. CASE CaptureEndOfSource
  <2>1. cap.frame \in Frames /\ at[cap.frame] = "capture"
    BY <1>5 DEF CaptureEndOfSource, IInv, InHand
  <2> QED  BY <1>5, <1>t, <2>1, ReleaseStep DEF CaptureEndOfSource, Goto
<1>6. ASSUME NEW f \in Frames, Stage(f) PROVE IInv'
  BY <1>6, WorkStep
<1>7. ASSUME NEW f \in Frames, deliver(f) PROVE IInv'
  <2> DEFINE x == timed(pool.frame[f], {"kSink"})
             p == [pool EXCEPT !.frame[f] = x]
  <2>1. x \in Frame /\ x.capacity = pool.frame[f].capacity
    <3> DEFINE times == [s \in StageId |-> IF s \in {"kSink"} THEN pool.frame[f].sequence + 1
                                          ELSE pool.frame[f].service_time[s]]
    <3>0. pool.frame[f] \in Frame
      BY <1>t
    <3>1. times \in [StageId -> Nat]
      BY <3>0 DEF Frame
    <3>2. x = [pool.frame[f] EXCEPT !.service_time = times]
      BY DEF timed
    <3> HIDE DEF times, x
    <3> QED  BY <3>0, <3>1, <3>2 DEF Frame
  <2> HIDE DEF x
  <2>2. /\ p.free = pool.free /\ p.frame = [pool.frame EXCEPT ![f] = x]
    BY <1>t DEF Types
  <2>3. /\ p.frame \in [Frames -> Frame]
        /\ \A g \in Frames : g # f => p.frame[g] = pool.frame[g]
        /\ p.frame[f].capacity = pool.frame[f].capacity
    BY <1>t, <2>1, <2>2
  <2>4. at[f] = "sink" /\ Release(p, f) /\ cfg' = cfg /\ cap' = cap
    BY <1>7 DEF deliver, x
  <2> HIDE DEF p
  <2> QED  BY <2>2, <2>3, <2>4, ReleaseStep
<1>8. ASSUME NEW f \in Frames, Drop(f) PROVE IInv'
  <2>1. at[f] \in {"preprocess", "inference", "postprocess", "sink"}
    BY <1>8 DEF Drop, NextStage
  <2> QED  BY <1>8, <1>t, <2>1, ReleaseStep DEF Drop
<1> QED
  BY <1>1, <1>2, <1>3, <1>4, <1>5, <1>6, <1>7, <1>8 DEF Next, StageStep

\* The inductive invariant of a run's frames.
THEOREM Invariance == Spec => []IInv
BY InvInit, InvNext, PTL DEF Spec

\* What the sinks see of a frame belongs to its own capture, and no image buffer
\* grows once the first frame was read.
THEOREM FramesFreshHolds == Spec => []FramesFresh
<1>1. IInv => FramesFresh
  <2> SUFFICES ASSUME IInv PROVE FramesFresh
    OBVIOUS
  <2>1. Timed("sink") = StageId \ {"kSink"} /\ "kSink" \in StageId
    BY DEF Timed, StageId
  <2> QED  BY <2>1 DEF IInv, Contents, Carries, Room, FramesFresh
<1> QED  BY <1>1, Invariance, PTL
=============================================================================
