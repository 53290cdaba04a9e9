--------------------------- MODULE Pipeline_proofs ---------------------------
(***************************************************************************)
(* Proofs about one Pipeline::run, for every policy, capacity, pool size   *)
(* and number of frames, and for every choice of the threads that throw:   *)
(* no frame of the pool is lost or returned twice, capture finds a frame   *)
(* in a pool of derived size, the stages keep the capture order, nothing   *)
(* but a checked frame is delivered after an abort, and the report adds up.*)
(***************************************************************************)
EXTENDS Pipeline, FiniteSetTheorems, SequenceTheorems, TLAPS

Pushing == {"push", "publish", "insert", "blocked"}
Leaving == {"abort", "flag", "stop", "close_all", "close", "done"}

\* The locations of thread t in its loop, and those where it has a frame with
\* a number in its hands.
LocationsOf(t) ==
    CASE t = Capture -> {"loop", "acquire", "read", "count", "drop", "join",
                         "report"} \cup Pushing \cup Leaving
      [] t = Sink -> {"pop", "check", "body", "count"} \cup Leaving
      [] OTHER -> {"pop", "check", "body", "drop"} \cup Pushing \cup Leaving
Working(t) ==
    {"check", "body"} \cup Pushing \cup (IF t = Sink THEN {"count"} ELSE {})

\* Where each thread is and what it holds there.
Here(t, location, frame) ==
    /\ location \in LocationsOf(t)
    /\ location = "read" => frame = Blank
    /\ location \in Working(t) => frame \in Numbers
    /\ location # "read" /\ location \notin Working(t) => frame = None
HandWhere == \A t \in Threads : Here(t, pc[t], hand[t])

\* Capture reads only while there are numbers left, and abort() stops at the
\* fourth hand-off.
Limits ==
    /\ pc[Capture] \in {"acquire", "read"} => sequence < MaxFrames
    /\ \A t \in Threads :
          next_close[t] <= 4 \/ pc[t] \in {"close", "join", "report", "done"}

\* A hand-off holds what it has room for.
Room(h) == IF PolicyOf(h) = "latest" THEN 1 ELSE CapacityOf(h)
QueueBounds == \A h \in HandOffs : Len(items[h]) <= Room(h)

Sum(f) == f[0] + f[1] + f[2] + f[3] + f[4]
Queued == Len(items[1]) + Len(items[2]) + Len(items[3]) + Len(items[4])

\* Frames in the threads' hands.
Held == [t \in Threads |-> IF hand[t] # None THEN 1 ELSE 0]
Balance == free + Sum(Held) + Queued = pool_size

\* After an abort the sink thread delivers at most what it had in its hands.
LateOnce ==
    late \in {0, 1} /\ (late = 1 => aborted /\ pc[Sink] # "body")

\* No thread has failed so far.
Clean == ~aborted /\ \A t \in Threads : pc[t] \notin {"abort", "flag"}

\* What thread t adds to the frames that were captured and are neither
\* delivered nor counted as dropped.  Capture counts after its push: a frame
\* that is already queued is not yet captured at "count".
WeightOf(t, location, frame, last) ==
    IF t = Capture
    THEN CASE location = "count" /\ last = "accepted" -> -1
           [] location = "drop" -> 1
           [] OTHER -> 0
    ELSE IF frame # None \/ location = "drop" THEN 1 ELSE 0
Weight == [t \in Threads |-> WeightOf(t, pc[t], hand[t], result[t])]

Account ==
    Clean /\ pc[Capture] # "done" =>
        captured = dropped + completed + Queued + Sum(Weight)

\* How a run without failures closes its hand-offs, from the source to the
\* sink, and what can be left behind in ingress.
Closing ==
    /\ spc = "callback" => stop
    /\ \A t \in Threads : pc[t] \in {"stop", "close_all"} => aborted
    /\ Clean =>
        /\ closed[1] /\ ~stop => pc[Capture] \in {"join", "report", "done"}
        /\ \A h \in 2..4 : closed[h] => pc[h - 1] = "done"
        /\ \A t \in Stages : pc[t] \in {"close", "done"} => closed[t]
        /\ \A h \in 2..4 : pc[h] \in {"close", "done"} => items[h] = <<>>
        /\ pc[1] \in {"close", "done"} =>
              /\ Len(items[1]) <= 1
              /\ pc[Capture] = "insert" => items[1] = <<>>
              /\ ~stop => items[1] = <<>>

\* The stage threads are joined before the report.
Joined ==
    pc[Capture] \in {"report", "done"} => \A t \in Stages : pc[t] = "done"

\* The frames are in capture order, place by place.
Counting == pc[Sink] = "count"
OrderDelivered ==
    /\ \A i, j \in 1..Len(delivered) : i < j => delivered[i] < delivered[j]
    /\ \A i \in 1..Len(delivered) : delivered[i] < sequence
    /\ \A i \in 1..Len(delivered), t \in Threads :
          hand[t] \in Numbers /\ ~(t = Sink /\ Counting) => delivered[i] < hand[t]
    /\ \A i \in 1..Len(delivered) :
          Counting => delivered[i] <= hand[Sink]
    /\ \A i \in 1..Len(delivered), h \in HandOffs :
          \A j \in 1..Len(items[h]) : delivered[i] < items[h][j]
OrderItems ==
    /\ \A h \in HandOffs : \A i, j \in 1..Len(items[h]) :
          i < j => items[h][i] < items[h][j]
    /\ \A h, k \in HandOffs : h < k =>
          \A i \in 1..Len(items[h]), j \in 1..Len(items[k]) :
              items[k][j] < items[h][i]
    /\ \A h \in HandOffs : \A i \in 1..Len(items[h]) : items[h][i] < sequence
OrderHands ==
    /\ \A t, u \in Threads :
          t < u /\ hand[t] \in Numbers /\ hand[u] \in Numbers => hand[u] < hand[t]
    /\ \A t \in Threads : hand[t] \in Numbers => hand[t] < sequence
OrderBetween ==
    \A t \in Threads, h \in HandOffs : hand[t] \in Numbers =>
        \A i \in 1..Len(items[h]) :
            IF h <= t THEN hand[t] < items[h][i] ELSE items[h][i] < hand[t]

Ordered == OrderDelivered /\ OrderItems /\ OrderHands /\ OrderBetween

IInv == /\ TypeOK /\ HandWhere /\ Limits /\ QueueBounds /\ Balance
        /\ LateOnce /\ Account /\ Closing /\ Joined /\ Ordered

-----------------------------------------------------------------------------
(* The steps of a run, one disjunct per action.                              *)

CaptureAction ==
    \/ CaptureLoop \/ CaptureAcquire \/ CaptureRead \/ CaptureEndOfSource
    \/ CaptureCount \/ Join \/ Return
PushAction(t) ==
    \/ PushCheckClosed(t) \/ PublishCheckClosed(t) \/ PushInsert(t)
    \/ PushRefuse(t) \/ PushWake(t) \/ CountDrop(t)
StageAction(t) == StagePop(t) \/ StageEnd(t) \/ StageCheckAborted(t)
LeaveAction(t) == CloseOutput(t) \/ Throw(t) \/ AbortStep(t)

\* The steps of Next, grouped by what they may do to frames and counters.
LEMMA Actions ==
  ASSUME Next
  PROVE  \/ CaptureAction
         \/ \E t \in 0..3 : PushAction(t)
         \/ \E t \in Stages : StageAction(t)
         \/ \E t \in 1..3 : StageBody(t)
         \/ SinkConsume \/ SinkCount
         \/ \E t \in Threads : LeaveAction(t)
         \/ RequestStop \/ StopCallback
<1>1. CASE CaptureStep
  BY <1>1 DEF CaptureStep, PushStep, CaptureAction, PushAction, LeaveAction,
              Capture, Threads
<1>2. ASSUME NEW t \in Stages, StageStep(t)
      PROVE  \/ \E u \in 0..3 : PushAction(u)
             \/ StageAction(t)
             \/ \E u \in 1..3 : StageBody(u)
             \/ SinkConsume \/ SinkCount
             \/ \E u \in Threads : LeaveAction(u)
  <2>1. t \in Threads /\ (HasOutput(t) => t \in 1..3 /\ t \in 0..3)
    BY DEF Stages, Threads, HasOutput, Sink
  <2>2. CASE HasOutput(t) /\ PushStep(t)
    BY <2>1, <2>2 DEF PushStep, PushAction
  <2>3. CASE StageBody(t)
    BY <2>1, <2>3 DEF StageBody
  <2>4. CASE StagePop(t) \/ StageEnd(t) \/ StageCheckAborted(t)
    BY <2>4 DEF StageAction
  <2>5. CASE SinkConsume \/ SinkCount
    BY <2>5
  <2>6. CASE AbortStep(t) \/ CloseOutput(t)
    BY <2>1, <2>6 DEF LeaveAction
  <2> QED  BY <1>2, <2>2, <2>3, <2>4, <2>5, <2>6 DEF StageStep
<1>3. CASE \E t \in Threads : Throw(t)
  BY <1>3 DEF LeaveAction
<1> QED  BY <1>1, <1>2, <1>3 DEF Next, CaptureAction

ConstantFacts ==
    /\ IngressCapacity \in Nat /\ IngressCapacity > 0
    /\ StageCapacity \in Nat /\ StageCapacity > 0
    /\ MaxFrames \in Nat /\ MaxFrames > 0
    /\ PoolFrames \in Nat

\* The assumptions on the constants, as the proofs use them.
LEMMA Constants == ConstantFacts
BY PipelineAssumption DEF ConstantFacts

\* Changing one summand changes the sum by as much.
LEMMA SumOne ==
  ASSUME NEW f, NEW g, NEW t \in Threads,
         \A u \in Threads : f[u] \in Int /\ g[u] \in Int,
         \A u \in Threads : u # t => g[u] = f[u]
  PROVE  Sum(g) = Sum(f) - f[t] + g[t] /\ Sum(f) \in Int
<1>1. /\ 0 \in Threads /\ 1 \in Threads /\ 2 \in Threads
      /\ 3 \in Threads /\ 4 \in Threads
      /\ t = 0 \/ t = 1 \/ t = 2 \/ t = 3 \/ t = 4
  BY DEF Threads
<1>2. CASE t = 0  BY <1>1, <1>2 DEF Sum
<1>3. CASE t = 1  BY <1>1, <1>3 DEF Sum
<1>4. CASE t = 2  BY <1>1, <1>4 DEF Sum
<1>5. CASE t = 3  BY <1>1, <1>5 DEF Sum
<1>6. CASE t = 4  BY <1>1, <1>6 DEF Sum
<1> QED  BY <1>1, <1>2, <1>3, <1>4, <1>5, <1>6

\* The same for the frames in the hand-offs.
LEMMA QueuedOne ==
  ASSUME NEW h \in HandOffs, NEW q \in Seq(Numbers),
         items \in [HandOffs -> Seq(Numbers)],
         items' = [items EXCEPT ![h] = q]
  PROVE  Queued' = Queued - Len(items[h]) + Len(q) /\ Queued \in Nat
<1>1. /\ Len(items[1]) \in Nat /\ Len(items[2]) \in Nat
      /\ Len(items[3]) \in Nat /\ Len(items[4]) \in Nat /\ Len(q) \in Nat
  BY DEF HandOffs
<1>2. \A k \in HandOffs : items'[k] = IF k = h THEN q ELSE items[k]
  OBVIOUS
<1>3. h = 1 \/ h = 2 \/ h = 3 \/ h = 4
  BY DEF HandOffs
<1>4. 1 \in HandOffs /\ 2 \in HandOffs /\ 3 \in HandOffs /\ 4 \in HandOffs
  BY DEF HandOffs
<1>5. CASE h = 1  BY <1>1, <1>2, <1>4, <1>5 DEF Queued
<1>6. CASE h = 2  BY <1>1, <1>2, <1>4, <1>6 DEF Queued
<1>7. CASE h = 3  BY <1>1, <1>2, <1>4, <1>7 DEF Queued
<1>8. CASE h = 4  BY <1>1, <1>2, <1>4, <1>8 DEF Queued
<1> QED  BY <1>3, <1>5, <1>6, <1>7, <1>8

-----------------------------------------------------------------------------
(* Where the threads are and what they hold.                                 *)

\* Changing the place and the frame of one thread keeps HandWhere.
LEMMA HandOne ==
  ASSUME HandWhere, pc \in [Threads -> Locations],
         hand \in [Threads -> Numbers \cup {None, Blank}],
         NEW t \in Threads, NEW l, NEW x,
         Goto(t, l), hand' = [hand EXCEPT ![t] = x], Here(t, l, x)
  PROVE  HandWhere'
<1>1. \A u \in Threads : /\ pc'[u] = IF u = t THEN l ELSE pc[u]
                         /\ hand'[u] = IF u = t THEN x ELSE hand[u]
  BY DEF Goto
<1> QED  BY <1>1 DEF HandWhere

\* The same for a step on which the thread keeps its frame.
LEMMA HandKept ==
  ASSUME HandWhere, pc \in [Threads -> Locations],
         hand \in [Threads -> Numbers \cup {None, Blank}],
         NEW t \in Threads, NEW l,
         Goto(t, l), UNCHANGED hand, Here(t, l, hand[t])
  PROVE  HandWhere'
<1>1. \A u \in Threads : /\ pc'[u] = IF u = t THEN l ELSE pc[u]
                         /\ hand'[u] = hand[u]
  BY DEF Goto
<1> QED  BY <1>1 DEF HandWhere

\* What a thread in Here knows of its frame, location by location.
LEMMA HereFacts ==
  ASSUME NEW t \in Threads, NEW x
  PROVE  /\ \A l \in Pushing \cup {"check", "body"} :
              Here(t, l, x) => x \in Numbers
         /\ Here(Sink, "count", x) => x \in Numbers
         /\ Here(t, "read", x) => t = Capture /\ x = Blank
         /\ \A l \in Leaving \cup {"loop", "acquire", "drop", "join", "report",
                                   "pop"} : Here(t, l, x) => x = None
         /\ Here(Capture, "count", x) => x = None
BY DEF Here, LocationsOf, Working, Pushing, Leaving, Capture, Sink

\* Where a thread may be while it holds a frame, location by location.
LEMMA Arrives ==
  ASSUME NEW t \in Threads
  PROVE  /\ \A x \in Numbers, l \in Pushing :
              t # Sink => Here(t, l, x)
         /\ \A x \in Numbers, l \in {"check", "body"} :
              t # Capture => Here(t, l, x)
         /\ \A x \in Numbers : Here(Sink, "count", x)
         /\ Here(Capture, "read", Blank)
         /\ \A l \in Leaving : Here(t, l, None)
         /\ \A l \in {"loop", "acquire", "count", "drop", "join", "report"} :
              Here(Capture, l, None)
         /\ t # Capture => Here(t, "pop", None)
         /\ t # Sink => Here(t, "drop", None)
BY DEF Here, LocationsOf, Working, Pushing, Leaving, Capture, Sink

\* A thread holds a frame exactly where the code has one in a local variable.
LEMMA HandStep == TypeOK /\ HandWhere /\ Limits /\ [Next]_vars => HandWhere'
<1> SUFFICES ASSUME TypeOK, HandWhere, Limits, [Next]_vars
             PROVE  HandWhere'
  OBVIOUS
<1>t. /\ pc \in [Threads -> Locations]
      /\ hand \in [Threads -> Numbers \cup {None, Blank}]
      /\ items \in [HandOffs -> Seq(Numbers)]
      /\ sequence \in 0..MaxFrames /\ MaxFrames \in Nat
  BY Constants DEF TypeOK, ConstantFacts
<1>w. \A t \in Threads : Here(t, pc[t], hand[t])
  BY DEF HandWhere
<1>c. Capture \in Threads /\ Sink \in Threads /\ Capture # Sink
  BY DEF Threads, Capture, Sink
<1>1. ASSUME CaptureAction PROVE HandWhere'
  <2>1. CASE CaptureLoop
    <3>1. hand[Capture] = None
      BY <1>c, <1>w, <2>1, HereFacts DEF CaptureLoop
    <3> QED  BY <1>t, <1>c, <2>1, <3>1, HandKept, Arrives DEF CaptureLoop, Leaving
  <2>2. CASE CaptureAcquire
    <3>1. hand[Capture] = None
      BY <1>c, <1>w, <2>2, HereFacts DEF CaptureAcquire
    <3> QED  BY <1>t, <1>c, <2>2, <3>1, HandOne, HandKept, Arrives
             DEF CaptureAcquire, Leaving
  <2>3. CASE CaptureRead
    <3>1. sequence \in Numbers
      BY <1>t, <2>3 DEF CaptureRead, Limits, Numbers
    <3> QED  BY <1>t, <1>c, <2>3, <3>1, HandOne, Arrives DEF CaptureRead, Pushing
  <2>4. CASE CaptureEndOfSource
    BY <1>t, <1>c, <2>4, HandOne, Arrives DEF CaptureEndOfSource, Release, Leaving
  <2>5. CASE CaptureCount
    <3>1. hand[Capture] = None
      BY <1>c, <1>w, <2>5, HereFacts DEF CaptureCount
    <3> QED  BY <1>t, <1>c, <2>5, <3>1, HandKept, Arrives DEF CaptureCount
  <2>6. CASE Join
    <3>1. hand[Capture] = None
      BY <1>c, <1>w, <2>6, HereFacts DEF Join
    <3> QED  BY <1>t, <1>c, <2>6, <3>1, HandKept, Arrives DEF Join
  <2>7. CASE Return
    <3>1. hand[Capture] = None
      BY <1>c, <1>w, <2>7, HereFacts DEF Return
    <3> QED  BY <1>t, <1>c, <2>7, <3>1, HandKept, Arrives DEF Return, Leaving
  <2> QED  BY <1>1, <2>1, <2>2, <2>3, <2>4, <2>5, <2>6, <2>7 DEF CaptureAction
<1>2. ASSUME NEW t \in 0..3, PushAction(t) PROVE HandWhere'
  <2>0. t \in Threads /\ t # Sink
    BY DEF Threads, Sink
  <2>r. \A r \in HandOffResult : Here(t, Returned(t, r), None)
    BY <2>0, Arrives DEF Returned, Capture, is_drop, HandOffResult, Leaving
  <2>1. CASE PushCheckClosed(t)
    <3>1. CASE closed[t + 1]
      BY <1>t, <2>0, <2>r, <2>1, <3>1, HandOne
      DEF PushCheckClosed, Release, HandOffResult
    <3>2. CASE ~closed[t + 1]
      <4>1. hand[t] \in Numbers
        BY <1>w, <2>0, <2>1, HereFacts DEF PushCheckClosed, Pushing
      <4> QED  BY <1>t, <2>0, <2>1, <3>2, <4>1, HandKept, Arrives
               DEF PushCheckClosed, Pushing
    <3> QED  BY <3>1, <3>2
  <2>2. CASE PublishCheckClosed(t)
    <3>1. CASE closed[t + 1]
      BY <1>t, <2>0, <2>r, <2>2, <3>1, HandOne
      DEF PublishCheckClosed, Release, HandOffResult
    <3>2. CASE ~closed[t + 1]
      <4>1. hand[t] \in Numbers
        BY <1>w, <2>0, <2>2, HereFacts DEF PublishCheckClosed, Pushing
      <4> QED  BY <1>t, <2>0, <2>2, <3>2, <4>1, HandKept, Arrives
               DEF PublishCheckClosed, Pushing
    <3> QED  BY <3>1, <3>2
  <2>3. CASE PushInsert(t)
    <3>1. InsertResult(PolicyOf(t + 1), items[t + 1]) \in HandOffResult
      BY DEF InsertResult, HandOffResult
    <3> QED  BY <1>t, <2>0, <2>r, <2>3, <3>1, HandOne DEF PushInsert
  <2>4. CASE PushRefuse(t)
    <3>1. CASE PolicyOf(t + 1) = "drop_newest"
      BY <1>t, <2>0, <2>r, <2>4, <3>1, HandOne
      DEF PushRefuse, Release, HandOffResult
    <3>2. CASE PolicyOf(t + 1) # "drop_newest"
      <4>1. hand[t] \in Numbers
        BY <1>w, <2>0, <2>4, HereFacts DEF PushRefuse, Pushing
      <4> QED  BY <1>t, <2>0, <2>4, <3>2, <4>1, HandKept, Arrives
               DEF PushRefuse, Pushing
    <3> QED  BY <3>1, <3>2
  <2>5. CASE PushWake(t)
    <3>1. hand[t] \in Numbers
      BY <1>w, <2>0, <2>5, HereFacts DEF PushWake, Pushing
    <3> QED  BY <1>t, <2>0, <2>5, <3>1, HandKept, Arrives DEF PushWake, Pushing
  <2>6. CASE CountDrop(t)
    <3>1. hand[t] = None
      BY <1>w, <2>0, <2>6, HereFacts DEF CountDrop
    <3> QED  BY <1>t, <2>0, <2>6, <3>1, HandKept, Arrives DEF CountDrop
  <2> QED  BY <1>2, <2>1, <2>2, <2>3, <2>4, <2>5, <2>6 DEF PushAction
<1>3. ASSUME NEW t \in Stages, StageAction(t) PROVE HandWhere'
  <2>0. t \in Threads /\ t # Capture /\ t \in HandOffs
    BY DEF Threads, Stages, Capture, HandOffs
  <2>1. CASE StagePop(t)
    <3>1. Head(items[t]) \in Numbers
      BY <1>t, <2>0, <2>1 DEF StagePop
    <3> QED  BY <1>t, <2>0, <2>1, <3>1, HandOne, Arrives DEF StagePop
  <2>2. CASE StageEnd(t)
    <3>1. hand[t] = None
      BY <1>w, <2>0, <2>2, HereFacts DEF StageEnd
    <3> QED  BY <1>t, <2>0, <2>2, <3>1, HandKept, Arrives DEF StageEnd, Leaving
  <2>3. CASE StageCheckAborted(t)
    <3>1. hand[t] \in Numbers
      BY <1>w, <2>0, <2>3, HereFacts DEF StageCheckAborted
    <3> QED  BY <1>t, <2>0, <2>3, <3>1, HandOne, HandKept, Arrives
             DEF StageCheckAborted, Release
  <2> QED  BY <1>3, <2>1, <2>2, <2>3 DEF StageAction
<1>4. ASSUME NEW t \in 1..3, StageBody(t) PROVE HandWhere'
  <2>0. t \in Threads /\ t # Sink
    BY DEF Threads, Sink
  <2>1. hand[t] \in Numbers
    BY <1>w, <1>4, <2>0, HereFacts DEF StageBody
  <2> QED  BY <1>t, <1>4, <2>0, <2>1, HandKept, Arrives DEF StageBody, Pushing
<1>5. CASE SinkConsume
  <2>1. hand[Sink] \in Numbers
    BY <1>w, <1>c, <1>5, HereFacts DEF SinkConsume
  <2> QED  BY <1>t, <1>c, <1>5, <2>1, HandKept, Arrives DEF SinkConsume
<1>6. CASE SinkCount
  BY <1>t, <1>c, <1>6, HandOne, Arrives DEF SinkCount, Release
<1>7. ASSUME NEW t \in Threads, LeaveAction(t) PROVE HandWhere'
  <2>1. CASE CloseOutput(t)
    <3>1. hand[t] = None
      BY <1>w, <2>1, HereFacts DEF CloseOutput, Leaving
    <3> QED  BY <1>t, <2>1, <3>1, HandKept, Arrives DEF CloseOutput, Leaving
  <2>2. CASE Throw(t)
    BY <1>t, <2>2, HandOne, Arrives DEF Throw, Release, Leaving
  <2>3. CASE AbortStep(t)
    <3>1. hand[t] = None
      BY <1>w, <2>3, HereFacts DEF AbortStep, AbortNoteError, AbortFlag,
                                   AbortStop, AbortClose, Leaving
    <3>2. \E l \in Leaving : Goto(t, l) /\ UNCHANGED hand
      BY <2>3 DEF AbortStep, AbortNoteError, AbortFlag, AbortStop, AbortClose,
                  Leaving
    <3> QED  BY <1>t, <3>1, <3>2, HandKept, Arrives
  <2> QED  BY <1>7, <2>1, <2>2, <2>3 DEF LeaveAction
<1>8. CASE RequestStop \/ StopCallback \/ UNCHANGED vars
  BY <1>8 DEF RequestStop, StopCallback, vars, HandWhere
<1> QED  BY <1>1, <1>2, <1>3, <1>4, <1>5, <1>6, <1>7, <1>8, Actions

-----------------------------------------------------------------------------
(* How frames move: the steps that touch a frame or a hand-off.              *)

\* Thread t gives its frame up.
Drops(t) ==
    /\ hand[t] # None
    /\ Release(t)
    /\ UNCHANGED <<items, sequence, delivered>>
    /\ Counting' <=> Counting /\ t # Sink

\* Capture gets a frame from the pool.
Acquires ==
    /\ free > 0
    /\ free' = free - 1
    /\ hand[Capture] = None
    /\ hand' = [hand EXCEPT ![Capture] = Blank]
    /\ UNCHANGED <<items, sequence, delivered>>
    /\ Counting' <=> Counting

\* No frame moves.
Rests ==
    /\ UNCHANGED <<items, hand, free, sequence, delivered>>
    /\ Counting' <=> Counting

\* A frame number is neither "no frame" nor a frame that is not read yet.
LEMMA NumbersAreFrames == None \notin Numbers /\ Blank \notin Numbers /\ Blank # None
BY Constants DEF ConstantFacts, Numbers, None, Blank

\* A thread other than the sink does not decide whether the sink counts.
LEMMA OtherThread ==
  ASSUME pc \in [Threads -> Locations], NEW t \in Threads, NEW l, Goto(t, l),
         t # Sink \/ (l # "count" /\ pc[Sink] # "count")
  PROVE  Counting' <=> Counting
BY DEF Goto, Counting, Sink, Threads

\* Every step is one of the kinds of moves of frames named above.
LEMMA Moves ==
  ASSUME TypeOK, HandWhere, [Next]_vars
  PROVE  /\ policy' = policy
         /\ \/ \E t \in 0..3 : PushInsert(t)
            \/ \E t \in Stages : StagePop(t)
            \/ \E t \in Threads : Drops(t)
            \/ SinkConsume \/ CaptureRead \/ Acquires \/ Return \/ Rests
<1>t. pc \in [Threads -> Locations]
  BY DEF TypeOK
<1>w. \A t \in Threads : Here(t, pc[t], hand[t])
  BY DEF HandWhere
<1>c. Capture \in Threads /\ Sink \in Threads /\ Capture # Sink
  BY DEF Threads, Capture, Sink
<1> USE NumbersAreFrames
<1>1. ASSUME CaptureAction
      PROVE  /\ policy' = policy
             /\ Drops(Capture) \/ CaptureRead \/ Acquires \/ Return \/ Rests
  <2>1. CASE CaptureLoop \/ CaptureCount \/ Join
    <3>1. Counting' <=> Counting
      BY <1>t, <1>c, <2>1, OtherThread DEF CaptureLoop, CaptureCount, Join
    <3> QED  BY <2>1, <3>1 DEF CaptureLoop, CaptureCount, Join, Rests
  <2>2. CASE CaptureAcquire
    <3>1. Counting' <=> Counting
      BY <1>t, <1>c, <2>2, OtherThread DEF CaptureAcquire
    <3>2. hand[Capture] = None
      BY <1>c, <1>w, <2>2, HereFacts DEF CaptureAcquire
    <3> QED  BY <2>2, <3>1, <3>2 DEF CaptureAcquire, Acquires, Rests
  <2>3. CASE CaptureRead
    BY <2>3 DEF CaptureRead
  <2>4. CASE CaptureEndOfSource
    <3>1. Counting' <=> Counting
      BY <1>t, <1>c, <2>4, OtherThread DEF CaptureEndOfSource
    <3>2. hand[Capture] = Blank
      BY <1>c, <1>w, <2>4, HereFacts DEF CaptureEndOfSource
    <3> QED  BY <1>c, <2>4, <3>1, <3>2 DEF CaptureEndOfSource, Drops, Counting
  <2>5. CASE Return
    BY <2>5 DEF Return
  <2> QED  BY <1>1, <2>1, <2>2, <2>3, <2>4, <2>5 DEF CaptureAction
<1>2. ASSUME NEW t \in 0..3, PushAction(t)
      PROVE  policy' = policy /\ (PushInsert(t) \/ Drops(t) \/ Rests)
  <2>0. t \in Threads /\ t # Sink
    BY DEF Threads, Sink
  <2>1. Counting' <=> Counting
    BY <1>t, <1>2, <2>0, OtherThread
    DEF PushAction, PushCheckClosed, PublishCheckClosed, PushInsert, PushRefuse,
        PushWake, CountDrop
  <2>2. CASE PushCheckClosed(t)
    <3>1. hand[t] \in Numbers
      BY <1>w, <2>0, <2>2, HereFacts DEF PushCheckClosed, Pushing
    <3> QED  BY <2>0, <2>1, <2>2, <3>1 DEF PushCheckClosed, Drops, Rests, Counting
  <2>3. CASE PublishCheckClosed(t)
    <3>1. hand[t] \in Numbers
      BY <1>w, <2>0, <2>3, HereFacts DEF PublishCheckClosed, Pushing
    <3> QED  BY <2>0, <2>1, <2>3, <3>1
             DEF PublishCheckClosed, Drops, Rests, Counting
  <2>4. CASE PushInsert(t)
    BY <2>4 DEF PushInsert
  <2>5. CASE PushRefuse(t)
    <3>1. hand[t] \in Numbers
      BY <1>w, <2>0, <2>5, HereFacts DEF PushRefuse, Pushing
    <3> QED  BY <2>0, <2>1, <2>5, <3>1 DEF PushRefuse, Drops, Rests, Counting
  <2>6. CASE PushWake(t) \/ CountDrop(t)
    BY <2>1, <2>6 DEF PushWake, CountDrop, Rests
  <2> QED  BY <1>2, <2>2, <2>3, <2>4, <2>5, <2>6 DEF PushAction
<1>3. ASSUME NEW t \in Stages, StageAction(t)
      PROVE  policy' = policy /\ (StagePop(t) \/ Drops(t) \/ Rests)
  <2>0. t \in Threads
    BY DEF Threads, Stages
  <2>1. CASE StagePop(t)
    BY <2>1 DEF StagePop
  <2>2. CASE StageEnd(t)
    <3>1. Counting' <=> Counting
      BY <1>t, <2>0, <2>2, OtherThread DEF StageEnd
    <3> QED  BY <2>2, <3>1 DEF StageEnd, Rests
  <2>3. CASE StageCheckAborted(t)
    <3>1. Counting' <=> Counting
      BY <1>t, <2>0, <2>3, OtherThread DEF StageCheckAborted
    <3>2. hand[t] \in Numbers
      BY <1>w, <2>0, <2>3, HereFacts DEF StageCheckAborted
    <3>3. t = Sink => ~Counting
      BY <2>3 DEF StageCheckAborted, Counting
    <3> QED  BY <2>3, <3>1, <3>2, <3>3 DEF StageCheckAborted, Drops, Rests
  <2> QED  BY <1>3, <2>1, <2>2, <2>3 DEF StageAction
<1>4. ASSUME NEW t \in 1..3, StageBody(t) PROVE policy' = policy /\ Rests
  <2>1. t \in Threads
    BY DEF Threads
  <2>2. Counting' <=> Counting
    BY <1>t, <1>4, <2>1, OtherThread DEF StageBody, HasOutput
  <2> QED  BY <1>4, <2>2 DEF StageBody, Rests
<1>5. CASE SinkConsume
  BY <1>5 DEF SinkConsume
<1>6. ASSUME SinkCount PROVE policy' = policy /\ Drops(Sink)
  <2>1. hand[Sink] \in Numbers
    BY <1>c, <1>w, <1>6, HereFacts DEF SinkCount
  <2>2. ~Counting'
    BY <1>t, <1>c, <1>6 DEF SinkCount, Goto, Counting
  <2> QED  BY <1>6, <2>1, <2>2 DEF SinkCount, Drops
<1>7. ASSUME NEW t \in Threads, LeaveAction(t)
      PROVE  policy' = policy /\ (Drops(t) \/ Rests)
  <2>1. Counting' <=> Counting
    BY <1>t, <1>7, OtherThread
    DEF LeaveAction, CloseOutput, Throw, AbortStep, AbortNoteError, AbortFlag,
        AbortStop, AbortClose, Capture, Sink
  <2>2. CASE CloseOutput(t)
    BY <2>1, <2>2 DEF CloseOutput, Rests
  <2>3. CASE Throw(t)
    <3>1. hand[t] # None
      BY <1>w, <2>3, HereFacts DEF Throw
    <3>2. t = Sink => ~Counting
      BY <1>c, <2>3 DEF Throw, Counting
    <3> QED  BY <2>1, <2>3, <3>1, <3>2 DEF Throw, Drops
  <2>4. CASE AbortStep(t)
    BY <2>1, <2>4 DEF AbortStep, AbortNoteError, AbortFlag, AbortStop,
                      AbortClose, Rests
  <2> QED  BY <1>7, <2>2, <2>3, <2>4 DEF LeaveAction
<1>8. ASSUME RequestStop \/ StopCallback \/ UNCHANGED vars
      PROVE  policy' = policy /\ Rests
  BY <1>8 DEF RequestStop, StopCallback, vars, Rests, Counting
<1> HIDE NumbersAreFrames
<1>9. 0..3 \subseteq Threads /\ Stages \subseteq Threads /\ 1..3 \subseteq Threads
  BY DEF Threads, Stages
<1> QED  BY <1>c, <1>1, <1>2, <1>3, <1>4, <1>5, <1>6, <1>7, <1>8, <1>9, Actions

-----------------------------------------------------------------------------
(* Frames are conserved and hand-offs keep their bounds.                     *)

\* What an insertion leaves in a hand-off and what it pushes out.
LEMMA InsertFacts ==
  ASSUME NEW p, NEW q \in Seq(Numbers), NEW v \in Numbers
  PROVE  /\ Inserted(p, q, v) \in Seq(Numbers)
         /\ Len(Inserted(p, q, v)) = Len(q) + 1 - Len(Displaced(p, q))
         /\ Displaced(p, q) \in Seq(Numbers)
BY DEF Inserted, Displaced

\* A step keeps the number of frames in the pool, in hands and in hand-offs.
LEMMA BalanceStep ==
  ASSUME TypeOK, HandWhere, Balance, [Next]_vars
  PROVE  Balance' /\ free' \in Nat
<1>t. /\ pc \in [Threads -> Locations]
      /\ hand \in [Threads -> Numbers \cup {None, Blank}]
      /\ items \in [HandOffs -> Seq(Numbers)]
      /\ free \in Nat
  BY DEF TypeOK
<1>w. \A t \in Threads : Here(t, pc[t], hand[t])
  BY DEF HandWhere
<1>c. Capture \in Threads /\ Sink \in Threads
  BY DEF Threads, Capture, Sink
<1>p. pool_size' = pool_size
  BY Moves DEF pool_size
<1>q. Queued \in Nat
  BY <1>t DEF Queued, HandOffs
<1>h. ASSUME NEW t \in Threads,
             \A u \in Threads : u # t => hand'[u] = hand[u]
      PROVE  Sum(Held') = Sum(Held) - (IF hand[t] # None THEN 1 ELSE 0)
                                    + (IF hand'[t] # None THEN 1 ELSE 0)
  <2>1. \A u \in Threads : Held[u] \in Int /\ Held'[u] \in Int
    BY DEF Held
  <2>2. \A u \in Threads : u # t => Held'[u] = Held[u]
    BY <1>h DEF Held
  <2>3. /\ Held[t] = (IF hand[t] # None THEN 1 ELSE 0)
        /\ Held'[t] = (IF hand'[t] # None THEN 1 ELSE 0)
    BY DEF Held
  <2>4. Sum(Held') = Sum(Held) - Held[t] + Held'[t]
    BY <2>1, <2>2, SumOne
  <2> QED  BY <2>3, <2>4
<1>e. ASSUME NEW t \in Threads, NEW x, hand' = [hand EXCEPT ![t] = x]
      PROVE  hand'[t] = x /\ \A u \in Threads : u # t => hand'[u] = hand[u]
  BY <1>t, <1>e
<1>s. Sum(Held) \in Int
  <2>1. \A u \in Threads : Held[u] \in Int
    BY DEF Held
  <2> QED  BY <1>c, <2>1, SumOne
<1>m. Sum(Held)' = Sum(Held')
  BY DEF Sum
<1> USE NumbersAreFrames
<1>1. ASSUME NEW t \in 0..3, PushInsert(t) PROVE Balance' /\ free' \in Nat
  <2> DEFINE p == PolicyOf(t + 1)
             q == items[t + 1]
             r == Inserted(p, q, hand[t])
  <2>1. t \in Threads /\ t + 1 \in HandOffs
    BY DEF Threads, HandOffs
  <2>2. hand[t] \in Numbers
    BY <1>w, <1>1, <2>1, HereFacts DEF PushInsert, Pushing
  <2>3. q \in Seq(Numbers)
    BY <1>t, <2>1
  <2>4. /\ items' = [items EXCEPT ![t + 1] = r]
        /\ hand' = [hand EXCEPT ![t] = None]
        /\ free' = free + Len(Displaced(p, q))
    BY <1>1 DEF PushInsert
  <2> HIDE DEF p, q, r
  <2>5. /\ r \in Seq(Numbers)
        /\ Len(r) = Len(q) + 1 - Len(Displaced(p, q))
        /\ Len(Displaced(p, q)) \in Nat /\ Len(q) \in Nat
    BY <2>2, <2>3, InsertFacts DEF r
  <2>6. Queued' = Queued - Len(q) + Len(r)
    BY <1>t, <2>1, <2>4, <2>5, QueuedOne DEF q
  <2>7. Sum(Held') = Sum(Held) - 1
    <3>1. hand'[t] = None /\ \A u \in Threads : u # t => hand'[u] = hand[u]
      BY <1>e, <2>1, <2>4
    <3> QED  BY <1>h, <1>s, <2>1, <2>2, <3>1
  <2> DEFINE d == Len(Displaced(p, q))
             m == Len(q)
             n == Len(r)
  <2>8. free' = free + d /\ n = m + 1 - d /\ Queued' = Queued - m + n
    BY <2>4, <2>5, <2>6
  <2>9. d \in Nat /\ m \in Nat
    BY <2>5
  <2> HIDE DEF d, m, n
  <2> QED  BY <1>t, <1>p, <1>q, <1>s, <1>m, <2>7, <2>8, <2>9 DEF Balance
<1>2. ASSUME NEW t \in Stages, StagePop(t) PROVE Balance' /\ free' \in Nat
  <2>1. t \in Threads /\ t \in HandOffs
    BY DEF Threads, Stages, HandOffs
  <2>2. hand[t] = None
    BY <1>w, <1>2, <2>1, HereFacts DEF StagePop
  <2>3. /\ items[t] \in Seq(Numbers) /\ items[t] # <<>>
        /\ items' = [items EXCEPT ![t] = Tail(items[t])]
        /\ hand' = [hand EXCEPT ![t] = Head(items[t])]
        /\ free' = free
    BY <1>t, <1>2, <2>1 DEF StagePop
  <2>4. /\ Tail(items[t]) \in Seq(Numbers) /\ Head(items[t]) \in Numbers
        /\ Len(Tail(items[t])) = Len(items[t]) - 1 /\ Len(items[t]) \in Nat
    BY <2>3
  <2>5. Queued' = Queued - Len(items[t]) + Len(Tail(items[t]))
    BY <1>t, <2>1, <2>3, <2>4, QueuedOne
  <2>6. Sum(Held') = Sum(Held) + 1
    <3>1. /\ hand'[t] = Head(items[t])
          /\ \A u \in Threads : u # t => hand'[u] = hand[u]
      BY <1>e, <2>1, <2>3
    <3> QED  BY <1>h, <1>s, <2>1, <2>2, <2>4, <3>1
  <2> QED  BY <1>t, <1>p, <1>q, <1>s, <1>m, <2>3, <2>4, <2>5, <2>6 DEF Balance
<1>3. ASSUME NEW t \in Threads, Drops(t) PROVE Balance' /\ free' \in Nat
  <2>1. Sum(Held') = Sum(Held) - 1
    <3>1. hand'[t] = None /\ \A u \in Threads : u # t => hand'[u] = hand[u]
      BY <1>e, <1>3 DEF Drops, Release
    <3> QED  BY <1>h, <1>s, <1>3, <3>1 DEF Drops
  <2>2. Queued' = Queued
    BY <1>3 DEF Drops, Queued
  <2> QED  BY <1>t, <1>p, <1>q, <1>s, <1>m, <1>3, <2>1, <2>2
           DEF Balance, Drops, Release
<1>4. CASE SinkConsume
  BY <1>t, <1>p, <1>4 DEF SinkConsume, Balance, Queued, Held, Sum
<1>5. CASE CaptureRead
  <2>1. hand[Capture] = Blank
    BY <1>c, <1>w, <1>5, HereFacts DEF CaptureRead
  <2>2. hand' = [hand EXCEPT ![Capture] = sequence] /\ sequence # None
    BY <1>5 DEF CaptureRead, TypeOK, None
  <2>3. Sum(Held') = Sum(Held)
    <3>1. /\ hand'[Capture] = sequence
          /\ \A u \in Threads : u # Capture => hand'[u] = hand[u]
      BY <1>c, <1>e, <2>2
    <3> QED  BY <1>c, <1>h, <1>s, <2>1, <2>2, <3>1
  <2> QED  BY <1>t, <1>p, <1>m, <1>5, <2>3 DEF CaptureRead, Balance, Queued
<1>6. CASE Acquires
  <2>1. Sum(Held') = Sum(Held) + 1
    <3>1. /\ hand'[Capture] = Blank
          /\ \A u \in Threads : u # Capture => hand'[u] = hand[u]
      BY <1>c, <1>e, <1>6 DEF Acquires
    <3> QED  BY <1>c, <1>h, <1>s, <1>6, <3>1 DEF Acquires
  <2>2. Queued' = Queued
    BY <1>6 DEF Acquires, Queued
  <2> QED  BY <1>t, <1>p, <1>q, <1>s, <1>m, <1>6, <2>1, <2>2 DEF Balance, Acquires
<1>7. CASE Return
  <2>1. /\ items'[1] = <<>> /\ items'[2] = <<>>
        /\ items'[3] = <<>> /\ items'[4] = <<>>
    BY <1>7 DEF Return, HandOffs
  <2>2. Queued' = 0
    BY <2>1 DEF Queued
  <2>3. /\ Len(items[1]) \in Nat /\ Len(items[2]) \in Nat
        /\ Len(items[3]) \in Nat /\ Len(items[4]) \in Nat
    BY <1>t DEF HandOffs
  <2>4. free' = free + Queued
    <3> DEFINE a == Len(items[1])
               b == Len(items[2])
               c == Len(items[3])
               d == Len(items[4])
    <3>1. free' = free + a + b + c + d /\ Queued = a + b + c + d
      BY <1>7 DEF Return, Queued
    <3>2. a \in Nat /\ b \in Nat /\ c \in Nat /\ d \in Nat
      BY <2>3
    <3> HIDE DEF a, b, c, d
    <3> QED  BY <1>t, <3>1, <3>2
  <2>5. Held' = Held
    BY <1>7 DEF Return, Held
  <2> QED  BY <1>t, <1>p, <1>q, <1>s, <1>m, <2>2, <2>4, <2>5 DEF Balance
<1>8. CASE Rests
  BY <1>t, <1>p, <1>8 DEF Rests, Balance, Queued, Held, Sum
<1> HIDE NumbersAreFrames
<1> QED  BY <1>1, <1>2, <1>3, <1>4, <1>5, <1>6, <1>7, <1>8, Moves

\* No hand-off outgrows its capacity.
LEMMA BoundsStep ==
  ASSUME TypeOK, HandWhere, QueueBounds, [Next]_vars
  PROVE  QueueBounds'
<1>t. /\ items \in [HandOffs -> Seq(Numbers)]
      /\ pc \in [Threads -> Locations]
  BY DEF TypeOK
<1>p. \A h \in HandOffs :
        /\ PolicyOf(h)' = PolicyOf(h)
        /\ Room(h)' = Room(h) /\ Room(h) \in Nat /\ Room(h) >= 1
  BY Moves, Constants DEF PolicyOf, Room, CapacityOf, ConstantFacts
<1>1. ASSUME NEW t \in 0..3, PushInsert(t) PROVE QueueBounds'
  <2> DEFINE p == PolicyOf(t + 1)
             q == items[t + 1]
             r == Inserted(p, q, hand[t])
  <2>1. t \in Threads /\ t + 1 \in HandOffs
    BY DEF Threads, HandOffs
  <2>2. q \in Seq(Numbers) /\ hand[t] \in Numbers
    BY <1>t, <1>1, <2>1, HereFacts DEF HandWhere, PushInsert, Pushing
  <2>3. /\ items' = [items EXCEPT ![t + 1] = r]
        /\ ~Full(p, CapacityOf(t + 1), q)
    BY <1>1 DEF PushInsert
  <2>4. Len(q) <= Room(t + 1)
    BY <2>1 DEF QueueBounds
  <2>5. Len(r) <= Room(t + 1)
    <3>1. CASE p = "latest"
      BY <3>1 DEF Room, Inserted
    <3>2. CASE p # "latest"
      BY <1>p, <2>1, <2>2, <2>3, <2>4, <3>2 DEF Room, Full, Inserted
    <3> QED  BY <3>1, <3>2
  <2> HIDE DEF p, q, r
  <2> QED  BY <1>t, <1>p, <2>1, <2>3, <2>5 DEF QueueBounds
<1>2. ASSUME NEW t \in Stages, StagePop(t) PROVE QueueBounds'
  <2>1. t \in HandOffs
    BY DEF Stages, HandOffs
  <2>2. /\ items' = [items EXCEPT ![t] = Tail(items[t])]
        /\ Len(Tail(items[t])) <= Len(items[t])
    BY <1>t, <1>2, <2>1 DEF StagePop
  <2>3. Len(Tail(items[t])) \in Nat /\ Len(items[t]) \in Nat
    BY <1>t, <1>2, <2>1 DEF StagePop
  <2> QED  BY <1>t, <1>p, <2>1, <2>2, <2>3 DEF QueueBounds
<1>3. CASE Return
  <2>1. \A h \in HandOffs : items'[h] = <<>>
    BY <1>3 DEF Return
  <2> QED  BY <1>p, <2>1 DEF QueueBounds
<1>4. CASE items' = items
  BY <1>p, <1>4 DEF QueueBounds
<1> QED  BY <1>1, <1>2, <1>3, <1>4, Moves
         DEF Drops, SinkConsume, CaptureRead, Acquires, Rests

-----------------------------------------------------------------------------
(* Types.                                                                    *)

Control ==
    /\ closed \in [HandOffs -> BOOLEAN]
    /\ pc \in [Threads -> Locations]
    /\ result \in [Threads -> HandOffResult]
    /\ next_close \in [Threads -> 1..5]
    /\ stop \in BOOLEAN /\ spc \in {"idle", "callback", "done"}
    /\ aborted \in BOOLEAN /\ error \in Threads \cup {None}
    /\ captured \in Nat /\ dropped \in Nat /\ completed \in Nat
    /\ late \in Nat

\* The control state keeps its type.
LEMMA ControlStep == TypeOK /\ HandWhere /\ Limits /\ [Next]_vars => Control'
<1> SUFFICES ASSUME TypeOK, HandWhere, Limits, [Next]_vars
             PROVE  Control'
  OBVIOUS
<1>t. Control
  BY DEF TypeOK, Control
<1>c. Capture \in Threads /\ Sink \in Threads /\ Capture # Sink
  BY DEF Threads, Capture, Sink
<1>g. ASSUME NEW t \in Threads, NEW l \in Locations, Goto(t, l)
      PROVE  pc' \in [Threads -> Locations]
  BY <1>t, <1>g DEF Control, Goto
<1>l. /\ Leaving \cup Pushing \subseteq Locations
      /\ {"loop", "acquire", "read", "count", "drop", "join", "report", "pop",
          "check", "body", "close"} \subseteq Locations
  BY DEF Leaving, Pushing, Locations
<1>1. ASSUME CaptureAction PROVE Control'
  <2>1. pc' \in [Threads -> Locations]
    <3>1. \E l \in Locations : Goto(Capture, l)
      BY <1>1, <1>l DEF CaptureAction, CaptureLoop, CaptureAcquire, CaptureRead,
         CaptureEndOfSource, CaptureCount, Join, Return, Leaving, Pushing
    <3> QED  BY <1>c, <1>g, <3>1
  <2>2. /\ UNCHANGED <<closed, result, abort_state, stop, spc, dropped,
                       completed, late>>
        /\ captured' \in {captured, captured + 1}
    BY <1>1 DEF CaptureAction, CaptureLoop, CaptureAcquire, CaptureRead,
       CaptureEndOfSource, CaptureCount, Join, Return, abort_state, counters
  <2> QED  BY <1>t, <2>1, <2>2 DEF Control, abort_state
<1>2. ASSUME NEW t \in 0..3, PushAction(t) PROVE Control'
  <2>0. t \in Threads
    BY DEF Threads
  <2>1. pc' \in [Threads -> Locations]
    <3>1. \A r : Returned(t, r) \in Locations
      BY DEF Returned, Locations
    <3>2. \E l \in Locations : Goto(t, l)
      BY <1>2, <1>l, <3>1 DEF PushAction, PushCheckClosed, PublishCheckClosed,
         PushInsert, PushRefuse, PushWake, CountDrop, Pushing
    <3> QED  BY <1>g, <2>0, <3>2
  <2>2. result' \in [Threads -> HandOffResult]
    <3>1. InsertResult(PolicyOf(t + 1), items[t + 1]) \in HandOffResult
      BY DEF InsertResult, HandOffResult
    <3>2. \/ UNCHANGED result
          \/ \E r \in HandOffResult : result' = [result EXCEPT ![t] = r]
      BY <1>2, <3>1 DEF PushAction, PushCheckClosed, PublishCheckClosed,
         PushInsert, PushRefuse, PushWake, CountDrop, HandOffResult
    <3> QED  BY <1>t, <2>0, <3>2 DEF Control
  <2>3. /\ UNCHANGED <<closed, abort_state, stop, spc, captured, completed, late>>
        /\ dropped' \in {dropped, dropped + 1}
    BY <1>2 DEF PushAction, PushCheckClosed, PublishCheckClosed, PushInsert,
       PushRefuse, PushWake, CountDrop, abort_state, counters
  <2> QED  BY <1>t, <2>1, <2>2, <2>3 DEF Control, abort_state
<1>3. ASSUME NEW t \in Stages, StageAction(t) PROVE Control'
  <2>0. t \in Threads
    BY DEF Threads, Stages
  <2>1. pc' \in [Threads -> Locations]
    <3>1. \E l \in Locations : Goto(t, l)
      BY <1>3, <1>l DEF StageAction, StagePop, StageEnd, StageCheckAborted
    <3> QED  BY <1>g, <2>0, <3>1
  <2>2. UNCHANGED <<closed, result, abort_state, stop, spc, counters, late>>
    BY <1>3 DEF StageAction, StagePop, StageEnd, StageCheckAborted
  <2> QED  BY <1>t, <2>1, <2>2 DEF Control, abort_state, counters
<1>4. ASSUME NEW t \in 1..3, StageBody(t) PROVE Control'
  <2>1. t \in Threads
    BY DEF Threads
  <2>2. pc' \in [Threads -> Locations]
    BY <1>4, <1>g, <1>l, <2>1 DEF StageBody, Pushing
  <2> QED  BY <1>t, <1>4, <2>2 DEF StageBody, Control, abort_state, counters
<1>5. CASE SinkConsume
  <2>1. pc' \in [Threads -> Locations]
    BY <1>5, <1>c, <1>g, <1>l DEF SinkConsume
  <2> QED  BY <1>t, <1>5, <2>1 DEF SinkConsume, Control, abort_state, counters
<1>6. CASE SinkCount
  <2>1. pc' \in [Threads -> Locations]
    BY <1>6, <1>c, <1>g, <1>l DEF SinkCount
  <2> QED  BY <1>t, <1>6, <2>1 DEF SinkCount, Control, abort_state
<1>7. ASSUME NEW t \in Threads, LeaveAction(t) PROVE Control'
  <2>1. pc' \in [Threads -> Locations]
    <3>1. \E l \in Locations : Goto(t, l)
      BY <1>7, <1>l DEF LeaveAction, CloseOutput, Throw, AbortStep,
         AbortNoteError, AbortFlag, AbortStop, AbortClose, Leaving
    <3> QED  BY <1>g, <3>1
  <2>2. /\ UNCHANGED <<result, spc, counters, late>>
        /\ error' \in Threads \cup {None}
        /\ aborted' \in BOOLEAN /\ stop' \in BOOLEAN
    BY <1>t, <1>7 DEF LeaveAction, CloseOutput, Throw, AbortStep,
       AbortNoteError, AbortFlag, AbortStop, AbortClose, Control, abort_state
  <2>3. CASE AbortClose(t)
    <3>1. next_close[t] \in 1..4
      BY <1>t, <2>3 DEF AbortClose, Limits, Control
    <3>2. closed' \in [HandOffs -> BOOLEAN]
      BY <1>t, <2>3 DEF AbortClose, Control
    <3>3. next_close' \in [Threads -> 1..5]
      BY <1>t, <2>3, <3>1 DEF AbortClose, Control
    <3> QED  BY <1>t, <2>1, <2>2, <3>2, <3>3 DEF Control, counters
  <2>4. CASE CloseOutput(t)
    <3>1. closed' \in [HandOffs -> BOOLEAN]
      BY <1>t, <2>4 DEF CloseOutput, Control
    <3> QED  BY <1>t, <2>1, <2>2, <2>4, <3>1
             DEF CloseOutput, Control, counters, abort_state
  <2>5. CASE ~AbortClose(t) /\ ~CloseOutput(t)
    <3>1. UNCHANGED <<closed, next_close>>
      BY <1>7, <2>5 DEF LeaveAction, Throw, AbortStep,
         AbortNoteError, AbortFlag, AbortStop, abort_state
    <3> QED  BY <1>t, <2>1, <2>2, <3>1 DEF Control, counters
  <2> QED  BY <2>3, <2>4, <2>5
<1>8. CASE RequestStop \/ StopCallback \/ UNCHANGED vars
  BY <1>t, <1>8 DEF RequestStop, StopCallback, vars, Control, abort_state,
                    counters
<1> QED  BY <1>1, <1>2, <1>3, <1>4, <1>5, <1>6, <1>7, <1>8, Actions

\* The whole state keeps its type.
LEMMA TypeStep ==
  ASSUME TypeOK, HandWhere, Limits, Balance, [Next]_vars
  PROVE  TypeOK'
<1>t. /\ pc \in [Threads -> Locations]
      /\ hand \in [Threads -> Numbers \cup {None, Blank}]
      /\ items \in [HandOffs -> Seq(Numbers)]
      /\ delivered \in Seq(Numbers)
      /\ sequence \in 0..MaxFrames /\ MaxFrames \in Nat
      /\ policy \in Policies
  BY Constants DEF TypeOK, ConstantFacts
<1>w. \A t \in Threads : Here(t, pc[t], hand[t])
  BY DEF HandWhere
<1>c. Capture \in Threads /\ Sink \in Threads
  BY DEF Threads, Capture, Sink
<1> DEFINE Frames ==
      /\ items \in [HandOffs -> Seq(Numbers)]
      /\ hand \in [Threads -> Numbers \cup {None, Blank}]
      /\ delivered \in Seq(Numbers)
      /\ sequence \in 0..MaxFrames
<1>1. ASSUME NEW t \in 0..3, PushInsert(t) PROVE Frames'
  <2>1. t \in Threads /\ t + 1 \in HandOffs
    BY DEF Threads, HandOffs
  <2>2. hand[t] \in Numbers
    BY <1>w, <1>1, <2>1, HereFacts DEF PushInsert, Pushing
  <2>3. items[t + 1] \in Seq(Numbers)
    BY <1>t, <2>1
  <2>4. Inserted(PolicyOf(t + 1), items[t + 1], hand[t]) \in Seq(Numbers)
    BY <2>2, <2>3, InsertFacts
  <2> QED  BY <1>t, <1>1, <2>1, <2>4 DEF PushInsert
<1>2. ASSUME NEW t \in Stages, StagePop(t) PROVE Frames'
  <2>1. t \in Threads /\ t \in HandOffs
    BY DEF Threads, Stages, HandOffs
  <2>2. items[t] \in Seq(Numbers) /\ items[t] # <<>>
    BY <1>t, <1>2, <2>1 DEF StagePop
  <2>3. Head(items[t]) \in Numbers /\ Tail(items[t]) \in Seq(Numbers)
    BY <2>2
  <2> QED  BY <1>t, <1>2, <2>1, <2>3 DEF StagePop
<1>3. ASSUME NEW t \in Threads, Drops(t) PROVE Frames'
  BY <1>t, <1>3 DEF Drops, Release
<1>4. ASSUME SinkConsume PROVE Frames'
  <2>1. hand[Sink] \in Numbers
    BY <1>c, <1>w, <1>4, HereFacts DEF SinkConsume
  <2>2. Append(delivered, hand[Sink]) \in Seq(Numbers)
    BY <1>t, <2>1
  <2> QED  BY <1>t, <1>4, <2>2 DEF SinkConsume
<1>5. ASSUME CaptureRead PROVE Frames'
  <2>1. sequence \in Numbers /\ sequence + 1 \in 0..MaxFrames
    BY <1>t, <1>5 DEF CaptureRead, Limits, Numbers
  <2> QED  BY <1>t, <1>5, <2>1 DEF CaptureRead
<1>6. ASSUME Acquires PROVE Frames'
  BY <1>t, <1>6 DEF Acquires
<1>7. ASSUME Return PROVE Frames'
  <2>1. <<>> \in Seq(Numbers)
    OBVIOUS
  <2> QED  BY <1>t, <1>7, <2>1 DEF Return
<1>8. ASSUME Rests PROVE Frames'
  BY <1>t, <1>8 DEF Rests
<1>9. Frames' /\ policy' = policy
  BY <1>1, <1>2, <1>3, <1>4, <1>5, <1>6, <1>7, <1>8, Moves
<1>10. free' \in 0..pool_size'
  <2>1. Balance' /\ free' \in Nat
    BY BalanceStep
  <2>2. Queued' \in Nat
    BY <1>9 DEF Queued, HandOffs
  <2>3. Sum(Held)' \in Nat
    BY DEF Sum, Held, Threads
  <2> QED  BY <2>1, <2>2, <2>3 DEF Balance
<1> QED  BY <1>t, <1>9, <1>10, ControlStep DEF TypeOK, Control

\* Counters keep to the limits of the run.
LEMMA LimitsStep ==
  ASSUME TypeOK, HandWhere, Limits, [Next]_vars
  PROVE  Limits'
<1>t. /\ pc \in [Threads -> Locations]
      /\ next_close \in [Threads -> 1..5]
      /\ sequence \in 0..MaxFrames /\ MaxFrames \in Nat
  BY Constants DEF TypeOK, ConstantFacts
<1>c. Capture \in Threads /\ Sink \in Threads /\ Capture # Sink
  BY DEF Threads, Capture, Sink
<1>1. pc'[Capture] \in {"acquire", "read"} => sequence' < MaxFrames
  <2>1. ASSUME CaptureAction
        PROVE  pc'[Capture] \in {"acquire", "read"} => sequence' < MaxFrames
    BY <1>t, <1>c, <2>1 DEF CaptureAction, CaptureLoop, CaptureAcquire,
       CaptureRead, CaptureEndOfSource, CaptureCount, Join, Return, Goto, Limits
  <2>2. ASSUME NEW t \in 0..3, PushAction(t)
        PROVE  pc'[Capture] \in {"acquire", "read"} => sequence' < MaxFrames
    <3>1. \A r : Returned(t, r) \notin {"acquire", "read"}
      BY DEF Returned
    <3>2. sequence' = sequence
      BY <2>2 DEF PushAction, PushCheckClosed, PublishCheckClosed, PushInsert,
         PushRefuse, PushWake, CountDrop
    <3>3. \E l : Goto(t, l) /\ l \notin {"acquire", "read"}
      BY <2>2, <3>1 DEF PushAction, PushCheckClosed, PublishCheckClosed,
         PushInsert, PushRefuse, PushWake, CountDrop
    <3>4. pc'[Capture] \in {"acquire", "read"} => pc'[Capture] = pc[Capture]
      BY <1>t, <1>c, <3>3 DEF Goto
    <3> QED  BY <3>2, <3>4 DEF Limits
  <2>3. ASSUME NEW t \in Stages, StageAction(t)
        PROVE  pc'[Capture] = pc[Capture] /\ sequence' = sequence
    BY <1>t, <2>3 DEF StageAction, StagePop, StageEnd, StageCheckAborted, Goto,
                      Stages, Capture, Threads
  <2>4. ASSUME NEW t \in 1..3, StageBody(t)
        PROVE  pc'[Capture] = pc[Capture] /\ sequence' = sequence
    BY <1>t, <2>4 DEF StageBody, Goto, Capture, Threads
  <2>5. ASSUME SinkConsume \/ SinkCount
        PROVE  pc'[Capture] = pc[Capture] /\ sequence' = sequence
    BY <1>t, <1>c, <2>5 DEF SinkConsume, SinkCount, Goto
  <2>6. ASSUME NEW t \in Threads, LeaveAction(t)
        PROVE  pc'[Capture] \in {"acquire", "read"} => sequence' < MaxFrames
    <3>1. sequence' = sequence /\ \E l : Goto(t, l) /\ l \notin {"acquire", "read"}
      BY <2>6 DEF LeaveAction, CloseOutput, Throw, AbortStep,
         AbortNoteError, AbortFlag, AbortStop, AbortClose
    <3>2. pc'[Capture] \in {"acquire", "read"} => pc'[Capture] = pc[Capture]
      BY <1>t, <1>c, <3>1 DEF Goto
    <3> QED  BY <3>1, <3>2 DEF Limits
  <2>7. ASSUME RequestStop \/ StopCallback \/ UNCHANGED vars
        PROVE  pc'[Capture] = pc[Capture] /\ sequence' = sequence
    BY <2>7 DEF RequestStop, StopCallback, vars
  <2> QED  BY <2>1, <2>2, <2>3, <2>4, <2>5, <2>6, <2>7, Actions DEF Limits
<1>2. ASSUME NEW u \in Threads
      PROVE  \/ next_close'[u] <= 4
             \/ pc'[u] \in {"close", "join", "report", "done"}
  <2>0. next_close[u] <= 4 \/ pc[u] \in {"close", "join", "report", "done"}
    BY DEF Limits
  <2>1. CASE \E t \in Threads : AbortClose(t)
    <3>1. PICK t \in Threads : AbortClose(t)
      BY <2>1
    <3> QED  BY <1>t, <2>0, <3>1 DEF AbortClose, Goto
  <2>2. CASE ~\E t \in Threads : AbortClose(t)
    <3> DEFINE Out == {"close", "join", "report", "done"}
    <3>1. next_close' = next_close /\ (pc[u] \in Out => pc'[u] \in Out)
      <4>1. CASE CaptureAction
        BY <1>t, <1>c, <4>1 DEF CaptureAction, CaptureLoop, CaptureAcquire,
           CaptureRead, CaptureEndOfSource, CaptureCount, Join, Return, Goto,
           abort_state
      <4>2. ASSUME NEW t \in 0..3, PushAction(t)
            PROVE  next_close' = next_close /\ (pc[u] \in Out => pc'[u] \in Out)
        BY <1>t, <4>2 DEF PushAction, PushCheckClosed, PublishCheckClosed,
           PushInsert, PushRefuse, PushWake, CountDrop, Goto, abort_state
      <4>3. ASSUME NEW t \in Stages, StageAction(t)
            PROVE  next_close' = next_close /\ (pc[u] \in Out => pc'[u] \in Out)
        BY <1>t, <4>3 DEF StageAction, StagePop, StageEnd, StageCheckAborted,
           Goto, abort_state
      <4>4. ASSUME NEW t \in 1..3, StageBody(t)
            PROVE  next_close' = next_close /\ (pc[u] \in Out => pc'[u] \in Out)
        BY <1>t, <4>4 DEF StageBody, Goto, abort_state
      <4>5. CASE SinkConsume \/ SinkCount
        BY <1>t, <4>5 DEF SinkConsume, SinkCount, Goto, abort_state
      <4>6. ASSUME NEW t \in Threads, LeaveAction(t)
            PROVE  next_close' = next_close /\ (pc[u] \in Out => pc'[u] \in Out)
        BY <1>t, <2>2, <4>6 DEF LeaveAction, CloseOutput, Throw, AbortStep,
           AbortNoteError, AbortFlag, AbortStop, Goto, abort_state
      <4>7. CASE RequestStop \/ StopCallback \/ UNCHANGED vars
        BY <4>7 DEF RequestStop, StopCallback, vars, abort_state
      <4> QED  BY <4>1, <4>2, <4>3, <4>4, <4>5, <4>6, <4>7, Actions
    <3> QED  BY <2>0, <3>1
  <2> QED  BY <2>1, <2>2
<1> QED  BY <1>1, <1>2 DEF Limits

-----------------------------------------------------------------------------
(* Aborts, the join and the order of closing.                                *)

\* After an abort at most one more frame reaches the sinks.
LEMMA LateStep ==
  ASSUME TypeOK, LateOnce, [Next]_vars
  PROVE  LateOnce'
<1>t. pc \in [Threads -> Locations] /\ aborted \in BOOLEAN
  BY DEF TypeOK
<1>c. Capture \in Threads /\ Sink \in Threads /\ Capture # Sink
  BY DEF Threads, Capture, Sink
<1> DEFINE Kept == /\ late' = late
                   /\ aborted => aborted'
                   /\ pc'[Sink] = "body" => pc[Sink] = "body" \/ ~aborted
<1>1. ASSUME CaptureAction PROVE Kept
  BY <1>t, <1>c, <1>1 DEF CaptureAction, CaptureLoop, CaptureAcquire,
     CaptureRead, CaptureEndOfSource, CaptureCount, Join, Return, Goto,
     abort_state
<1>2. ASSUME NEW t \in 0..3, PushAction(t) PROVE Kept
  BY <1>t, <1>2 DEF PushAction, PushCheckClosed, PublishCheckClosed, PushInsert,
     PushRefuse, PushWake, CountDrop, Goto, abort_state, Sink, Threads
<1>3. ASSUME NEW t \in Stages, StageAction(t) PROVE Kept
  BY <1>t, <1>c, <1>3 DEF StageAction, StagePop, StageEnd, StageCheckAborted,
     Goto, abort_state
<1>4. ASSUME NEW t \in 1..3, StageBody(t) PROVE Kept
  BY <1>t, <1>c, <1>4 DEF StageBody, Goto, abort_state
<1>5. CASE SinkConsume
  BY <1>t, <1>c, <1>5 DEF SinkConsume, Goto, LateOnce, abort_state
<1>6. ASSUME SinkCount PROVE Kept
  BY <1>t, <1>c, <1>6 DEF SinkCount, Goto, abort_state
<1>7. ASSUME NEW t \in Threads, LeaveAction(t) PROVE Kept
  BY <1>t, <1>c, <1>7 DEF LeaveAction, CloseOutput, Throw, AbortStep,
     AbortNoteError, AbortFlag, AbortStop, AbortClose, Goto, abort_state
<1>8. ASSUME RequestStop \/ StopCallback \/ UNCHANGED vars PROVE Kept
  BY <1>8 DEF RequestStop, StopCallback, vars, abort_state
<1>9. Kept => LateOnce'
  BY DEF LateOnce
<1> QED  BY <1>1, <1>2, <1>3, <1>4, <1>5, <1>6, <1>7, <1>8, <1>9, Actions

\* A thread that has ended does not come back.
LEMMA DoneStays ==
  ASSUME TypeOK, HandWhere, [Next]_vars, NEW u \in Stages, pc[u] = "done"
  PROVE  pc'[u] = "done"
<1>t. pc \in [Threads -> Locations]
  BY DEF TypeOK
<1>c. u \in Threads /\ u # Capture /\ Capture \in Threads /\ Sink \in Threads
  BY DEF Threads, Capture, Sink, Stages
<1>1. CASE CaptureAction
  BY <1>t, <1>c, <1>1 DEF CaptureAction, CaptureLoop, CaptureAcquire,
     CaptureRead, CaptureEndOfSource, CaptureCount, Join, Return, Goto
<1>2. ASSUME NEW t \in 0..3, PushAction(t) PROVE pc'[u] = "done"
  BY <1>t, <1>c, <1>2 DEF PushAction, PushCheckClosed, PublishCheckClosed,
     PushInsert, PushRefuse, PushWake, CountDrop, Goto
<1>3. ASSUME NEW t \in Stages, StageAction(t) PROVE pc'[u] = "done"
  BY <1>t, <1>c, <1>3 DEF StageAction, StagePop, StageEnd, StageCheckAborted, Goto
<1>4. ASSUME NEW t \in 1..3, StageBody(t) PROVE pc'[u] = "done"
  BY <1>t, <1>c, <1>4 DEF StageBody, Goto
<1>5. CASE SinkConsume \/ SinkCount
  BY <1>t, <1>c, <1>5 DEF SinkConsume, SinkCount, Goto
<1>6. ASSUME NEW t \in Threads, LeaveAction(t) PROVE pc'[u] = "done"
  BY <1>t, <1>c, <1>6 DEF LeaveAction, CloseOutput, Throw, AbortStep,
     AbortNoteError, AbortFlag, AbortStop, AbortClose, Goto
<1>7. CASE RequestStop \/ StopCallback \/ UNCHANGED vars
  BY <1>7 DEF RequestStop, StopCallback, vars
<1> QED  BY <1>1, <1>2, <1>3, <1>4, <1>5, <1>6, <1>7, Actions

\* The threads have ended where run() has joined them.
LEMMA JoinedStep ==
  ASSUME TypeOK, HandWhere, Joined, [Next]_vars
  PROVE  Joined'
<1>t. pc \in [Threads -> Locations]
  BY DEF TypeOK
<1>c. Capture \in Threads /\ Sink \in Threads /\ Capture # Sink
  BY DEF Threads, Capture, Sink
<1> DEFINE Before == pc'[Capture] \in {"report", "done"} =>
                       \/ pc[Capture] \in {"report", "done"}
                       \/ \A t \in Stages : pc[t] = "done"
<1>1. ASSUME CaptureAction PROVE Before
  BY <1>t, <1>c, <1>1 DEF CaptureAction, CaptureLoop, CaptureAcquire,
     CaptureRead, CaptureEndOfSource, CaptureCount, Join, Return, Goto
<1>2. ASSUME NEW t \in 0..3, PushAction(t) PROVE Before
  BY <1>t, <1>c, <1>2 DEF PushAction, PushCheckClosed, PublishCheckClosed,
     PushInsert, PushRefuse, PushWake, CountDrop, Goto, Returned
<1>3. ASSUME NEW t \in Stages, StageAction(t) PROVE Before
  BY <1>t, <1>c, <1>3 DEF StageAction, StagePop, StageEnd, StageCheckAborted, Goto
<1>4. ASSUME NEW t \in 1..3, StageBody(t) PROVE Before
  BY <1>t, <1>c, <1>4 DEF StageBody, Goto
<1>5. ASSUME SinkConsume \/ SinkCount PROVE Before
  BY <1>t, <1>c, <1>5 DEF SinkConsume, SinkCount, Goto
<1>6. ASSUME NEW t \in Threads, LeaveAction(t) PROVE Before
  BY <1>t, <1>c, <1>6 DEF LeaveAction, CloseOutput, Throw, AbortStep,
     AbortNoteError, AbortFlag, AbortStop, AbortClose, Goto
<1>7. ASSUME RequestStop \/ StopCallback \/ UNCHANGED vars PROVE Before
  BY <1>7 DEF RequestStop, StopCallback, vars
<1>8. Before
  BY <1>1, <1>2, <1>3, <1>4, <1>5, <1>6, <1>7, Actions
<1> QED  BY <1>8, DoneStays DEF Joined

\* A step inside the loop of thread t that closes nothing and starts no abort
\* keeps the order of closing.
LEMMA ClosingQuiet ==
  ASSUME TypeOK, HandWhere, Closing,
         NEW t \in Threads, NEW l, Goto(t, l),
         pc[t] \notin {"join", "report", "done", "close", "abort", "flag"},
         l \notin {"stop", "close_all", "done"},
         l = "close" => t = Capture,
         l = "insert" /\ t = Capture => ~closed[1],
         \A h \in HandOffs : \/ items'[h] = items[h]
                             \/ pc'[h] \notin {"close", "done"}
                             \/ ~Clean,
         UNCHANGED <<closed, stop, spc, aborted>>
  PROVE  Closing'
<1>t. pc \in [Threads -> Locations] /\ aborted \in BOOLEAN
  BY DEF TypeOK
<1>c. /\ Capture \in Threads /\ Capture = 0 /\ HandOffs = 1..4 /\ Stages = 1..4
      /\ Threads = 0..4
  BY DEF Threads, Capture, HandOffs, Stages
<1>g. \A u \in Threads : pc'[u] = IF u = t THEN l ELSE pc[u]
  BY <1>t DEF Goto
<1>1. (spc = "callback" => stop)'
  BY DEF Closing
<1>2. \A u \in Threads : pc'[u] \in {"stop", "close_all"} => aborted'
  BY <1>g DEF Closing
<1>3. Clean' => Clean
  BY <1>g DEF Clean
<1>4. ASSUME Clean
      PROVE  /\ closed'[1] /\ ~stop' => pc'[Capture] \in {"join", "report", "done"}
             /\ \A h \in 2..4 : closed'[h] => pc'[h - 1] = "done"
             /\ \A u \in Stages : pc'[u] \in {"close", "done"} => closed'[u]
             /\ \A h \in 2..4 : pc'[h] \in {"close", "done"} => items'[h] = <<>>
  BY <1>c, <1>g, <1>4 DEF Closing
<1>5. ASSUME Clean, pc'[1] \in {"close", "done"}
      PROVE  /\ Len(items'[1]) <= 1
             /\ pc'[Capture] = "insert" => items'[1] = <<>>
             /\ ~stop' => items'[1] = <<>>
  <2>1. pc[1] \in {"close", "done"}
    BY <1>c, <1>g, <1>5
  <2>2. closed[1] /\ items'[1] = items[1]
    BY <1>c, <1>5, <2>1 DEF Closing
  <2>3. pc'[Capture] = "insert" => pc[Capture] = "insert"
    BY <1>c, <1>g, <2>2
  <2>4. /\ Len(items[1]) <= 1
        /\ pc[Capture] = "insert" => items[1] = <<>>
        /\ ~stop => items[1] = <<>>
    BY <1>5, <2>1 DEF Closing
  <2> QED  BY <2>2, <2>3, <2>4
<1> QED  BY <1>1, <1>2, <1>3, <1>4, <1>5 DEF Closing

\* A run without failures closes its hand-offs from the source to the sink.
LEMMA ClosingStep ==
  ASSUME TypeOK, HandWhere, Closing, QueueBounds, [Next]_vars
  PROVE  Closing'
<1>t. /\ pc \in [Threads -> Locations] /\ aborted \in BOOLEAN
      /\ items \in [HandOffs -> Seq(Numbers)]
      /\ closed \in [HandOffs -> BOOLEAN] /\ stop \in BOOLEAN
  BY DEF TypeOK
<1>c. /\ Capture \in Threads /\ Sink \in Threads /\ Capture = 0 /\ Sink = 4
      /\ HandOffs = 1..4 /\ Stages = 1..4 /\ Threads = 0..4
  BY DEF Threads, Capture, Sink, HandOffs, Stages
<1>1. ASSUME CaptureAction PROVE Closing'
  <2>1. CASE CaptureLoop
    BY <1>c, <2>1, ClosingQuiet DEF CaptureLoop, abort_state
  <2>2. CASE CaptureAcquire
    BY <1>c, <2>2, ClosingQuiet DEF CaptureAcquire, abort_state
  <2>3. CASE CaptureRead
    BY <1>c, <2>3, ClosingQuiet DEF CaptureRead, abort_state
  <2>4. CASE CaptureEndOfSource
    BY <1>c, <2>4, ClosingQuiet DEF CaptureEndOfSource, abort_state
  <2>5. CASE CaptureCount
    BY <1>c, <2>5, ClosingQuiet DEF CaptureCount, abort_state
  <2>6. CASE Join
    <3>1. \A u \in Threads : pc'[u] = IF u = Capture THEN "report" ELSE pc[u]
      BY <1>t, <2>6 DEF Join, Goto
    <3>2. UNCHANGED <<closed, stop, spc, aborted, items>>
      BY <2>6 DEF Join, abort_state
    <3>3. Clean' <=> Clean
      BY <1>c, <2>6, <3>1, <3>2 DEF Clean, Join
    <3>4. pc[Capture] # "insert"
      BY <2>6 DEF Join
    <3> QED  BY <1>c, <3>1, <3>2, <3>3, <3>4 DEF Closing
  <2>7. CASE Return
    <3>1. \A u \in Threads : pc'[u] = IF u = Capture THEN "done" ELSE pc[u]
      BY <1>t, <2>7 DEF Return, Goto
    <3>2. UNCHANGED <<closed, stop, spc, aborted>>
      BY <2>7 DEF Return, abort_state
    <3>3. Clean' <=> Clean
      BY <1>c, <2>7, <3>1, <3>2 DEF Clean, Return
    <3>4. \A h \in HandOffs : items'[h] = <<>>
      BY <2>7 DEF Return
    <3>5. Len(items'[1]) = 0
      BY <1>c, <3>4
    <3> QED  BY <1>c, <3>1, <3>2, <3>3, <3>4, <3>5 DEF Closing
  <2> QED  BY <1>1, <2>1, <2>2, <2>3, <2>4, <2>5, <2>6, <2>7 DEF CaptureAction
<1>2. ASSUME NEW t \in 0..3, PushAction(t) PROVE Closing'
  <2>0. t \in Threads /\ t + 1 \in HandOffs
    BY <1>c
  <2>r. \A r : /\ Returned(t, r) \notin {"stop", "close_all", "done", "insert"}
               /\ Returned(t, r) = "close" => t = Capture
    BY DEF Returned
  <2>1. CASE PushCheckClosed(t)
    BY <1>c, <2>0, <2>r, <2>1, ClosingQuiet DEF PushCheckClosed, abort_state
  <2>2. CASE PublishCheckClosed(t)
    BY <1>c, <2>0, <2>r, <2>2, ClosingQuiet DEF PublishCheckClosed, abort_state
  <2>3. CASE PushInsert(t)
    <3> DEFINE q == Inserted(PolicyOf(t + 1), items[t + 1], hand[t])
               l == Returned(t, InsertResult(PolicyOf(t + 1), items[t + 1]))
    <3>1. /\ items' = [items EXCEPT ![t + 1] = q]
          /\ Goto(t, l) /\ pc[t] = "insert"
          /\ UNCHANGED <<closed, stop, spc, aborted>>
      BY <2>3 DEF PushInsert, abort_state
    <3>2. /\ l \notin {"stop", "close_all", "done", "insert", "abort", "flag"}
          /\ l = "close" => t = Capture
      BY DEF Returned
    <3>3. items[t + 1] = <<>> => Len(q) = 1
      BY <1>t, <2>0 DEF Inserted
    <3> HIDE DEF q, l
    <3>4. CASE t # Capture
      <4>1. Clean => pc[t + 1] \notin {"close", "done"}
        BY <1>c, <2>0, <3>1, <3>4 DEF Closing
      <4>2. pc'[t + 1] = pc[t + 1]
        BY <1>t, <1>c, <3>1 DEF Goto
      <4>3. \A h \in HandOffs : \/ items'[h] = items[h]
                                \/ pc'[h] \notin {"close", "done"}
                                \/ ~Clean
        BY <1>t, <3>1, <4>1, <4>2
      <4> QED  BY <2>0, <3>1, <3>2, <3>4, <4>3, ClosingQuiet
    <3>5. CASE t = Capture
      <4>1. CASE Clean /\ pc[1] \in {"close", "done"}
        <5>1. closed[1] /\ stop /\ items[1] = <<>>
          BY <1>c, <3>1, <3>5, <4>1 DEF Closing
        <5>2. Len(items'[1]) = 1 /\ \A h \in 2..4 : items'[h] = items[h]
          BY <1>t, <1>c, <3>1, <3>3, <3>5, <5>1
        <5>3. \A u \in Threads : pc'[u] = IF u = Capture THEN l ELSE pc[u]
          BY <1>t, <3>1, <3>5 DEF Goto
        <5>4. Clean'
          BY <3>1, <3>2, <4>1, <5>3 DEF Clean
        <5>5. /\ (spc = "callback" => stop)'
              /\ \A u \in Threads : pc'[u] \in {"stop", "close_all"} => aborted'
          BY <3>1, <3>2, <5>3 DEF Closing
        <5>6. /\ closed'[1] /\ ~stop' => pc'[Capture] \in {"join", "report", "done"}
              /\ \A h \in 2..4 : closed'[h] => pc'[h - 1] = "done"
          <6>1. \A h \in 2..4 : closed[h] => pc[h - 1] = "done" /\ h - 1 # Capture
            BY <1>c, <4>1 DEF Closing
          <6> QED  BY <1>c, <3>1, <5>1, <5>3, <6>1
        <5>7. /\ \A u \in Stages : pc'[u] \in {"close", "done"} => closed'[u]
              /\ \A h \in 2..4 : pc'[h] \in {"close", "done"} => items'[h] = <<>>
          BY <1>c, <3>1, <4>1, <5>2, <5>3 DEF Closing
        <5>8. pc'[Capture] # "insert" /\ Len(items'[1]) <= 1 /\ stop'
          <6>1. pc'[Capture] # "insert"
            BY <1>c, <3>2, <5>3
          <6>2. Len(items'[1]) <= 1
            BY <5>2
          <6>3. stop'
            BY <3>1, <5>1
          <6> QED  BY <6>1, <6>2, <6>3
        <5> QED  BY <5>4, <5>5, <5>6, <5>7, <5>8 DEF Closing
      <4>2. CASE ~(Clean /\ pc[1] \in {"close", "done"})
        <5>1. pc'[1] = pc[1]
          BY <1>t, <1>c, <3>1, <3>5 DEF Goto
        <5>2. \A h \in HandOffs : \/ items'[h] = items[h]
                                  \/ pc'[h] \notin {"close", "done"}
                                  \/ ~Clean
          BY <1>t, <1>c, <3>1, <3>5, <4>2, <5>1
        <5> QED  BY <2>0, <3>1, <3>2, <3>5, <5>2, ClosingQuiet
      <4> QED  BY <4>1, <4>2
    <3> QED  BY <3>4, <3>5
  <2>4. CASE PushRefuse(t)
    BY <2>0, <2>r, <2>4, ClosingQuiet DEF PushRefuse, abort_state
  <2>5. CASE PushWake(t)
    BY <2>0, <2>5, ClosingQuiet DEF PushWake, abort_state
  <2>6. CASE CountDrop(t)
    BY <2>0, <2>6, ClosingQuiet DEF CountDrop, abort_state
  <2> QED  BY <1>2, <2>1, <2>2, <2>3, <2>4, <2>5, <2>6 DEF PushAction
<1>3. ASSUME NEW t \in Stages, StageAction(t) PROVE Closing'
  <2>0. t \in Threads /\ t \in HandOffs /\ t # Capture
    BY <1>c
  <2>1. CASE StagePop(t)
    <3>1. \A h \in HandOffs : \/ items'[h] = items[h]
                              \/ pc'[h] \notin {"close", "done"}
                              \/ ~Clean
      BY <1>t, <2>0, <2>1 DEF StagePop, Goto
    <3> QED  BY <2>0, <2>1, <3>1, ClosingQuiet DEF StagePop, abort_state
  <2>2. CASE StageEnd(t)
    <3>1. \A u \in Threads : pc'[u] = IF u = t THEN "close" ELSE pc[u]
      BY <1>t, <2>2 DEF StageEnd, Goto
    <3>2. /\ UNCHANGED <<closed, stop, spc, aborted, items>>
          /\ pc[t] = "pop" /\ closed[t] /\ items[t] = <<>>
      BY <2>2 DEF StageEnd, abort_state
    <3>3. Clean' <=> Clean
      BY <3>1, <3>2 DEF Clean
    <3>4. items[1] = <<>> => Len(items[1]) = 0
      OBVIOUS
    <3> QED  BY <1>c, <2>0, <3>1, <3>2, <3>3, <3>4 DEF Closing
  <2>3. CASE StageCheckAborted(t)
    BY <2>0, <2>3, ClosingQuiet DEF StageCheckAborted, abort_state
  <2> QED  BY <1>3, <2>1, <2>2, <2>3 DEF StageAction
<1>4. ASSUME NEW t \in 1..3, StageBody(t) PROVE Closing'
  BY <1>c, <1>4, ClosingQuiet DEF StageBody, abort_state
<1>5. CASE SinkConsume
  BY <1>c, <1>5, ClosingQuiet DEF SinkConsume, abort_state
<1>6. CASE SinkCount
  BY <1>c, <1>6, ClosingQuiet DEF SinkCount, abort_state
<1>7. ASSUME NEW t \in Threads, LeaveAction(t) PROVE Closing'
  <2>1. CASE CloseOutput(t)
    <3>1. \A u \in Threads :
            pc'[u] = IF u = t THEN IF t = Capture THEN "join" ELSE "done"
                              ELSE pc[u]
      BY <1>t, <2>1 DEF CloseOutput, Goto
    <3>2. /\ UNCHANGED <<stop, spc, aborted, items>>
          /\ pc[t] = "close"
          /\ \A h \in HandOffs : closed'[h] <=> closed[h] \/ h = t + 1
      <4>1. UNCHANGED <<stop, spc, aborted, items>> /\ pc[t] = "close"
        BY <2>1 DEF CloseOutput, abort_state
      <4>2. \A h \in HandOffs : closed'[h] = (closed[h] \/ (HasOutput(t) /\ h = t + 1))
        BY <2>1 DEF CloseOutput
      <4>3. \A h \in HandOffs : h = t + 1 => HasOutput(t)
        BY <1>c DEF HasOutput
      <4> QED  BY <1>t, <4>1, <4>2, <4>3
    <3>3. Clean' <=> Clean
      BY <3>1, <3>2 DEF Clean
    <3>4. Clean' =>
            /\ closed'[1] /\ ~stop' => pc'[Capture] \in {"join", "report", "done"}
            /\ \A h \in 2..4 : closed'[h] => pc'[h - 1] = "done"
            /\ \A u \in Stages : pc'[u] \in {"close", "done"} => closed'[u]
      BY <1>c, <3>1, <3>2, <3>3 DEF Closing
    <3>5. Clean' =>
            /\ \A h \in 2..4 : pc'[h] \in {"close", "done"} => items'[h] = <<>>
            /\ pc'[1] \in {"close", "done"} =>
                 /\ Len(items'[1]) <= 1
                 /\ pc'[Capture] = "insert" => items'[1] = <<>>
                 /\ ~stop' => items'[1] = <<>>
      BY <1>c, <3>1, <3>2, <3>3 DEF Closing
    <3>6. /\ (spc = "callback" => stop)'
          /\ \A u \in Threads : pc'[u] \in {"stop", "close_all"} => aborted'
      BY <3>1, <3>2 DEF Closing
    <3> QED  BY <3>4, <3>5, <3>6 DEF Closing
  <2>2. CASE Throw(t)
    BY <1>c, <2>2, ClosingQuiet DEF Throw, abort_state
  <2>3. CASE AbortNoteError(t)
    <3>1. \A u \in Threads : pc'[u] = IF u = t THEN "flag" ELSE pc[u]
      BY <1>t, <2>3 DEF AbortNoteError, Goto
    <3>2. UNCHANGED <<stop, spc, aborted>> /\ ~Clean'
      BY <2>3, <3>1 DEF AbortNoteError, Clean
    <3> QED  BY <3>1, <3>2 DEF Closing
  <2>4. CASE AbortFlag(t)
    <3>1. UNCHANGED <<stop, spc>> /\ aborted' /\ ~Clean'
      BY <2>4 DEF AbortFlag, Clean
    <3> QED  BY <3>1 DEF Closing
  <2>5. CASE AbortStop(t)
    <3>1. aborted /\ aborted' = aborted /\ stop' /\ ~Clean'
      BY <2>5 DEF AbortStop, Closing, Clean, abort_state
    <3> QED  BY <3>1 DEF Closing
  <2>6. CASE AbortClose(t)
    <3>1. aborted /\ UNCHANGED <<aborted, stop, spc>> /\ ~Clean'
      BY <2>6 DEF AbortClose, Closing, Clean
    <3> QED  BY <3>1 DEF Closing
  <2> QED  BY <1>7, <2>1, <2>2, <2>3, <2>4, <2>5, <2>6 DEF LeaveAction, AbortStep
<1>8. CASE RequestStop
  <2>1. UNCHANGED <<pc, items, closed, aborted>> /\ stop'
    BY <1>8 DEF RequestStop, abort_state
  <2>2. Clean' <=> Clean
    BY <2>1 DEF Clean
  <2> QED  BY <2>1, <2>2 DEF Closing
<1>9. CASE StopCallback
  <2>1. UNCHANGED <<pc, items, aborted, stop>> /\ stop
    BY <1>9 DEF StopCallback, abort_state, Closing
  <2>2. \A h \in HandOffs : closed'[h] <=> closed[h] \/ h = 1
    BY <1>t, <1>9 DEF StopCallback
  <2>3. Clean' <=> Clean
    BY <2>1 DEF Clean
  <2> QED  BY <1>c, <2>1, <2>2, <2>3 DEF Closing
<1>10. CASE UNCHANGED vars
  BY <1>10 DEF vars, Closing, Clean
<1> QED  BY <1>1, <1>2, <1>3, <1>4, <1>5, <1>6, <1>7, <1>8, <1>9, <1>10, Actions

-----------------------------------------------------------------------------
(* The account of the frames that were captured.                             *)

\* The account after a step of thread t, from what the step changes.
LEMMA AccountOne ==
  ASSUME TypeOK, Account, Queued' \in Nat,
         captured' \in Nat, dropped' \in Nat, completed' \in Nat,
         NEW t \in Threads, NEW l, Goto(t, l),
         pc[t] \notin {"abort", "flag", "done"},
         aborted' = aborted,
         \A u \in Threads : u # t => hand'[u] = hand[u] /\ result'[u] = result[u],
         NEW v \in Int, NEW w \in Int,
         v = WeightOf(t, pc[t], hand[t], result[t]),
         w = WeightOf(t, l, hand'[t], result'[t]),
         Clean => captured' - dropped' - completed' - Queued' - w
                  = captured - dropped - completed - Queued - v
  PROVE  Account'
<1>t. /\ pc \in [Threads -> Locations]
      /\ captured \in Nat /\ dropped \in Nat /\ completed \in Nat
      /\ Queued \in Nat
  <2>1. /\ items \in [HandOffs -> Seq(Numbers)] /\ pc \in [Threads -> Locations]
        /\ captured \in Nat /\ dropped \in Nat /\ completed \in Nat
    BY DEF TypeOK
  <2>2. \A h \in HandOffs : Len(items[h]) \in Nat
    BY <2>1
  <2> DEFINE q1 == Len(items[1])
             q2 == Len(items[2])
             q3 == Len(items[3])
             q4 == Len(items[4])
  <2>3. q1 \in Nat /\ q2 \in Nat /\ q3 \in Nat /\ q4 \in Nat
    <3>1. 1 \in HandOffs /\ 2 \in HandOffs /\ 3 \in HandOffs /\ 4 \in HandOffs
      BY DEF HandOffs
    <3> QED  BY <2>2, <3>1
  <2>4. Queued = q1 + q2 + q3 + q4
    BY DEF Queued
  <2> HIDE DEF q1, q2, q3, q4
  <2>5. Queued \in Nat
    BY <2>3, <2>4
  <2> QED  BY <2>1, <2>5
<1>g. \A u \in Threads : pc'[u] = IF u = t THEN l ELSE pc[u]
  BY <1>t DEF Goto
<1>c. Capture \in Threads
  BY DEF Capture, Threads
<1>1. SUFFICES ASSUME Clean', pc'[Capture] # "done"
               PROVE  captured' = dropped' + completed' + Queued' + Sum(Weight)'
  BY DEF Account
<1>2. Clean
  BY <1>1, <1>g DEF Clean
<1>3. pc[Capture] # "done"
  BY <1>1, <1>g, <1>c
<1>4. captured = dropped + completed + Queued + Sum(Weight)
  BY <1>2, <1>3 DEF Account
<1>5. \A u \in Threads : Weight[u] \in Int /\ Weight'[u] \in Int
  BY DEF Weight, WeightOf
<1>6. Weight[t] = v /\ Weight'[t] = w
  BY <1>g DEF Weight
<1>7. \A u \in Threads : u # t => Weight'[u] = Weight[u]
  BY <1>g DEF Weight
<1>8. Sum(Weight') = Sum(Weight) - v + w /\ Sum(Weight) \in Int
  <2>1. /\ Sum(Weight') = Sum(Weight) - Weight[t] + Weight'[t]
        /\ Sum(Weight) \in Int
    BY <1>5, <1>7, SumOne
  <2> QED  BY <1>6, <2>1
<1>9. Sum(Weight)' = Sum(Weight')
  BY DEF Sum
<1> QED  BY <1>t, <1>2, <1>4, <1>8, <1>9

\* A step that counts nothing and changes no hand-off.
LEMMA AccountSame ==
  ASSUME TypeOK, Account, UNCHANGED <<items, captured, dropped, completed>>,
         NEW t \in Threads, NEW l, Goto(t, l),
         pc[t] \notin {"abort", "flag", "done"},
         aborted' = aborted,
         \A u \in Threads : u # t => hand'[u] = hand[u] /\ result'[u] = result[u],
         Clean => WeightOf(t, l, hand'[t], result'[t])
                  = WeightOf(t, pc[t], hand[t], result[t])
  PROVE  Account'
<1>1. Queued' = Queued /\ Queued \in Nat
  BY DEF Queued, TypeOK, HandOffs
<1> DEFINE v == WeightOf(t, pc[t], hand[t], result[t])
           w == WeightOf(t, l, hand'[t], result'[t])
<1>2. v \in Int /\ w \in Int
  BY DEF WeightOf
<1>3. captured \in Nat /\ dropped \in Nat /\ completed \in Nat
  BY DEF TypeOK
<1>4. Clean => w = v
  OBVIOUS
<1> HIDE DEF v, w
<1>5. Clean => captured' - dropped' - completed' - Queued' - w
               = captured - dropped - completed - Queued - v
  BY <1>1, <1>2, <1>3, <1>4
<1> QED  BY <1>1, <1>2, <1>3, <1>5, AccountOne DEF v, w

\* What an insertion pushes out of a mailbox is one frame, and is reported.
LEMMA DisplacedFacts ==
  ASSUME NEW p, NEW q \in Seq(Numbers), p = "latest" => Len(q) <= 1
  PROVE  /\ InsertResult(p, q) = "accepted" => Len(Displaced(p, q)) = 0
         /\ InsertResult(p, q) # "accepted" =>
              /\ InsertResult(p, q) = "replaced_stale"
              /\ Len(Displaced(p, q)) = 1
<1>1. CASE p = "latest"
  <2>1. q # <<>> => Len(q) = 1
    <3>1. Len(q) \in Nat /\ (Len(q) = 0 => q = <<>>)
      BY EmptySeq
    <3> DEFINE n == Len(q)
    <3>2. n <= 1 /\ n \in Nat /\ (q # <<>> => n # 0)
      BY <1>1, <3>1
    <3> HIDE DEF n
    <3>3. q # <<>> => n = 1
      BY <3>2
    <3> QED  BY <3>3 DEF n
  <2> QED  BY <1>1, <2>1 DEF InsertResult, Displaced
<1>2. CASE p # "latest"
  BY <1>2 DEF InsertResult, Displaced
<1> QED  BY <1>1, <1>2

\* Every frame captured is delivered, counted as dropped or still on its way.
LEMMA AccountStep ==
  ASSUME TypeOK, HandWhere, QueueBounds, Closing, Account, [Next]_vars
  PROVE  Account'
<1>t. /\ pc \in [Threads -> Locations] /\ aborted \in BOOLEAN
      /\ items \in [HandOffs -> Seq(Numbers)]
      /\ hand \in [Threads -> Numbers \cup {None, Blank}]
      /\ result \in [Threads -> HandOffResult]
      /\ captured \in Nat /\ dropped \in Nat /\ completed \in Nat
  BY DEF TypeOK
<1>q. Queued \in Nat
  BY <1>t DEF Queued, HandOffs
<1>w. \A t \in Threads : Here(t, pc[t], hand[t])
  BY DEF HandWhere
<1>c. /\ Capture \in Threads /\ Sink \in Threads /\ Capture # Sink
      /\ Capture = 0 /\ Sink = 4
  BY DEF Threads, Capture, Sink
<1>n. None \notin Numbers /\ Blank \notin Numbers /\ Blank # None
  BY NumbersAreFrames
<1>1. ASSUME CaptureAction PROVE Account'
  <2>1. CASE CaptureLoop
    BY <1>c, <2>1, AccountSame DEF CaptureLoop, abort_state, counters, WeightOf
  <2>2. CASE CaptureAcquire
    BY <1>t, <1>c, <2>2, AccountSame
    DEF CaptureAcquire, abort_state, counters, WeightOf
  <2>3. CASE CaptureRead
    BY <1>t, <1>c, <2>3, AccountSame DEF CaptureRead, abort_state, counters,
                                         WeightOf
  <2>4. CASE CaptureEndOfSource
    BY <1>t, <1>c, <2>4, AccountSame
    DEF CaptureEndOfSource, Release, abort_state, counters, WeightOf
  <2>5. CASE CaptureCount
    <3> DEFINE l == IF result[Capture] = "accepted" THEN "loop" ELSE "drop"
               v == WeightOf(Capture, pc[Capture], hand[Capture], result[Capture])
               w == WeightOf(Capture, l, hand'[Capture], result'[Capture])
    <3>1. /\ Goto(Capture, l) /\ pc[Capture] = "count"
          /\ captured' = captured + 1
          /\ UNCHANGED <<items, hand, result, dropped, completed, aborted>>
      BY <2>5 DEF CaptureCount, abort_state
    <3>2. v \in Int /\ w \in Int /\ w = v + 1
      BY <3>1 DEF WeightOf
    <3>3. Queued' = Queued
      BY <3>1 DEF Queued
    <3> HIDE DEF l, v, w
    <3>4. captured' - dropped' - completed' - Queued' - w
          = captured - dropped - completed - Queued - v
      BY <1>t, <1>q, <3>1, <3>2, <3>3
    <3>5. captured' \in Nat /\ dropped' \in Nat /\ completed' \in Nat
      BY <1>t, <3>1
    <3> QED  BY <1>q, <1>c, <3>1, <3>2, <3>3, <3>4, <3>5, AccountOne DEF v, w
  <2>6. CASE Join
    BY <1>c, <2>6, AccountSame DEF Join, abort_state, counters, WeightOf
  <2>7. CASE Return
    <3>1. pc'[Capture] = "done"
      BY <1>t, <1>c, <2>7 DEF Return, Goto
    <3> QED  BY <3>1 DEF Account
  <2> QED  BY <1>1, <2>1, <2>2, <2>3, <2>4, <2>5, <2>6, <2>7 DEF CaptureAction
<1>2. ASSUME NEW t \in 0..3, PushAction(t) PROVE Account'
  <2>0. t \in Threads /\ t + 1 \in HandOffs /\ t # Sink
    BY <1>c DEF Threads, HandOffs
  <2>1. Clean /\ closed[t + 1] /\ pc[t] # "done" => t = Capture
    BY <1>c DEF Closing
  <2>e. ASSUME Release(t)
        PROVE  hand'[t] = None /\ \A u \in Threads : u # t => hand'[u] = hand[u]
    BY <1>t, <2>0, <2>e DEF Release
  <2>f. ASSUME NEW r, result' = [result EXCEPT ![t] = r]
        PROVE  result'[t] = r /\ \A u \in Threads : u # t => result'[u] = result[u]
    BY <1>t, <2>0, <2>f
  <2>2. CASE PushCheckClosed(t)
    <3>1. CASE closed[t + 1]
      <4>1. /\ Release(t) /\ pc[t] = "push" /\ Goto(t, Returned(t, "closed"))
            /\ result' = [result EXCEPT ![t] = "closed"]
            /\ UNCHANGED <<items, captured, dropped, completed, aborted>>
        BY <2>2, <3>1 DEF PushCheckClosed, abort_state, counters
      <4>2. Clean => WeightOf(t, Returned(t, "closed"), hand'[t], result'[t])
                     = WeightOf(t, pc[t], hand[t], result[t])
        BY <2>1, <3>1, <4>1 DEF WeightOf, Returned
      <4> QED  BY <2>0, <2>e, <2>f, <4>1, <4>2, AccountSame
    <3>2. CASE ~closed[t + 1]
      <4>1. hand[t] \in Numbers
        BY <1>w, <2>0, <2>2, HereFacts DEF PushCheckClosed, Pushing
      <4> QED  BY <1>n, <2>0, <2>2, <3>2, <4>1, AccountSame
               DEF PushCheckClosed, abort_state, counters, WeightOf
    <3> QED  BY <3>1, <3>2
  <2>3. CASE PublishCheckClosed(t)
    <3>1. CASE closed[t + 1]
      <4> DEFINE r == "replaced_stale"
      <4>1. /\ Release(t) /\ pc[t] = "publish" /\ Goto(t, Returned(t, r))
            /\ result' = [result EXCEPT ![t] = r]
            /\ UNCHANGED <<items, captured, dropped, completed, aborted>>
        BY <2>3, <3>1 DEF PublishCheckClosed, abort_state, counters
      <4>2. Clean => WeightOf(t, Returned(t, r), hand'[t], result'[t])
                     = WeightOf(t, pc[t], hand[t], result[t])
        BY <2>1, <2>f, <3>1, <4>1 DEF WeightOf, Returned, is_drop
      <4> QED  BY <2>0, <2>e, <2>f, <4>1, <4>2, AccountSame
    <3>2. CASE ~closed[t + 1]
      <4>1. hand[t] \in Numbers
        BY <1>w, <2>0, <2>3, HereFacts DEF PublishCheckClosed, Pushing
      <4> QED  BY <1>n, <2>0, <2>3, <3>2, <4>1, AccountSame
               DEF PublishCheckClosed, abort_state, counters, WeightOf
    <3> QED  BY <3>1, <3>2
  <2>4. CASE PushInsert(t)
    <3> DEFINE p == PolicyOf(t + 1)
               q == items[t + 1]
               i == Inserted(p, q, hand[t])
               r == InsertResult(p, q)
               l == Returned(t, r)
               v == WeightOf(t, pc[t], hand[t], result[t])
               w == WeightOf(t, l, hand'[t], result'[t])
               d == Len(Displaced(p, q))
    <3>1. /\ Goto(t, l) /\ pc[t] = "insert"
          /\ items' = [items EXCEPT ![t + 1] = i]
          /\ hand' = [hand EXCEPT ![t] = None]
          /\ result' = [result EXCEPT ![t] = r]
          /\ UNCHANGED <<captured, dropped, completed, aborted>>
      BY <2>4 DEF PushInsert, abort_state, counters
    <3>2. hand[t] \in Numbers /\ q \in Seq(Numbers)
      BY <1>t, <1>w, <2>0, <3>1, HereFacts DEF Pushing
    <3>3. hand'[t] = None /\ \A u \in Threads : u # t => hand'[u] = hand[u]
      BY <1>t, <2>0, <3>1
    <3>4. result'[t] = r /\ \A u \in Threads : u # t => result'[u] = result[u]
      BY <2>f, <3>1
    <3>5. p = "latest" => Len(q) <= 1
      BY <2>0 DEF QueueBounds, Room
    <3>6. /\ r = "accepted" => d = 0
          /\ r # "accepted" => r = "replaced_stale" /\ d = 1
      BY <3>2, <3>5, DisplacedFacts
    <3>7. w = v + d - 1 /\ v \in Int /\ w \in Int /\ d \in Int
      <4>1. CASE r = "accepted"
        BY <1>n, <3>1, <3>2, <3>3, <3>4, <3>6, <4>1 DEF WeightOf, Returned, is_drop
      <4>2. CASE r # "accepted"
        <5>1. r = "replaced_stale" /\ d = 1
          BY <3>6, <4>2
        <5>2. l = IF t = Capture THEN "count" ELSE "drop"
          BY <5>1 DEF Returned, is_drop
        <5>3. v = IF t = Capture THEN 0 ELSE 1
          BY <1>n, <3>1, <3>2 DEF WeightOf
        <5>4. w = IF t = Capture THEN 0 ELSE 1
          BY <3>4, <5>1, <5>2 DEF WeightOf
        <5> HIDE DEF v, w, d
        <5> QED  BY <5>1, <5>3, <5>4
      <4> QED  BY <4>1, <4>2
    <3>8. i \in Seq(Numbers) /\ Len(i) = Len(q) + 1 - d /\ Len(q) \in Nat
      BY <3>2, InsertFacts
    <3>9. Queued' = Queued - Len(q) + Len(i)
      BY <1>t, <2>0, <3>1, <3>8, QueuedOne
    <3> HIDE DEF p, q, i, r, l, v, w, d
    <3>10. Queued' = Queued + 1 - d /\ Queued' \in Nat
      <4>1. Queued' = Queued + 1 - d
        BY <1>q, <3>7, <3>8, <3>9
      <4>2. d \in {0, 1}
        BY <3>6
      <4> QED  BY <1>q, <4>1, <4>2
    <3>11. captured' - dropped' - completed' - Queued' - w
           = captured - dropped - completed - Queued - v
      BY <1>t, <1>q, <3>1, <3>7, <3>10
    <3>12. captured' \in Nat /\ dropped' \in Nat /\ completed' \in Nat
      BY <1>t, <3>1
    <3> QED  BY <2>0, <3>1, <3>3, <3>4, <3>7, <3>10, <3>11, <3>12, AccountOne
             DEF v, w
  <2>5. CASE PushRefuse(t)
    <3>0. hand[t] \in Numbers
      BY <1>w, <2>0, <2>5, HereFacts DEF PushRefuse, Pushing
    <3>1. CASE PolicyOf(t + 1) = "drop_newest"
      <4> DEFINE r == "dropped_incoming"
      <4>1. /\ Release(t) /\ pc[t] = "insert" /\ Goto(t, Returned(t, r))
            /\ result' = [result EXCEPT ![t] = r]
            /\ UNCHANGED <<items, captured, dropped, completed, aborted>>
        BY <2>5, <3>1 DEF PushRefuse, abort_state, counters
      <4>2. WeightOf(t, Returned(t, r), hand'[t], result'[t])
            = WeightOf(t, pc[t], hand[t], result[t])
        BY <1>n, <2>f, <3>0, <4>1 DEF WeightOf, Returned, is_drop
      <4> QED  BY <2>0, <2>e, <2>f, <4>1, <4>2, AccountSame
    <3>2. CASE PolicyOf(t + 1) # "drop_newest"
      BY <1>n, <2>0, <2>5, <3>0, <3>2, AccountSame
      DEF PushRefuse, abort_state, counters, WeightOf
    <3> QED  BY <3>1, <3>2
  <2>6. CASE PushWake(t)
    <3>1. hand[t] \in Numbers
      BY <1>w, <2>0, <2>6, HereFacts DEF PushWake, Pushing
    <3> QED  BY <1>n, <2>0, <2>6, <3>1, AccountSame
             DEF PushWake, abort_state, counters, WeightOf
  <2>7. CASE CountDrop(t)
    <3> DEFINE l == IF t = Capture THEN "loop" ELSE "pop"
               v == WeightOf(t, pc[t], hand[t], result[t])
               w == WeightOf(t, l, hand'[t], result'[t])
    <3>1. /\ Goto(t, l) /\ pc[t] = "drop"
          /\ dropped' = dropped + 1
          /\ UNCHANGED <<items, hand, result, captured, completed, aborted>>
      BY <2>7 DEF CountDrop, abort_state
    <3>2. hand[t] = None
      BY <1>w, <2>0, <3>1, HereFacts
    <3>3. v = 1 /\ w = 0
      BY <3>1, <3>2 DEF WeightOf
    <3>4. Queued' = Queued
      BY <3>1 DEF Queued
    <3> HIDE DEF l, v, w
    <3>5. captured' - dropped' - completed' - Queued' - w
          = captured - dropped - completed - Queued - v
      BY <1>t, <1>q, <3>1, <3>3, <3>4
    <3>6. captured' \in Nat /\ dropped' \in Nat /\ completed' \in Nat
      BY <1>t, <3>1
    <3> QED  BY <1>q, <2>0, <3>1, <3>3, <3>4, <3>5, <3>6, AccountOne DEF v, w
  <2> QED  BY <1>2, <2>2, <2>3, <2>4, <2>5, <2>6, <2>7 DEF PushAction
<1>3. ASSUME NEW t \in Stages, StageAction(t) PROVE Account'
  <2>0. t \in Threads /\ t \in HandOffs /\ t # Capture
    BY <1>c DEF Threads, HandOffs, Stages
  <2>1. CASE StagePop(t)
    <3> DEFINE v == WeightOf(t, pc[t], hand[t], result[t])
               w == WeightOf(t, "check", hand'[t], result'[t])
    <3>1. /\ Goto(t, "check") /\ pc[t] = "pop"
          /\ items' = [items EXCEPT ![t] = Tail(items[t])]
          /\ hand' = [hand EXCEPT ![t] = Head(items[t])]
          /\ UNCHANGED <<result, captured, dropped, completed, aborted>>
          /\ items[t] # <<>> /\ items[t] \in Seq(Numbers)
      BY <1>t, <2>0, <2>1 DEF StagePop, abort_state, counters
    <3>2. /\ Tail(items[t]) \in Seq(Numbers) /\ Head(items[t]) \in Numbers
          /\ Len(Tail(items[t])) = Len(items[t]) - 1
          /\ Len(items[t]) \in Nat /\ Len(Tail(items[t])) \in Nat
      BY <3>1
    <3>3. /\ hand'[t] = Head(items[t])
          /\ \A u \in Threads : u # t => hand'[u] = hand[u]
      BY <1>t, <2>0, <3>1
    <3>4. hand[t] = None
      BY <1>w, <2>0, <3>1, HereFacts
    <3>5. v = 0 /\ w = 1
      BY <1>n, <2>0, <3>1, <3>2, <3>3, <3>4 DEF WeightOf
    <3>6. Queued' = Queued - Len(items[t]) + Len(Tail(items[t]))
      BY <1>t, <2>0, <3>1, <3>2, QueuedOne
    <3>7. Queued' = Queued - 1
      BY <1>q, <3>2, <3>6
    <3>8. Queued' \in Nat
      <4>1. items' \in [HandOffs -> Seq(Numbers)]
        BY <1>t, <2>0, <3>1, <3>2
      <4> QED  BY <4>1 DEF Queued, HandOffs
    <3> HIDE DEF v, w
    <3>9. captured' - dropped' - completed' - Queued' - w
          = captured - dropped - completed - Queued - v
      BY <1>t, <1>q, <3>1, <3>5, <3>7
    <3>10. captured' \in Nat /\ dropped' \in Nat /\ completed' \in Nat
      BY <1>t, <3>1
    <3>11. v \in Int /\ w \in Int
      BY <3>5
    <3>12. \A u \in Threads : u # t => hand'[u] = hand[u] /\ result'[u] = result[u]
      BY <3>1, <3>3
    <3>13. pc[t] \notin {"abort", "flag", "done"}
      BY <3>1
    <3>14. Goto(t, "check") /\ aborted' = aborted
      BY <3>1
    <3> QED  BY <2>0, <3>8, <3>9, <3>10, <3>11, <3>12, <3>13, <3>14, AccountOne
             DEF v, w
  <2>2. CASE StageEnd(t)
    BY <2>0, <2>2, AccountSame DEF StageEnd, abort_state, counters, WeightOf
  <2>3. CASE StageCheckAborted(t)
    <3>1. CASE aborted
      <4>1. /\ Release(t) /\ Goto(t, "pop") /\ pc[t] = "check"
            /\ UNCHANGED <<items, result, captured, dropped, completed, aborted>>
        BY <2>3, <3>1 DEF StageCheckAborted, abort_state, counters
      <4>2. \A u \in Threads : u # t => hand'[u] = hand[u]
        BY <1>t, <4>1 DEF Release
      <4>3. ~Clean
        BY <3>1 DEF Clean
      <4> QED  BY <2>0, <4>1, <4>2, <4>3, AccountSame
    <3>2. CASE ~aborted
      BY <2>0, <2>3, <3>2, AccountSame
      DEF StageCheckAborted, abort_state, counters, WeightOf
    <3> QED  BY <3>1, <3>2
  <2> QED  BY <1>3, <2>1, <2>2, <2>3 DEF StageAction
<1>4. ASSUME NEW t \in 1..3, StageBody(t) PROVE Account'
  <2>1. t \in Threads /\ t # Capture
    BY <1>c DEF Threads
  <2> QED  BY <1>4, <2>1, AccountSame DEF StageBody, abort_state, counters, WeightOf
<1>5. CASE SinkConsume
  BY <1>c, <1>5, AccountSame DEF SinkConsume, abort_state, counters, WeightOf
<1>6. CASE SinkCount
  <2> DEFINE v == WeightOf(Sink, pc[Sink], hand[Sink], result[Sink])
             w == WeightOf(Sink, "pop", hand'[Sink], result'[Sink])
  <2>1. /\ Goto(Sink, "pop") /\ pc[Sink] = "count"
        /\ completed' = completed + 1
        /\ hand' = [hand EXCEPT ![Sink] = None]
        /\ UNCHANGED <<items, result, captured, dropped, aborted>>
    BY <1>6 DEF SinkCount, Release, abort_state
  <2>2. hand[Sink] \in Numbers
    BY <1>c, <1>w, <2>1, HereFacts
  <2>3. /\ hand'[Sink] = None
        /\ \A u \in Threads : u # Sink => hand'[u] = hand[u]
    BY <1>t, <1>c, <2>1
  <2>4. v = 1 /\ w = 0
    BY <1>n, <1>c, <2>1, <2>2, <2>3 DEF WeightOf
  <2>5. Queued' = Queued
    BY <2>1 DEF Queued
  <2> HIDE DEF v, w
  <2>6. captured' - dropped' - completed' - Queued' - w
        = captured - dropped - completed - Queued - v
    BY <1>t, <1>q, <2>1, <2>4, <2>5
  <2>7. captured' \in Nat /\ dropped' \in Nat /\ completed' \in Nat
    BY <1>t, <2>1
  <2> QED  BY <1>q, <1>c, <2>1, <2>3, <2>4, <2>5, <2>6, <2>7, AccountOne DEF v, w
<1>7. ASSUME NEW t \in Threads, LeaveAction(t) PROVE Account'
  <2>1. CASE CloseOutput(t)
    BY <2>1, AccountSame DEF CloseOutput, abort_state, counters, WeightOf
  <2>2. CASE ~CloseOutput(t)
    <3>1. ~Clean'
      BY <1>t, <1>7, <2>2 DEF LeaveAction, Throw, AbortStep, AbortNoteError,
         AbortFlag, AbortStop, AbortClose, Goto, Clean, Closing, abort_state
    <3> QED  BY <3>1 DEF Account
  <2> QED  BY <2>1, <2>2
<1>8. CASE RequestStop \/ StopCallback \/ UNCHANGED vars
  <2>1. UNCHANGED <<pc, hand, result, items, captured, dropped, completed, aborted>>
    BY <1>8 DEF RequestStop, StopCallback, vars, counters, abort_state
  <2>2. (Clean' <=> Clean) /\ Weight' = Weight /\ Queued' = Queued
    BY <2>1 DEF Clean, Weight, Queued
  <2>3. Sum(Weight)' = Sum(Weight)
    BY <2>2 DEF Sum
  <2> QED  BY <2>1, <2>2, <2>3 DEF Account
<1> QED  BY <1>1, <1>2, <1>3, <1>4, <1>5, <1>6, <1>7, <1>8, Actions

-----------------------------------------------------------------------------
(* The stages keep the capture order.                                        *)

\* A step that puts no frame into a hand-off, hands none out and gives the
\* sinks none.
LEMMA OrderKept ==
  ASSUME Ordered,
         UNCHANGED <<delivered, sequence>>,
         \A h \in HandOffs : items'[h] = items[h] \/ Len(items'[h]) = 0,
         \A t \in Threads : hand'[t] \in Numbers => hand'[t] = hand[t],
         hand'[Sink] \in Numbers => (Counting' <=> Counting),
         Counting' => Counting /\ hand'[Sink] = hand[Sink]
  PROVE  Ordered'
<1>h. \A h \in HandOffs : \A i \in 1..Len(items'[h]) :
        i \in 1..Len(items[h]) /\ items'[h] = items[h]
  OBVIOUS
<1>1. OrderDelivered'
  BY <1>h DEF Ordered, OrderDelivered
<1>2. OrderItems'
  BY <1>h DEF Ordered, OrderItems
<1>3. OrderHands'
  BY DEF Ordered, OrderHands
<1>4. OrderBetween'
  BY <1>h DEF Ordered, OrderBetween
<1> QED  BY <1>1, <1>2, <1>3, <1>4 DEF Ordered

\* An insertion leaves a hand-off in order: the frame is newer than its
\* contents, and everything else there was there before.
LEMMA InsertOrder ==
  ASSUME NEW p, NEW q \in Seq(Numbers), NEW v \in Numbers,
         \A i, j \in 1..Len(q) : i < j => q[i] < q[j],
         \A i \in 1..Len(q) : q[i] < v
  PROVE  LET r == Inserted(p, q, v)
         IN  /\ \A i \in 1..Len(r) : r[i] = v \/ (i \in 1..Len(q) /\ r[i] = q[i])
             /\ \A i, j \in 1..Len(r) : i < j => r[i] < r[j]
<1>1. CASE p = "latest"
  <2>1. Inserted(p, q, v) = <<v>> /\ Len(<<v>>) = 1 /\ <<v>>[1] = v
    BY <1>1 DEF Inserted
  <2>2. \A i \in 1..1 : i = 1
    OBVIOUS
  <2> QED  BY <2>1, <2>2
<1>2. CASE p # "latest"
  <2> DEFINE r == Append(q, v)
             n == Len(q)
  <2>1. /\ Inserted(p, q, v) = r
        /\ Len(r) = n + 1 /\ n \in Nat
        /\ \A i \in 1..n : r[i] = q[i]
        /\ r[n + 1] = v
    BY <1>2 DEF Inserted
  <2>2. \A i \in 1..(n + 1) : i \in 1..n \/ i = n + 1
    BY <2>1
  <2>3. \A i \in 1..(n + 1), j \in 1..(n + 1) : i < j => i \in 1..n
    BY <2>1
  <2> HIDE DEF r
  <2>4. \A i \in 1..(n + 1) : r[i] = v \/ (i \in 1..n /\ r[i] = q[i])
    BY <2>1, <2>2
  <2>5. ASSUME NEW i \in 1..(n + 1), NEW j \in 1..(n + 1), i < j
        PROVE  r[i] < r[j]
    <3>1. i \in 1..n /\ r[i] = q[i]
      BY <2>1, <2>3, <2>5
    <3>2. CASE j \in 1..n
      BY <2>1, <2>5, <3>1, <3>2
    <3>3. CASE j = n + 1
      BY <2>1, <3>1, <3>3
    <3> QED  BY <2>2, <3>2, <3>3
  <2> QED  BY <2>1, <2>4, <2>5
<1> QED  BY <1>1, <1>2

\* The frames keep their order through every step.
LEMMA OrderStep ==
  ASSUME TypeOK, HandWhere, Ordered, [Next]_vars
  PROVE  Ordered'
<1>t. /\ pc \in [Threads -> Locations]
      /\ items \in [HandOffs -> Seq(Numbers)]
      /\ hand \in [Threads -> Numbers \cup {None, Blank}]
      /\ delivered \in Seq(Numbers)
      /\ sequence \in Nat
  BY DEF TypeOK
<1>w. \A t \in Threads : Here(t, pc[t], hand[t])
  BY DEF HandWhere
<1>c. /\ Capture \in Threads /\ Sink \in Threads /\ Capture # Sink
      /\ Capture = 0 /\ Sink = 4 /\ Threads = 0..4 /\ HandOffs = 1..4
  BY DEF Threads, Capture, Sink, HandOffs
<1>n. None \notin Numbers /\ Blank \notin Numbers /\ Numbers \subseteq Int
  BY NumbersAreFrames DEF Numbers
<1>e. /\ \A i \in 1..Len(delivered) : delivered[i] \in Int
      /\ \A h \in HandOffs : \A i \in 1..Len(items[h]) : items[h][i] \in Int
  <2>1. \A i \in 1..Len(delivered) : delivered[i] \in Numbers
    BY <1>t
  <2>2. ASSUME NEW h \in HandOffs, NEW i \in 1..Len(items[h])
        PROVE  items[h][i] \in Numbers
    <3>1. items[h] \in Seq(Numbers)
      BY <1>t
    <3> QED  BY <3>1
  <2> QED  BY <1>n, <2>1, <2>2
<1>o. OrderDelivered /\ OrderItems /\ OrderHands /\ OrderBetween
  BY DEF Ordered
<1>1. ASSUME NEW t \in 0..3, PushInsert(t) PROVE Ordered'
  <2> DEFINE q == items[t + 1]
             v == hand[t]
             r == Inserted(PolicyOf(t + 1), q, v)
  <2>1. t \in Threads /\ t + 1 \in HandOffs /\ t # Sink
    BY <1>c
  <2>2. v \in Numbers /\ q \in Seq(Numbers)
    BY <1>t, <1>w, <1>1, <2>1, HereFacts DEF PushInsert, Pushing
  <2>3. /\ \A h \in HandOffs : items'[h] = IF h = t + 1 THEN r ELSE items[h]
        /\ \A u \in Threads : hand'[u] = IF u = t THEN None ELSE hand[u]
        /\ UNCHANGED <<delivered, sequence>>
    BY <1>t, <1>1 DEF PushInsert
  <2>4. Counting' <=> Counting
    BY <1>t, <1>1, <2>1, OtherThread DEF PushInsert
  <2>5. \A i \in 1..Len(q) : q[i] < v
    BY <1>c, <1>o, <2>1, <2>2 DEF OrderBetween
  <2>6. \A i, j \in 1..Len(q) : i < j => q[i] < q[j]
    BY <1>o, <2>1 DEF OrderItems
  <2>7. /\ \A i \in 1..Len(r) : r[i] = v \/ (i \in 1..Len(q) /\ r[i] = q[i])
        /\ \A i, j \in 1..Len(r) : i < j => r[i] < r[j]
    BY <2>2, <2>5, <2>6, InsertOrder
  <2> HIDE DEF r
  <2>8. \A h \in HandOffs : \A i \in 1..Len(items'[h]) :
          \/ h = t + 1 /\ items'[h][i] = v
          \/ i \in 1..Len(items[h]) /\ items'[h][i] = items[h][i]
    BY <2>3, <2>7
  <2>9. OrderDelivered'
    <3>1. \A i \in 1..Len(delivered) : delivered[i] < v
      BY <1>o, <2>1, <2>2 DEF OrderDelivered
    <3>2. \A i \in 1..Len(delivered), h \in HandOffs :
            \A j \in 1..Len(items'[h]) : delivered[i] < items'[h][j]
      BY <1>o, <2>8, <3>1 DEF OrderDelivered
    <3>3. \A i \in 1..Len(delivered), u \in Threads :
            hand'[u] \in Numbers /\ ~(u = Sink /\ Counting') => delivered[i] < hand'[u]
      BY <1>o, <1>n, <2>3, <2>4 DEF OrderDelivered
    <3>4. \A i \in 1..Len(delivered) : Counting' => delivered[i] <= hand'[Sink]
      BY <1>o, <1>c, <2>1, <2>3, <2>4 DEF OrderDelivered
    <3> QED  BY <1>o, <2>3, <3>2, <3>3, <3>4 DEF OrderDelivered
  <2>10. OrderItems'
    <3>1. \A h \in HandOffs : \A i, j \in 1..Len(items'[h]) :
            i < j => items'[h][i] < items'[h][j]
      BY <1>o, <2>3, <2>7 DEF OrderItems
    <3>2. \A h \in HandOffs : \A i \in 1..Len(items'[h]) : items'[h][i] < sequence
      BY <1>o, <2>1, <2>2, <2>8 DEF OrderItems, OrderHands
    <3>3. ASSUME NEW h \in HandOffs, NEW k \in HandOffs, h < k,
                 NEW i \in 1..Len(items'[h]), NEW j \in 1..Len(items'[k])
          PROVE  items'[k][j] < items'[h][i]
      <4>1. CASE h = t + 1
        <5>1. items'[k] = items[k] /\ k > t
          BY <1>c, <2>3, <3>3, <4>1
        <5>2. items[k][j] < v
          BY <1>c, <1>o, <2>1, <2>2, <5>1 DEF OrderBetween
        <5> QED  BY <1>o, <2>8, <3>3, <4>1, <5>1, <5>2 DEF OrderItems
      <4>2. CASE k = t + 1
        <5>1. items'[h] = items[h] /\ h <= t
          BY <1>c, <2>3, <3>3, <4>2
        <5>2. v < items[h][i]
          BY <1>c, <1>o, <2>1, <2>2, <5>1 DEF OrderBetween
        <5> QED  BY <1>o, <2>8, <3>3, <4>2, <5>1, <5>2 DEF OrderItems
      <4>3. CASE h # t + 1 /\ k # t + 1
        BY <1>o, <2>3, <3>3, <4>3 DEF OrderItems
      <4> QED  BY <4>1, <4>2, <4>3
    <3> QED  BY <2>3, <3>1, <3>2, <3>3 DEF OrderItems
  <2>11. OrderHands'
    BY <1>o, <1>n, <2>3 DEF OrderHands
  <2>12. OrderBetween'
    <3> SUFFICES ASSUME NEW u \in Threads, NEW h \in HandOffs, hand'[u] \in Numbers,
                        NEW i \in 1..Len(items'[h])
                 PROVE  IF h <= u THEN hand'[u] < items'[h][i]
                                  ELSE items'[h][i] < hand'[u]
      BY DEF OrderBetween
    <3>1. u # t /\ hand'[u] = hand[u]
      BY <1>n, <2>3
    <3>2. CASE h = t + 1 /\ items'[h][i] = v
      <4>1. CASE t < u
        <5>1. hand[u] < v /\ h <= u
          BY <1>c, <1>o, <2>1, <2>2, <3>1, <3>2, <4>1 DEF OrderHands
        <5> QED  BY <3>1, <3>2, <5>1
      <4>2. CASE u < t
        <5>1. v < hand[u] /\ ~(h <= u)
          BY <1>c, <1>o, <2>1, <2>2, <3>1, <3>2, <4>2 DEF OrderHands
        <5> QED  BY <3>1, <3>2, <5>1
      <4> QED  BY <1>c, <3>1, <4>1, <4>2
    <3>3. CASE i \in 1..Len(items[h]) /\ items'[h][i] = items[h][i]
      BY <1>o, <3>1, <3>3 DEF OrderBetween
    <3> QED  BY <2>8, <3>2, <3>3
  <2> QED  BY <2>9, <2>10, <2>11, <2>12 DEF Ordered
<1>2. ASSUME NEW t \in Stages, StagePop(t) PROVE Ordered'
  <2> DEFINE q == items[t]
             v == Head(q)
             r == Tail(q)
  <2>1. t \in Threads /\ t \in HandOffs /\ t # Capture
    BY <1>c DEF Stages
  <2>2. q \in Seq(Numbers) /\ q # <<>>
    BY <1>t, <1>2, <2>1 DEF StagePop
  <2>3. /\ v \in Numbers /\ 1 \in 1..Len(q) /\ v = q[1]
        /\ \A i \in 1..Len(r) : /\ i + 1 \in 1..Len(q) /\ r[i] = q[i + 1]
                                /\ i + 1 \in Int /\ 1 < i + 1
    BY <2>2
  <2>4. /\ \A h \in HandOffs : items'[h] = IF h = t THEN r ELSE items[h]
        /\ \A u \in Threads : hand'[u] = IF u = t THEN v ELSE hand[u]
        /\ UNCHANGED <<delivered, sequence>>
    BY <1>t, <1>2 DEF StagePop
  <2>5. Counting' <=> Counting
    BY <1>t, <1>2, <2>1, OtherThread DEF StagePop
  <2>6. t = Sink => ~Counting
    BY <1>2 DEF StagePop, Counting
  <2> HIDE DEF r, v
  <2>7. \A h \in HandOffs : \A i \in 1..Len(items'[h]) :
          \E k \in 1..Len(items[h]) :
              items'[h][i] = items[h][k] /\ (h = t => 1 < k)
    BY <2>3, <2>4
  <2>8. OrderDelivered'
    <3>1. \A i \in 1..Len(delivered) : delivered[i] < v
      BY <1>o, <2>1, <2>3 DEF OrderDelivered
    <3>2. \A i \in 1..Len(delivered), h \in HandOffs :
            \A j \in 1..Len(items'[h]) : delivered[i] < items'[h][j]
      BY <1>o, <2>7 DEF OrderDelivered
    <3>3. \A i \in 1..Len(delivered), u \in Threads :
            hand'[u] \in Numbers /\ ~(u = Sink /\ Counting') => delivered[i] < hand'[u]
      BY <1>o, <2>4, <2>5, <3>1 DEF OrderDelivered
    <3>4. \A i \in 1..Len(delivered) : Counting' => delivered[i] <= hand'[Sink]
      BY <1>o, <1>c, <2>4, <2>5, <2>6 DEF OrderDelivered
    <3> QED  BY <1>o, <2>4, <3>2, <3>3, <3>4 DEF OrderDelivered
  <2>9. OrderItems'
    <3>1. ASSUME NEW h \in HandOffs, NEW i \in 1..Len(items'[h]),
                 NEW j \in 1..Len(items'[h]), i < j
          PROVE  items'[h][i] < items'[h][j]
      <4>1. CASE h = t
        <5>1. /\ i + 1 \in 1..Len(q) /\ j + 1 \in 1..Len(q) /\ i + 1 < j + 1
              /\ items'[h][i] = q[i + 1] /\ items'[h][j] = q[j + 1]
          BY <2>3, <2>4, <3>1, <4>1
        <5> QED  BY <1>o, <2>1, <5>1 DEF OrderItems
      <4>2. CASE h # t
        BY <1>o, <2>4, <3>1, <4>2 DEF OrderItems
      <4> QED  BY <4>1, <4>2
    <3>2. \A h \in HandOffs : \A i \in 1..Len(items'[h]) : items'[h][i] < sequence
      BY <1>o, <2>7 DEF OrderItems
    <3>3. \A h, k \in HandOffs : h < k =>
            \A i \in 1..Len(items'[h]), j \in 1..Len(items'[k]) :
                items'[k][j] < items'[h][i]
      BY <1>o, <2>7 DEF OrderItems
    <3> QED  BY <2>4, <3>1, <3>2, <3>3 DEF OrderItems
  <2>10. OrderHands'
    <3>1. \A u \in Threads : hand[u] \in Numbers =>
            IF t <= u THEN hand[u] < v ELSE v < hand[u]
      BY <1>o, <2>1, <2>3 DEF OrderBetween
    <3>2. v < sequence
      BY <1>o, <2>1, <2>3 DEF OrderItems
    <3>3. \A u, x \in Threads : u < x /\ hand'[u] \in Numbers /\ hand'[x] \in Numbers
                                  => hand'[x] < hand'[u]
      BY <1>c, <1>o, <2>4, <3>1 DEF OrderHands
    <3> QED  BY <1>o, <2>4, <3>2, <3>3 DEF OrderHands
  <2>11. OrderBetween'
    <3> SUFFICES ASSUME NEW u \in Threads, NEW h \in HandOffs, hand'[u] \in Numbers,
                        NEW i \in 1..Len(items'[h])
                 PROVE  IF h <= u THEN hand'[u] < items'[h][i]
                                  ELSE items'[h][i] < hand'[u]
      BY DEF OrderBetween
    <3>1. PICK k \in 1..Len(items[h]) :
                 items'[h][i] = items[h][k] /\ (h = t => 1 < k)
      BY <2>7
    <3>2. CASE u # t
      <4>1. hand'[u] = hand[u]
        BY <2>4, <3>2
      <4> QED  BY <1>o, <3>1, <4>1 DEF OrderBetween
    <3>3. CASE u = t
      <4>1. hand'[u] = q[1]
        BY <2>3, <2>4, <3>3
      <4>2. CASE h = t
        BY <1>o, <1>c, <2>1, <2>3, <3>1, <3>3, <4>1, <4>2 DEF OrderItems
      <4>3. CASE h < t
        BY <1>o, <1>c, <2>1, <2>3, <3>1, <3>3, <4>1, <4>3 DEF OrderItems
      <4>4. CASE t < h
        BY <1>o, <1>c, <2>1, <2>3, <3>1, <3>3, <4>1, <4>4 DEF OrderItems
      <4>5. h = t \/ h < t \/ t < h
        BY <1>c, <2>1
      <4> QED  BY <4>2, <4>3, <4>4, <4>5
    <3> QED  BY <3>2, <3>3
  <2> QED  BY <2>8, <2>9, <2>10, <2>11 DEF Ordered
<1>3. ASSUME NEW t \in Threads, Drops(t) PROVE Ordered'
  <2>1. /\ \A u \in Threads : hand'[u] = IF u = t THEN None ELSE hand[u]
        /\ UNCHANGED <<items, delivered, sequence>>
        /\ Counting' <=> Counting /\ t # Sink
    BY <1>t, <1>3 DEF Drops, Release
  <2> QED  BY <1>c, <1>n, <2>1, OrderKept
<1>4. CASE SinkConsume
  <2> DEFINE v == hand[Sink]
             n == Len(delivered)
  <2>1. v \in Numbers
    BY <1>c, <1>w, <1>4, HereFacts DEF SinkConsume
  <2>2. /\ UNCHANGED <<items, hand, sequence>> /\ ~Counting
        /\ delivered' = Append(delivered, v)
    BY <1>4 DEF SinkConsume, Counting
  <2>3. Counting'
    BY <1>t, <1>c, <1>4 DEF SinkConsume, Goto, Counting
  <2>4. /\ Len(delivered') = n + 1 /\ n \in Nat
        /\ \A i \in 1..n : delivered'[i] = delivered[i]
        /\ delivered'[n + 1] = v
    BY <1>t, <2>1, <2>2
  <2>5. \A i \in 1..(n + 1) : i \in 1..n \/ i = n + 1
    BY <2>4
  <2>6. \A i \in 1..Len(delivered') :
          delivered'[i] = v \/ (i \in 1..n /\ delivered'[i] = delivered[i])
    BY <2>4, <2>5
  <2>7. \A i \in 1..n : delivered[i] < v
    BY <1>o, <1>c, <2>1, <2>2 DEF OrderDelivered
  <2>8. OrderDelivered'
    <3>1. ASSUME NEW i \in 1..Len(delivered'), NEW j \in 1..Len(delivered'), i < j
          PROVE  delivered'[i] < delivered'[j]
      <4>1. i \in 1..n
        BY <2>4, <3>1
      <4>2. CASE j \in 1..n
        BY <1>o, <2>4, <3>1, <4>1, <4>2 DEF OrderDelivered
      <4>3. CASE j = n + 1
        BY <2>4, <2>7, <4>1, <4>3
      <4> QED  BY <2>4, <2>5, <4>2, <4>3
    <3>2. \A i \in 1..Len(delivered') : delivered'[i] < sequence
      BY <1>o, <1>c, <2>1, <2>6 DEF OrderDelivered, OrderHands
    <3>3. \A i \in 1..Len(delivered'), u \in Threads :
            hand[u] \in Numbers /\ u # Sink => delivered'[i] < hand[u]
      <4>1. \A u \in Threads : hand[u] \in Numbers /\ u # Sink => v < hand[u]
        BY <1>o, <1>c, <2>1 DEF OrderHands
      <4> QED  BY <1>o, <2>6, <4>1 DEF OrderDelivered
    <3>4. \A i \in 1..Len(delivered') : delivered'[i] <= v
      <4>1. v \in Int /\ v <= v
        BY <2>1 DEF Numbers
      <4>2. \A i \in 1..n : delivered[i] <= v
        BY <1>e, <2>7, <4>1
      <4> QED  BY <2>6, <4>1, <4>2
    <3>5. \A i \in 1..Len(delivered'), h \in HandOffs :
            \A j \in 1..Len(items[h]) : delivered'[i] < items[h][j]
      <4>1. \A h \in HandOffs : \A j \in 1..Len(items[h]) : v < items[h][j]
        BY <1>o, <1>c, <2>1 DEF OrderBetween
      <4> QED  BY <1>o, <2>6, <4>1 DEF OrderDelivered
    <3> QED  BY <2>2, <2>3, <3>1, <3>2, <3>3, <3>4, <3>5 DEF OrderDelivered
  <2>9. OrderItems' /\ OrderHands' /\ OrderBetween'
    BY <1>o, <2>2 DEF OrderItems, OrderHands, OrderBetween
  <2> QED  BY <2>8, <2>9 DEF Ordered
<1>5. CASE CaptureRead
  <2>1. /\ UNCHANGED <<items, delivered>> /\ sequence' = sequence + 1
        /\ \A u \in Threads : hand'[u] = IF u = Capture THEN sequence ELSE hand[u]
    BY <1>t, <1>5 DEF CaptureRead
  <2>2. Counting' <=> Counting
    BY <1>t, <1>c, <1>5, OtherThread DEF CaptureRead
  <2>3. /\ \A u \in Threads : hand[u] \in Numbers => hand[u] < sequence
        /\ \A h \in HandOffs : \A i \in 1..Len(items[h]) : items[h][i] < sequence
        /\ \A i \in 1..Len(delivered) : delivered[i] < sequence
    BY <1>o DEF OrderHands, OrderItems, OrderDelivered
  <2>4. /\ \A h \in HandOffs : \A i \in 1..Len(items[h]) : items[h][i] \in Int
        /\ \A i \in 1..Len(delivered) : delivered[i] \in Int
        /\ sequence < sequence + 1 /\ sequence \in Int
    BY <1>t, <1>e
  <2>5. OrderDelivered'
    BY <1>o, <1>c, <2>1, <2>2, <2>3, <2>4 DEF OrderDelivered
  <2>6. OrderItems'
    BY <1>o, <2>1, <2>3, <2>4 DEF OrderItems
  <2>7. OrderHands'
    <3>1. \A u \in Threads : hand'[u] \in Numbers => hand'[u] < sequence'
      <4>1. \A u \in Threads :
              hand[u] \in Numbers => hand[u] \in Int /\ hand[u] < sequence + 1
        BY <2>3, <2>4 DEF Numbers
      <4> QED  BY <2>1, <2>4, <4>1
    <3>2. ASSUME NEW u \in Threads, NEW x \in Threads, u < x,
                 hand'[u] \in Numbers, hand'[x] \in Numbers
          PROVE  hand'[x] < hand'[u]
      <4>1. x # Capture /\ hand'[x] = hand[x]
        BY <1>c, <2>1, <3>2
      <4>2. CASE u = Capture
        BY <2>1, <2>3, <3>2, <4>1, <4>2
      <4>3. CASE u # Capture
        BY <1>o, <2>1, <3>2, <4>1, <4>3 DEF OrderHands
      <4> QED  BY <4>2, <4>3
    <3> QED  BY <3>1, <3>2 DEF OrderHands
  <2>8. OrderBetween'
    BY <1>o, <1>c, <2>1, <2>3 DEF OrderBetween
  <2> QED  BY <2>5, <2>6, <2>7, <2>8 DEF Ordered
<1>6. CASE Acquires
  <2>1. /\ \A u \in Threads : hand'[u] = IF u = Capture THEN Blank ELSE hand[u]
        /\ UNCHANGED <<items, delivered, sequence>>
        /\ Counting' <=> Counting
    BY <1>t, <1>6 DEF Acquires
  <2> QED  BY <1>c, <1>n, <2>1, OrderKept
<1>7. CASE Return
  <2>1. /\ \A h \in HandOffs : Len(items'[h]) = 0
        /\ UNCHANGED <<hand, delivered, sequence>>
    BY <1>7 DEF Return
  <2>2. Counting' <=> Counting
    BY <1>t, <1>c, <1>7, OtherThread DEF Return
  <2> QED  BY <2>1, <2>2, OrderKept
<1>8. CASE Rests
  BY <1>8, OrderKept DEF Rests
<1> QED  BY <1>1, <1>2, <1>3, <1>4, <1>5, <1>6, <1>7, <1>8, Moves

-----------------------------------------------------------------------------
(* The inductive invariant.                                                  *)

\* The size of the pool is a number.
LEMMA PoolSizeType == pool_size \in Nat
BY Constants DEF pool_size, ConstantFacts

\* A new run satisfies the invariant.
LEMMA InvInit == Init => IInv
<1> SUFFICES ASSUME Init PROVE IInv
  OBVIOUS
<1>c. /\ Threads = 0..4 /\ HandOffs = 1..4 /\ Stages = 1..4 /\ Capture = 0 /\ Sink = 4
      /\ None = -1
  BY DEF Threads, HandOffs, Stages, Capture, Sink, None
<1>e. <<>> \in Seq(Numbers) /\ Len(<<>>) = 0
  OBVIOUS
<1>i. /\ \A h \in HandOffs : items[h] = <<>> /\ ~closed[h]
      /\ \A t \in Threads : /\ hand[t] = None
                            /\ pc[t] = IF t = Capture THEN "loop" ELSE "pop"
                            /\ next_close[t] = 1
  BY DEF Init
<1>l. \A h \in HandOffs : Len(items[h]) = 0
  BY <1>e, <1>i
<1>q. Queued = 0
  <2>1. /\ Len(items[1]) = 0 /\ Len(items[2]) = 0
        /\ Len(items[3]) = 0 /\ Len(items[4]) = 0
    BY <1>c, <1>l
  <2> QED  BY <2>1 DEF Queued
<1>1. TypeOK
  <2>1. /\ items \in [HandOffs -> Seq(Numbers)]
        /\ delivered \in Seq(Numbers)
        /\ closed \in [HandOffs -> BOOLEAN]
    BY <1>e DEF Init
  <2>2. /\ pc \in [Threads -> Locations]
        /\ hand \in [Threads -> Numbers \cup {None, Blank}]
        /\ result \in [Threads -> HandOffResult]
        /\ next_close \in [Threads -> 1..5]
    BY DEF Init, Locations, HandOffResult
  <2>3. free \in 0..pool_size /\ sequence \in 0..MaxFrames
    BY PoolSizeType, Constants DEF Init, ConstantFacts
  <2> QED  BY <2>1, <2>2, <2>3 DEF TypeOK, Init
<1>2. HandWhere
  BY <1>c, <1>i DEF HandWhere, Here, LocationsOf, Working, Pushing, Leaving
<1>3. Limits
  BY <1>c, <1>i DEF Limits
<1>4. QueueBounds
  BY <1>l, Constants DEF QueueBounds, Room, CapacityOf, ConstantFacts
<1>5. Balance
  <2>1. \A t \in Threads : Held[t] = 0
    BY <1>i DEF Held
  <2>2. Sum(Held) = 0
    BY <1>c, <2>1 DEF Sum
  <2> QED  BY <1>q, <2>2, PoolSizeType DEF Balance, Init
<1>6. LateOnce
  BY DEF LateOnce, Init
<1>7. Account
  <2>1. \A t \in Threads : Weight[t] = 0
    BY <1>i DEF Weight, WeightOf
  <2>2. Sum(Weight) = 0
    BY <1>c, <2>1 DEF Sum
  <2> QED  BY <1>q, <2>2 DEF Account, Init
<1>8. Closing
  <2>1. spc = "idle" /\ \A t \in Threads : pc[t] \in {"loop", "pop"}
    BY <1>i DEF Init
  <2>2. \A h \in 1..4 : ~closed[h] /\ pc[h] = "pop"
    BY <1>c, <1>i
  <2> QED  BY <1>c, <2>1, <2>2 DEF Closing
<1>9. Joined
  BY <1>c, <1>i DEF Joined
<1>10. Ordered
  <2>1. \A t \in Threads : hand[t] \notin Numbers
    BY <1>i, NumbersAreFrames
  <2>2. \A h \in HandOffs : 1..Len(items[h]) = {}
    BY <1>l
  <2>3. 1..Len(delivered) = {}
    BY <1>e DEF Init
  <2> QED  BY <2>1, <2>2, <2>3
           DEF Ordered, OrderDelivered, OrderItems, OrderHands, OrderBetween
<1> QED  BY <1>1, <1>2, <1>3, <1>4, <1>5, <1>6, <1>7, <1>8, <1>9, <1>10 DEF IInv

\* The inductive invariant of a run.
THEOREM Invariance == Spec => []IInv
<1>1. Init => IInv
  BY InvInit
<1>2. IInv /\ [Next]_vars => IInv'
  BY HandStep, TypeStep, LimitsStep, BoundsStep, BalanceStep, LateStep,
     AccountStep, ClosingStep, JoinedStep, OrderStep DEF IInv
<1> QED  BY <1>1, <1>2, PTL DEF Spec

\* The variables of a run keep their types.
THEOREM TypeCorrect == Spec => []TypeOK
<1>1. IInv => TypeOK
  BY DEF IInv
<1> QED  BY <1>1, Invariance, PTL

-----------------------------------------------------------------------------
(* Frames and hand-offs.                                                     *)

\* The threads up to n that hold a frame.
HoldersTo(n) == {t \in 0..n : hand[t] # None}

\* The holders up to one thread more.
LEMMA OneMoreHolder ==
  ASSUME NEW n \in 0..3, IsFiniteSet(HoldersTo(n))
  PROVE  /\ IsFiniteSet(HoldersTo(n + 1))
         /\ Cardinality(HoldersTo(n + 1)) = Cardinality(HoldersTo(n)) + Held[n + 1]
<1>1. n + 1 \in Threads /\ n + 1 \notin HoldersTo(n)
  BY DEF Threads, HoldersTo
<1>2. Cardinality(HoldersTo(n)) \in Nat
  BY FS_CardinalityType
<1>3. CASE hand[n + 1] # None
  <2>1. HoldersTo(n + 1) = HoldersTo(n) \cup {n + 1}
    BY <1>3 DEF HoldersTo
  <2>2. Held[n + 1] = 1
    BY <1>1, <1>3 DEF Held
  <2> QED  BY <1>1, <2>1, <2>2, FS_AddElement
<1>4. CASE hand[n + 1] = None
  <2>1. HoldersTo(n + 1) = HoldersTo(n)
    BY <1>4 DEF HoldersTo
  <2>2. Held[n + 1] = 0
    BY <1>1, <1>4 DEF Held
  <2> QED  BY <1>2, <2>1, <2>2
<1> QED  BY <1>3, <1>4

\* The number of threads with a frame is the sum over the threads.
LEMMA HolderCount == Cardinality(Holders) = Sum(Held) /\ IsFiniteSet(Holders)
<1>1. IsFiniteSet(HoldersTo(0)) /\ Cardinality(HoldersTo(0)) = Held[0]
  <2>1. CASE hand[0] # None
    <3>1. HoldersTo(0) = {0} /\ Held[0] = 1
      BY <2>1 DEF HoldersTo, Held, Threads
    <3> QED  BY <3>1, FS_Singleton
  <2>2. CASE hand[0] = None
    <3>1. HoldersTo(0) = {} /\ Held[0] = 0
      BY <2>2 DEF HoldersTo, Held, Threads
    <3> QED  BY <3>1, FS_EmptySet
  <2> QED  BY <2>1, <2>2
<1>2. IsFiniteSet(HoldersTo(1)) /\ Cardinality(HoldersTo(1)) = Held[0] + Held[1]
  BY <1>1, OneMoreHolder
<1>3. /\ IsFiniteSet(HoldersTo(2))
      /\ Cardinality(HoldersTo(2)) = Held[0] + Held[1] + Held[2]
  BY <1>2, OneMoreHolder
<1>4. /\ IsFiniteSet(HoldersTo(3))
      /\ Cardinality(HoldersTo(3)) = Held[0] + Held[1] + Held[2] + Held[3]
  BY <1>3, OneMoreHolder
<1>5. /\ IsFiniteSet(HoldersTo(4))
      /\ Cardinality(HoldersTo(4)) = Held[0] + Held[1] + Held[2] + Held[3] + Held[4]
  BY <1>4, OneMoreHolder
<1>6. Holders = HoldersTo(4)
  BY DEF Holders, HoldersTo, Threads
<1> QED  BY <1>5, <1>6 DEF Sum

\* No path through push(), a drop, an exception or the end of run() leaks a
\* frame of the pool or returns it twice.
THEOREM FramesConservedHolds == Spec => []FramesConserved
<1>1. IInv => FramesConserved
  <2> SUFFICES ASSUME IInv PROVE FramesConserved
    OBVIOUS
  <2> DEFINE a == Len(items[1])
             b == Len(items[2])
             c == Len(items[3])
             d == Len(items[4])
             s == Cardinality(Holders)
  <2>1. a \in Nat /\ b \in Nat /\ c \in Nat /\ d \in Nat /\ free \in Nat
    BY DEF IInv, TypeOK, HandOffs
  <2>2. s \in Nat
    BY HolderCount, FS_CardinalityType
  <2>3. free + s + (a + b + c + d) = pool_size
    BY HolderCount DEF IInv, Balance, Queued
  <2>4. FramesConserved <=> free + s + a + b + c + d = pool_size
    BY DEF FramesConserved
  <2> HIDE DEF a, b, c, d, s
  <2> QED  BY <2>1, <2>2, <2>3, <2>4
<1> QED  BY <1>1, Invariance, PTL

\* With the derived pool size capture finds a frame whenever it needs one:
\* every hand-off full and a frame in every stage's hands leave one over.
THEOREM NeverStarves == Spec => []CaptureNeverStarves
<1>1. IInv => CaptureNeverStarves
  <2> SUFFICES ASSUME IInv, PoolFrames = 0, pc[Capture] = "acquire"
               PROVE  free > 0
    BY DEF CaptureNeverStarves
  <2> DEFINE a == Len(items[1])
             b == Len(items[2])
             c == Len(items[3])
             d == Len(items[4])
  <2>1. a \in Nat /\ b \in Nat /\ c \in Nat /\ d \in Nat /\ free \in Nat
    BY DEF IInv, TypeOK, HandOffs
  <2>2. a <= Room(1) /\ b <= Room(2) /\ c <= Room(3) /\ d <= Room(4)
    BY DEF IInv, QueueBounds, HandOffs
  <2>3. Sum(Held) \in 0..4
    <3>1. hand[Capture] = None
      <4>1. Capture \in Threads
        BY DEF Capture, Threads
      <4>2. Here(Capture, "acquire", hand[Capture])
        BY <4>1 DEF IInv, HandWhere
      <4> QED  BY <4>1, <4>2, HereFacts
    <3>2. Held[0] = 0 /\ \A t \in 1..4 : Held[t] \in {0, 1}
      BY <3>1 DEF Held, Threads, Capture
    <3> QED  BY <3>2 DEF Sum
  <2>4. free + Sum(Held) + (a + b + c + d) = pool_size
    BY DEF IInv, Balance, Queued
  <2>5. CASE policy = "latest"
    <3>1. Room(1) = 1 /\ Room(2) = 1 /\ Room(3) = 1 /\ Room(4) = 1
      BY <2>5 DEF Room, PolicyOf, internal_policy
    <3>2. pool_size = 18
      BY <2>5 DEF pool_size
    <3> HIDE DEF a, b, c, d
    <3> QED  BY <2>1, <2>2, <2>3, <2>4, <3>1, <3>2
  <2>6. CASE policy # "latest"
    <3>1. /\ Room(1) = IngressCapacity /\ Room(2) = StageCapacity
          /\ Room(3) = StageCapacity /\ Room(4) = StageCapacity
      BY <2>6 DEF Room, PolicyOf, internal_policy, CapacityOf
    <3>2. pool_size = IngressCapacity + 3 * StageCapacity + 5 + 1
      BY <2>6 DEF pool_size
    <3>3. IngressCapacity \in Nat /\ StageCapacity \in Nat
      BY Constants DEF ConstantFacts
    <3> HIDE DEF a, b, c, d
    <3> QED  BY <2>1, <2>2, <2>3, <2>4, <3>1, <3>2, <3>3
  <2> QED  BY <2>5, <2>6
<1> QED  BY <1>1, Invariance, PTL

\* Once aborted is set the sinks see at most the frame that the sink thread
\* had checked before.
THEOREM AbortHolds == Spec => []AbortStopsDelivery
<1>1. IInv => AbortStopsDelivery
  BY DEF IInv, LateOnce, AbortStopsDelivery
<1> QED  BY <1>1, Invariance, PTL

\* The report of a run without a failure adds up: what was captured was
\* delivered or counted as a drop, and at most one frame, that of a push which
\* raced a stop request, is still in ingress.
THEOREM ReportHolds == Spec => []ReportAddsUp
<1>1. IInv => ReportAddsUp
  <2> SUFFICES ASSUME IInv, pc[Capture] = "report", ~aborted
               PROVE  /\ captured = dropped + completed + Len(items[1])
                      /\ Len(items[1]) <= (IF stop THEN 1 ELSE 0)
                      /\ \A h \in 2..4 : items[h] = <<>>
    BY DEF ReportAddsUp
  <2>c. Threads = 0..4 /\ Stages = 1..4 /\ Capture = 0
    BY DEF Threads, Stages, Capture
  <2>1. \A t \in Stages : pc[t] = "done"
    BY DEF IInv, Joined
  <2>2. Clean
    BY <2>c, <2>1 DEF Clean
  <2>3. \A h \in 2..4 : items[h] = <<>>
    BY <2>c, <2>1, <2>2 DEF IInv, Closing
  <2>4. Len(items[1]) <= 1 /\ (~stop => items[1] = <<>>)
    BY <2>c, <2>1, <2>2 DEF IInv, Closing
  <2>5. Len(items[1]) <= (IF stop THEN 1 ELSE 0)
    <3>1. items[1] = <<>> => Len(items[1]) = 0
      OBVIOUS
    <3> QED  BY <2>4, <3>1
  <2>6. Sum(Weight) = 0
    <3>1. \A t \in Stages : hand[t] = None
      BY <2>c, <2>1, HereFacts DEF IInv, HandWhere, Leaving
    <3>2. \A t \in Threads : Weight[t] = 0
      BY <2>c, <2>1, <3>1 DEF Weight, WeightOf
    <3> QED  BY <2>c, <3>2 DEF Sum
  <2>7. Queued = Len(items[1])
    <3>1. Len(items[2]) = 0 /\ Len(items[3]) = 0 /\ Len(items[4]) = 0
      BY <2>3
    <3>2. Len(items[1]) \in Nat
      BY DEF IInv, TypeOK, HandOffs
    <3> QED  BY <3>1, <3>2 DEF Queued
  <2>8. captured = dropped + completed + Len(items[1])
    <3>1. captured = dropped + completed + Queued + Sum(Weight)
      BY <2>2 DEF IInv, Account
    <3>2. Len(items[1]) \in Nat /\ dropped \in Nat /\ completed \in Nat
      BY DEF IInv, TypeOK, HandOffs
    <3> QED  BY <2>6, <2>7, <3>1, <3>2
  <2> QED  BY <2>3, <2>5, <2>8
<1> QED  BY <1>1, Invariance, PTL

-----------------------------------------------------------------------------
(* Capture order.                                                            *)

Increasing(s) == \A i, j \in 1..Len(s) : i < j => s[i] < s[j]
Below(s, t) == \A i \in 1..Len(s), j \in 1..Len(t) : s[i] < t[j]

\* Appending a later piece to an ordered line.
LEMMA ConcatOrder ==
  ASSUME NEW s \in Seq(Int), NEW t \in Seq(Int),
         Increasing(s), Increasing(t), Below(s, t)
  PROVE  s \o t \in Seq(Int) /\ Increasing(s \o t)
<1> DEFINE c == s \o t
           m == Len(s)
           n == Len(t)
<1>1. /\ c \in Seq(Int) /\ Len(c) = m + n /\ m \in Nat /\ n \in Nat
      /\ \A i \in 1..m : c[i] = s[i]
      /\ \A i \in 1..(m + n) : i > m => i - m \in 1..n /\ c[i] = t[i - m]
  BY ConcatProperties
<1> HIDE DEF c
<1>2. ASSUME NEW i \in 1..(m + n), NEW j \in 1..(m + n), i < j
      PROVE  c[i] < c[j]
  <2>1. CASE j <= m
    <3>1. i \in 1..m /\ j \in 1..m
      BY <1>1, <1>2, <2>1
    <3> QED  BY <1>1, <1>2, <3>1 DEF Increasing
  <2>2. CASE i <= m /\ j > m
    <3>0. i \in 1..m
      BY <1>1, <2>2
    <3>1. c[i] = s[i]
      BY <1>1, <3>0
    <3>2. j - m \in 1..n /\ c[j] = t[j - m]
      BY <1>1, <2>2
    <3> QED  BY <3>0, <3>1, <3>2 DEF Below
  <2>3. CASE i > m
    <3>1. /\ i - m \in 1..n /\ j - m \in 1..n /\ i - m < j - m
          /\ c[i] = t[i - m] /\ c[j] = t[j - m]
      BY <1>1, <1>2, <2>3
    <3> QED  BY <3>1 DEF Increasing
  <2> QED  BY <1>1, <2>1, <2>2, <2>3
<1>3. Increasing(c)
  BY <1>1, <1>2 DEF Increasing
<1> QED  BY <1>1, <1>3 DEF c

\* A piece later than both parts of a line is later than the line.
LEMMA ConcatBelow ==
  ASSUME NEW s \in Seq(Int), NEW t \in Seq(Int), NEW u \in Seq(Int),
         Below(s, u), Below(t, u)
  PROVE  Below(s \o t, u)
<1> DEFINE c == s \o t
           m == Len(s)
           n == Len(t)
<1>1. /\ Len(c) = m + n /\ m \in Nat /\ n \in Nat
      /\ \A i \in 1..m : c[i] = s[i]
      /\ \A i \in 1..(m + n) : i > m => i - m \in 1..n /\ c[i] = t[i - m]
  BY ConcatProperties
<1> HIDE DEF c
<1>2. ASSUME NEW i \in 1..(m + n), NEW j \in 1..Len(u)
      PROVE  c[i] < u[j]
  <2>1. CASE i <= m
    <3>1. i \in 1..m
      BY <1>1, <2>1
    <3> QED  BY <1>1, <3>1 DEF Below
  <2>2. CASE i > m
    <3>1. i - m \in 1..n /\ c[i] = t[i - m]
      BY <1>1, <2>2
    <3> QED  BY <3>1 DEF Below
  <2> QED  BY <1>1, <2>1, <2>2
<1>3. Below(c, u)
  BY <1>1, <1>2 DEF Below
<1> QED  BY <1>3 DEF c

\* The ten pieces of the line.
Pieces(P) ==
    /\ P \in [0..9 -> Seq(Int)]
    /\ \A i \in 0..9 : Increasing(P[i])
    /\ \A i, j \in 0..9 : i < j => Below(P[i], P[j])

\* A line made of the pieces up to k.
Joins(P, k, line) ==
    /\ line \in Seq(Int) /\ Increasing(line)
    /\ \A j \in 0..9 : k < j => Below(line, P[j])

\* A line with one piece more is in order and earlier than the rest.
LEMMA JoinsMore ==
  ASSUME NEW P, Pieces(P), NEW k \in 0..8, NEW line, Joins(P, k, line)
  PROVE  Joins(P, k + 1, line \o P[k + 1])
<1>1. k + 1 \in 0..9 /\ k < k + 1 /\ P[k + 1] \in Seq(Int)
  <2>1. k + 1 \in 0..9 /\ k < k + 1
    OBVIOUS
  <2>2. P \in [0..9 -> Seq(Int)]
    BY DEF Pieces
  <2> QED  BY <2>1, <2>2
<1>2. line \in Seq(Int) /\ Increasing(line) /\ Below(line, P[k + 1])
  BY <1>1 DEF Joins
<1>3. Increasing(P[k + 1])
  BY <1>1 DEF Pieces
<1>4. line \o P[k + 1] \in Seq(Int) /\ Increasing(line \o P[k + 1])
  BY <1>1, <1>2, <1>3, ConcatOrder
<1>5. ASSUME NEW j \in 0..9, k + 1 < j
      PROVE  Below(line \o P[k + 1], P[j])
  <2>1. Below(line, P[j]) /\ P[j] \in Seq(Int) /\ Below(P[k + 1], P[j])
    <3>1. k < j
      BY <1>5
    <3>2. Below(line, P[j])
      BY <3>1 DEF Joins
    <3>3. P[j] \in Seq(Int) /\ Below(P[k + 1], P[j])
      BY <1>1, <1>5 DEF Pieces
    <3> QED  BY <3>2, <3>3
  <2> QED  BY <1>1, <1>2, <2>1, ConcatBelow
<1> QED  BY <1>4, <1>5 DEF Joins

\* What the line shows of the frame in the hands of thread t.
Shown(t) ==
    IF hand[t] \in Numbers /\ ~(t = Sink /\ Counting) THEN <<hand[t]>> ELSE <<>>

\* What a thread shows of the frame in its hand is one frame or none.
LEMMA ShownFacts ==
  ASSUME NEW t \in Threads
  PROVE  /\ Shown(t) \in Seq(Int) /\ Increasing(Shown(t))
         /\ \A i \in 1..Len(Shown(t)) :
              /\ Shown(t)[i] = hand[t] /\ hand[t] \in Numbers
              /\ ~(t = Sink /\ Counting)
<1>1. CASE hand[t] \in Numbers /\ ~(t = Sink /\ Counting)
  <2>1. Shown(t) = <<hand[t]>> /\ hand[t] \in Int
    BY <1>1 DEF Shown, Numbers
  <2>2. Len(<<hand[t]>>) = 1 /\ <<hand[t]>>[1] = hand[t] /\ <<hand[t]>> \in Seq(Int)
    BY <2>1
  <2>3. \A i \in 1..1 : i = 1
    OBVIOUS
  <2>4. \A i, j \in 1..1 : ~(i < j)
    OBVIOUS
  <2> QED  BY <1>1, <2>1, <2>2, <2>3, <2>4 DEF Increasing
<1>2. CASE ~(hand[t] \in Numbers /\ ~(t = Sink /\ Counting))
  <2>1. Shown(t) = <<>> /\ Len(<<>>) = 0 /\ <<>> \in Seq(Int)
    BY <1>2 DEF Shown
  <2>2. 1..0 = {}
    OBVIOUS
  <2> QED  BY <2>1, <2>2 DEF Increasing
<1> QED  BY <1>1, <1>2

\* The line of frames is its ten pieces in a row.
LEMMA LinePieces ==
  Line = delivered \o Shown(4) \o items[4] \o Shown(3) \o items[3]
         \o Shown(2) \o items[2] \o Shown(1) \o items[1] \o Shown(0)
<1>1. Shown(4) = IF pc[Sink] = "count" THEN <<>>
                 ELSE IF hand[4] \in Numbers THEN <<hand[4]>> ELSE <<>>
  BY DEF Shown, Sink, Counting
<1>2. /\ Shown(3) = IF hand[3] \in Numbers THEN <<hand[3]>> ELSE <<>>
      /\ Shown(2) = IF hand[2] \in Numbers THEN <<hand[2]>> ELSE <<>>
      /\ Shown(1) = IF hand[1] \in Numbers THEN <<hand[1]>> ELSE <<>>
      /\ Shown(0) = IF hand[0] \in Numbers THEN <<hand[0]>> ELSE <<>>
  BY DEF Shown, Sink
<1> QED  BY <1>1, <1>2 DEF Line

\* The stages never overtake each other: what the sinks got, what the stages
\* hold and what waits between them is in capture order.
THEOREM OrderHolds == Spec => []CaptureOrder
<1>1. IInv => CaptureOrder
  <2> SUFFICES ASSUME IInv PROVE CaptureOrder
    OBVIOUS
  <2>c. Threads = 0..4 /\ HandOffs = 1..4
    BY DEF Threads, HandOffs
  <2>o. OrderDelivered /\ OrderItems /\ OrderHands /\ OrderBetween
    BY DEF IInv, Ordered
  <2> DEFINE P == [k \in 0..9 |->
                     CASE k = 0 -> delivered
                       [] k = 1 -> Shown(4) [] k = 2 -> items[4]
                       [] k = 3 -> Shown(3) [] k = 4 -> items[3]
                       [] k = 5 -> Shown(2) [] k = 6 -> items[2]
                       [] k = 7 -> Shown(1) [] k = 8 -> items[1]
                       [] k = 9 -> Shown(0)]
  <2>1. /\ P[0] = delivered
        /\ P[1] = Shown(4) /\ P[2] = items[4] /\ P[3] = Shown(3) /\ P[4] = items[3]
        /\ P[5] = Shown(2) /\ P[6] = items[2] /\ P[7] = Shown(1) /\ P[8] = items[1]
        /\ P[9] = Shown(0) /\ DOMAIN P = 0..9 /\ P = [k \in 0..9 |-> P[k]]
    OBVIOUS
  <2> HIDE DEF P
  <2>2. delivered \in Seq(Int) /\ \A h \in HandOffs : items[h] \in Seq(Int)
    <3>1. Numbers \subseteq Int
      BY DEF Numbers
    <3>2. \A q : q \in Seq(Numbers) => q \in Seq(Int)
      BY <3>1, SeqMonotonic
    <3> QED  BY <3>2 DEF IInv, TypeOK
  <2>3. Increasing(delivered) /\ \A h \in HandOffs : Increasing(items[h])
    BY <2>o DEF OrderDelivered, OrderItems, Increasing
  <2>4. \A t \in Threads : Below(delivered, Shown(t))
    BY <2>o, ShownFacts DEF OrderDelivered, Below
  <2>5. \A h \in HandOffs : Below(delivered, items[h])
    BY <2>o DEF OrderDelivered, Below
  <2>6. \A t, u \in Threads : u < t => Below(Shown(t), Shown(u))
    BY <2>o, ShownFacts DEF OrderHands, Below
  <2>7. \A t \in Threads, h \in HandOffs :
          IF h <= t THEN Below(Shown(t), items[h]) ELSE Below(items[h], Shown(t))
    BY <2>o, ShownFacts DEF OrderBetween, Below
  <2>8. \A h, k \in HandOffs : h < k => Below(items[k], items[h])
    BY <2>o DEF OrderItems, Below
  <2>9. Pieces(P)
    <3>1. \A k \in 0..9 : P[k] \in Seq(Int) /\ Increasing(P[k])
      <4>1. \A t \in 0..4 : Shown(t) \in Seq(Int) /\ Increasing(Shown(t))
        BY <2>c, ShownFacts
      <4>2. \A h \in 1..4 : items[h] \in Seq(Int) /\ Increasing(items[h])
        BY <2>c, <2>2, <2>3
      <4>3. delivered \in Seq(Int) /\ Increasing(delivered)
        BY <2>2, <2>3
      <4>4. \A k \in {0, 2, 4, 6, 8} : P[k] \in Seq(Int) /\ Increasing(P[k])
        <5>1. items[1] \in Seq(Int) /\ Increasing(items[1])
          BY <4>2
        <5>2. items[2] \in Seq(Int) /\ Increasing(items[2])
          BY <4>2
        <5>3. items[3] \in Seq(Int) /\ Increasing(items[3])
          BY <4>2
        <5>4. items[4] \in Seq(Int) /\ Increasing(items[4])
          BY <4>2
        <5> QED  BY <2>1, <4>3, <5>1, <5>2, <5>3, <5>4
      <4>5. \A k \in {1, 3, 5, 7, 9} : P[k] \in Seq(Int) /\ Increasing(P[k])
        BY <2>1, <4>1
      <4>6. 0..9 = {0, 2, 4, 6, 8} \cup {1, 3, 5, 7, 9}
        OBVIOUS
      <4> QED  BY <4>4, <4>5, <4>6
    <3>2. \A j \in 1..9 : Below(P[0], P[j])
      BY <2>c, <2>1, <2>4, <2>5
    <3>3. \A j \in 2..9 : Below(P[1], P[j])
      BY <2>c, <2>1, <2>6, <2>7
    <3>4. \A j \in 3..9 : Below(P[2], P[j])
      BY <2>c, <2>1, <2>7, <2>8
    <3>5. \A j \in 4..9 : Below(P[3], P[j])
      BY <2>c, <2>1, <2>6, <2>7
    <3>6. \A j \in 5..9 : Below(P[4], P[j])
      BY <2>c, <2>1, <2>7, <2>8
    <3>7. \A j \in 6..9 : Below(P[5], P[j])
      BY <2>c, <2>1, <2>6, <2>7
    <3>8. \A j \in 7..9 : Below(P[6], P[j])
      BY <2>c, <2>1, <2>7, <2>8
    <3>9. Below(P[7], P[8]) /\ Below(P[7], P[9]) /\ Below(P[8], P[9])
      BY <2>c, <2>1, <2>6, <2>7
    <3>10. \A i, j \in 0..9 : i < j => Below(P[i], P[j])
      BY <3>2, <3>3, <3>4, <3>5, <3>6, <3>7, <3>8, <3>9
    <3> QED  BY <2>1, <3>1, <3>10 DEF Pieces
  <2>10. Joins(P, 0, P[0])
    BY <2>9 DEF Pieces, Joins
  <2> DEFINE L1 == P[0] \o P[1]
             L2 == L1 \o P[2]
             L3 == L2 \o P[3]
             L4 == L3 \o P[4]
             L5 == L4 \o P[5]
             L6 == L5 \o P[6]
             L7 == L6 \o P[7]
             L8 == L7 \o P[8]
             L9 == L8 \o P[9]
  <2>11. Line = L9
    BY <2>1, LinePieces
  <2> HIDE DEF L1, L2, L3, L4, L5, L6, L7, L8, L9
  <2>12. Joins(P, 1, L1)
    BY <2>9, <2>10, JoinsMore DEF L1
  <2>13. Joins(P, 2, L2)
    BY <2>9, <2>12, JoinsMore DEF L2
  <2>14. Joins(P, 3, L3)
    BY <2>9, <2>13, JoinsMore DEF L3
  <2>15. Joins(P, 4, L4)
    BY <2>9, <2>14, JoinsMore DEF L4
  <2>16. Joins(P, 5, L5)
    BY <2>9, <2>15, JoinsMore DEF L5
  <2>17. Joins(P, 6, L6)
    BY <2>9, <2>16, JoinsMore DEF L6
  <2>18. Joins(P, 7, L7)
    BY <2>9, <2>17, JoinsMore DEF L7
  <2>19. Joins(P, 8, L8)
    BY <2>9, <2>18, JoinsMore DEF L8
  <2>20. Joins(P, 9, L9)
    BY <2>9, <2>19, JoinsMore DEF L9
  <2> QED  BY <2>11, <2>20 DEF Joins, Increasing, CaptureOrder
<1> QED  BY <1>1, Invariance, PTL
=============================================================================
