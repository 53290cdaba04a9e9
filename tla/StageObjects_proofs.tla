------------------------ MODULE StageObjects_proofs ------------------------
(***************************************************************************)
(* Safety of three of the objects of StageObjects: the paced sources, for  *)
(* every period; the tracker, for every set of thresholds, scores and      *)
(* detections per frame; and the histogram, its buckets for every width of *)
(* them, its percentiles and its summary for any number of samples and of  *)
(* threads that record them.                                               *)
(*                                                                         *)
(* The loops of the code are recursive functions here.  Induction over     *)
(* them is by least counterexample: the set of the naturals for which a    *)
(* statement holds contains 0 and with a number its successor.             *)
(***************************************************************************)
EXTENDS StageObjects, FiniteSetTheorems, WellFoundedInduction, TLAPS

-----------------------------------------------------------------------------
(* Induction.                                                                *)

Below == {p \in Nat \X Nat : p[1] < p[2]}

\* A set of naturals has a least element.
LEMMA LeastElement ==
  ASSUME NEW T \in SUBSET Nat, T # {}
  PROVE  \E x \in T : \A y \in T : x <= y
<1>1. OpToRel(<, Nat) = Below
  BY DEF OpToRel, Below
<1>2. IsWellFoundedOn(Below, Nat)
  BY <1>1, NatLessThanWellFounded
<1>3. PICK x \in T : \A y \in T : ~(<<y, x>> \in Below)
  BY <1>2, WFMin
<1>4. ASSUME NEW y \in T PROVE x <= y
  <2>1. <<y, x>> \in Nat \X Nat /\ <<y, x>>[1] = y /\ <<y, x>>[2] = x
    OBVIOUS
  <2>2. ~(y < x)
    BY <1>3, <2>1 DEF Below
  <2> QED  BY <2>2
<1> QED  BY <1>4

\* Induction, with the statement as the set of the numbers it holds for.
LEMMA Induction ==
  ASSUME NEW S, 0 \in S, \A n \in Nat : n \in S => n + 1 \in S
  PROVE  \A n \in Nat : n \in S
<1> SUFFICES ASSUME Nat \ S # {} PROVE FALSE
  OBVIOUS
<1>1. PICK x \in Nat \ S : \A y \in Nat \ S : x <= y
  BY LeastElement
<1>2. x - 1 \in Nat /\ x - 1 \in S
  BY <1>1
<1> QED  BY <1>1, <1>2

\* Induction up to a bound.
LEMMA InductionUpTo ==
  ASSUME NEW N \in Nat, NEW S, 0 \in S, \A n \in 0..(N - 1) : n \in S => n + 1 \in S
  PROVE  \A n \in 0..N : n \in S
<1> DEFINE T == {n \in Nat : n <= N => n \in S}
<1>1. 0 \in T
  OBVIOUS
<1>2. \A n \in Nat : n \in T => n + 1 \in T
  OBVIOUS
<1> HIDE DEF T
<1>3. \A n \in Nat : n \in T
  BY <1>1, <1>2, Induction
<1> QED  BY <1>3 DEF T

Approximates(f, n, V, start, step) ==
    /\ f \in [0..n -> V] /\ f[0] = start
    /\ \A i \in 0..(n - 1) : f[i + 1] = step[<<f[i], i>>]

Solves(f, V, start, step) ==
    f \in [Nat -> V] /\ f[0] = start /\ \A n \in Nat : f[n + 1] = step[<<f[n], n>>]

\* A recursion over the naturals has a solution.
LEMMA Recursion ==
  ASSUME NEW V, NEW start \in V, NEW step \in [V \X Nat -> V]
  PROVE  \E f : Solves(f, V, start, step)
<1> DEFINE Ap(f, n) == Approximates(f, n, V, start, step)
<1>1. \A n \in Nat : \E f : Ap(f, n)
  <2> DEFINE S == {n \in Nat : \E f : Ap(f, n)}
  <2>1. 0 \in S
    <3> DEFINE f == [i \in 0..0 |-> start]
    <3>1. Ap(f, 0)
      BY DEF Approximates
    <3> QED  BY <3>1
  <2>2. ASSUME NEW n \in Nat, n \in S PROVE n + 1 \in S
    <3>1. PICK f : Ap(f, n)
      BY <2>2
    <3>2. f \in [0..n -> V] /\ f[n] \in V
      BY <3>1 DEF Approximates
    <3> DEFINE next == step[<<f[n], n>>]
               g == [i \in 0..(n + 1) |-> IF i = n + 1 THEN next ELSE f[i]]
    <3>3. next \in V
      BY <3>2
    <3> HIDE DEF next
    <3>4. g \in [0..(n + 1) -> V]
      BY <3>2, <3>3
    <3>5. g[0] = start
      BY <3>1 DEF Approximates
    <3>6. ASSUME NEW i \in 0..n PROVE g[i + 1] = step[<<g[i], i>>]
      <4>1. g[i] = f[i] /\ i + 1 \in 0..(n + 1)
        OBVIOUS
      <4>2. CASE i = n
        <5>1. g[i + 1] = next
          BY <4>1, <4>2
        <5> QED  BY <4>1, <4>2, <5>1 DEF next
      <4>3. CASE i # n
        <5>1. i \in 0..(n - 1) /\ g[i + 1] = f[i + 1]
          BY <4>1, <4>3
        <5> QED  BY <3>1, <4>1, <5>1 DEF Approximates
      <4> QED  BY <4>2, <4>3
    <3> HIDE DEF g
    <3>7. Ap(g, n + 1)
      BY <3>4, <3>5, <3>6 DEF Approximates
    <3> QED  BY <3>7
  <2> HIDE DEF S
  <2>3. \A n \in Nat : n \in S
    BY <2>1, <2>2, Induction
  <2> QED  BY <2>3 DEF S
<1>2. ASSUME NEW m \in Nat, NEW n \in Nat, m <= n, NEW f, NEW g, Ap(f, m), Ap(g, n)
      PROVE  \A i \in 0..m : f[i] = g[i]
  <2> DEFINE S == {i \in 0..m : f[i] = g[i]}
  <2>1. 0 \in S
    BY <1>2 DEF Approximates
  <2>2. ASSUME NEW i \in 0..(m - 1), i \in S PROVE i + 1 \in S
    <3>1. i \in 0..(n - 1) /\ i + 1 \in 0..m
      BY <1>2
    <3>2. f[i + 1] = step[<<f[i], i>>] /\ g[i + 1] = step[<<g[i], i>>]
      BY <1>2, <3>1 DEF Approximates
    <3> QED  BY <2>2, <3>1, <3>2
  <2> HIDE DEF S
  <2>3. \A i \in 0..m : i \in S
    BY <2>1, <2>2, InductionUpTo
  <2> QED  BY <2>3 DEF S
<1> DEFINE App == [n \in Nat |-> CHOOSE f : Ap(f, n)]
           F == [n \in Nat |-> App[n][n]]
<1>3. \A n \in Nat : Ap(App[n], n)
  <2> HIDE DEF Ap
  <2> QED  BY <1>1
<1> HIDE DEF App
<1>4. \A n \in Nat : App[n] \in [0..n -> V] /\ App[n][n] \in V
  BY <1>3 DEF Approximates
<1>5. F \in [Nat -> V]
  BY <1>4
<1>6. F[0] = start
  BY <1>3 DEF Approximates
<1>7. ASSUME NEW n \in Nat PROVE F[n + 1] = step[<<F[n], n>>]
  <2>1. n + 1 \in Nat /\ n \in 0..n /\ n \in 0..(n + 1 - 1)
    OBVIOUS
  <2>2. App[n][n] = App[n + 1][n]
    <3> HIDE DEF Ap
    <3>1. Ap(App[n], n) /\ Ap(App[n + 1], n + 1)
      BY <1>3, <2>1
    <3>2. n <= n + 1
      OBVIOUS
    <3>3. \A i \in 0..n : App[n][i] = App[n + 1][i]
      BY <1>2, <2>1, <3>1, <3>2
    <3> QED  BY <2>1, <3>3
  <2>3. App[n + 1][n + 1] = step[<<App[n + 1][n], n>>]
    BY <1>3, <2>1 DEF Approximates
  <2> QED  BY <2>1, <2>2, <2>3
<1> HIDE DEF F
<1>8. Solves(F, V, start, step)
  BY <1>5, <1>6, <1>7 DEF Solves
<1> QED  BY <1>8

SolvesUpTo(f, N, V, start, step) ==
    f \in [0..N -> V] /\ f[0] = start /\ \A i \in 1..N : f[i] = step[<<f[i - 1], i>>]

\* A recursion up to a bound has a solution.
LEMMA RecursionUpTo ==
  ASSUME NEW N \in Nat, NEW V, NEW start \in V, NEW step \in [V \X (1..N) -> V]
  PROVE  \E f : SolvesUpTo(f, N, V, start, step)
<1> DEFINE more == [p \in V \X Nat |-> IF p[2] < N THEN step[<<p[1], p[2] + 1>>] ELSE p[1]]
<1>1. more \in [V \X Nat -> V]
  <2>1. ASSUME NEW p \in V \X Nat PROVE more[p] \in V
    <3>1. p[1] \in V /\ p[2] \in Nat
      OBVIOUS
    <3>2. CASE p[2] < N
      <4>1. <<p[1], p[2] + 1>> \in V \X (1..N)
        BY <3>1, <3>2
      <4> QED  BY <3>2, <4>1
    <3>3. CASE ~(p[2] < N)
      BY <3>1, <3>3
    <3> QED  BY <3>2, <3>3
  <2> QED  BY <2>1
<1>2. ASSUME NEW v \in V, NEW i \in 1..N PROVE more[<<v, i - 1>>] = step[<<v, i>>]
  <2>1. <<v, i - 1>> \in V \X Nat /\ i - 1 < N /\ i - 1 + 1 = i
    OBVIOUS
  <2> QED  BY <2>1
<1> HIDE DEF more
<1>3. PICK f \in [Nat -> V] : f[0] = start /\ \A n \in Nat : f[n + 1] = more[<<f[n], n>>]
  <2>1. PICK f : Solves(f, V, start, more)
    BY <1>1, Recursion
  <2> QED  BY <2>1 DEF Solves
<1> DEFINE g == [i \in 0..N |-> f[i]]
<1>4. g \in [0..N -> V] /\ g[0] = start
  BY <1>3
<1>5. ASSUME NEW i \in 1..N PROVE g[i] = step[<<g[i - 1], i>>]
  <2>1. i - 1 \in Nat /\ i - 1 + 1 = i /\ f[i - 1] \in V
    BY <1>3
  <2>2. f[i] = more[<<f[i - 1], i - 1>>]
    BY <1>3, <2>1
  <2>3. g[i] = f[i] /\ g[i - 1] = f[i - 1]
    BY <2>1
  <2> QED  BY <1>2, <2>1, <2>2, <2>3
<1> HIDE DEF g
<1>6. SolvesUpTo(g, N, V, start, step)
  BY <1>4, <1>5 DEF SolvesUpTo
<1> QED  BY <1>6

\* The smaller of two numbers.
LEMMA MinOfTwo ==
  ASSUME NEW a \in Int, NEW b \in Int
  PROVE  Min({a, b}) = IF a <= b THEN a ELSE b
BY DEF Min

\* A function on 1..n is a sequence of length n.
LEMMA LengthOfFunction ==
  ASSUME NEW n \in Nat, NEW S, NEW f \in [1..n -> S]
  PROVE  f \in Seq(S) /\ Len(f) = n /\ DOMAIN f = 1..n
OBVIOUS

\* Division with remainder.
LEMMA Division ==
  ASSUME NEW M \in Nat \ {0}, NEW a \in Int
  PROVE  /\ a \div M \in Int /\ a % M \in 0..(M - 1)
         /\ M * (a \div M) <= a /\ a < M * (a \div M) + M
         /\ a = M * (a \div M) + (a % M)
OBVIOUS

\* Products are monotone.
LEMMA ProductMonotone ==
  ASSUME NEW M \in Nat, NEW a \in Int, NEW b \in Int, a <= b
  PROVE  M * a <= M * b
<1>1. PICK d \in Nat : b = a + d
  <2>1. b - a \in Nat /\ b = a + (b - a)
    OBVIOUS
  <2> QED  BY <2>1
<1>2. M * b = M * a + M * d /\ M * d >= 0
  BY <1>1
<1> QED  BY <1>2

\* A common positive factor cancels.
LEMMA ProductCancels ==
  ASSUME NEW M \in Nat \ {0}, NEW a \in Int, NEW b \in Int, M * a < M * b + M
  PROVE  a <= b
<1> SUFFICES ASSUME b + 1 <= a PROVE FALSE
  OBVIOUS
<1>1. M * (b + 1) <= M * a
  BY ProductMonotone
<1>2. M * (b + 1) = M * b + M
  OBVIOUS
<1>3. M * a \in Int /\ M * b \in Int
  OBVIOUS
<1> QED  BY <1>1, <1>2, <1>3

-----------------------------------------------------------------------------
(* Paced sources.                                                            *)

Source ==
    [kind : {"synthetic", "still", "video", "camera"}, period : {0, Period},
     frame_count : Nat, loop : BOOLEAN, produced : Nat, next_deadline : Int,
     still_delivered : BOOLEAN, position : Int]
ReaderState ==
    [src : Source, reading : BOOLEAN, time : Nat, ended : BOOLEAN, times : Seq(Nat)]

\* Only sources that count their frames are paced.
PacedCounts ==
    fs.src.period > 0 =>
        /\ fs.src.kind \in {"synthetic", "video"}
        /\ fs.times # <<>> => fs.src.produced > 0

\* The deadline is never far behind the frames delivered: a read() that is
\* waiting was at most a period late when it began, and each frame since has
\* moved the deadline on by a period.
DeadlineHolds ==
    LET n == Len(fs.times)
        deadline == fs.src.next_deadline
    IN fs.src.period > 0 =>
        /\ fs.reading /\ n >= 1 => deadline >= fs.times[n] - Period
        /\ n >= 2 => deadline >= fs.times[n - 1]
        /\ n >= 3 => deadline >= fs.times[n - 2] + Period

NothingAhead == \A i \in 1..Len(fs.times) : fs.times[i] <= fs.time

SourceInv ==
    fs \in ReaderState /\ PacedCounts /\ DeadlineHolds /\ NothingAhead /\ NoBurst

\* A source that was just opened.
LEMMA SourceInit == Init_fs => SourceInv
<1> SUFFICES ASSUME Init_fs PROVE SourceInv
  OBVIOUS
<1>1. PICK s \in make_source :
        fs = [src |-> s, reading |-> FALSE, time |-> 0, ended |-> FALSE, times |-> <<>>]
  BY DEF Init_fs
<1>2. s \in Source /\ (s.period > 0 => s.kind \in {"synthetic", "video"})
  <2>p. FrameCount \in Nat /\ Period \in Nat
    BY FrameSourcesAssumption
  <2>1. ASSUME NEW kind \in {"synthetic", "still", "video", "camera"},
               NEW p \in {0, Period}, NEW c \in Nat, NEW b \in BOOLEAN,
               p > 0 => kind \in {"synthetic", "video"},
               s = Opened(kind, p, c, b)
        PROVE  s \in Source /\ (s.period > 0 => s.kind \in {"synthetic", "video"})
    BY <2>1 DEF Opened, Source
  <2>2. ASSUME NEW p \in {0, Period}, NEW n \in {0, FrameCount},
               s = Opened("synthetic", p, n, FALSE)
        PROVE  s \in Source /\ (s.period > 0 => s.kind \in {"synthetic", "video"})
    BY <2>p, <2>1, <2>2
  <2>3. ASSUME NEW p \in {0, Period}, NEW b \in BOOLEAN,
               \/ s = Opened("video", p, 0, b)
               \/ s = Opened("still", 0, 0, b)
               \/ s = Opened("camera", 0, 0, b)
        PROVE  s \in Source /\ (s.period > 0 => s.kind \in {"synthetic", "video"})
    BY <2>1, <2>3
  <2> DEFINE Synthetic(p, n) == Opened("synthetic", p, n, FALSE)
             Sources == { Synthetic(p, n) : p \in {0, Period}, n \in {0, FrameCount} }
  <2>4. CASE s \in Sources
    <3>1. PICK p \in {0, Period}, n \in {0, FrameCount} : s = Synthetic(p, n)
      <4> HIDE DEF Synthetic
      <4> QED  BY <2>4
    <3> QED  BY <2>2, <3>1
  <2>5. CASE s \in { Opened("video", p, 0, b) : p \in {0, Period}, b \in BOOLEAN }
    <3>1. PICK p \in {0, Period}, b \in BOOLEAN : s = Opened("video", p, 0, b)
      BY <2>5
    <3> QED  BY <2>3, <3>1
  <2>6. CASE s \in { Opened("still", 0, 0, b) : b \in BOOLEAN }
    <3>1. PICK b \in BOOLEAN : s = Opened("still", 0, 0, b)
      BY <2>6
    <3> QED  BY <2>3, <3>1
  <2>7. CASE s \in { Opened("camera", 0, 0, b) : b \in BOOLEAN }
    <3>1. PICK b \in BOOLEAN : s = Opened("camera", 0, 0, b)
      BY <2>7
    <3> QED  BY <2>3, <3>1
  <2>8. make_source =
          Sources \cup { Opened("still", 0, 0, b) : b \in BOOLEAN }
          \cup { Opened("video", p, 0, b) : p \in {0, Period}, b \in BOOLEAN }
          \cup { Opened("camera", 0, 0, b) : b \in BOOLEAN }
    BY DEF make_source
  <2> HIDE DEF Sources
  <2> QED  BY <2>4, <2>5, <2>6, <2>7, <2>8
<1>3. /\ fs.src = s /\ fs.times = <<>> /\ Len(fs.times) = 0 /\ fs \in ReaderState
  BY <1>1, <1>2 DEF ReaderState
<1> QED
  BY <1>2, <1>3 DEF SourceInv, PacedCounts, DeadlineHolds, NothingAhead, NoBurst

\* What read() does to the source before and after its sleep.
LEMMA SourceSteps ==
  ASSUME NEW s \in Source, NEW t \in Nat
  PROVE  /\ s.period > 0 =>
              /\ Anchored(s, t) \in Source
              /\ Anchored(s, t).kind = s.kind /\ Anchored(s, t).period = s.period
              /\ Anchored(s, t).produced = s.produced
              /\ \/ Anchored(s, t).next_deadline = t
                    /\ (s.produced = 0 \/ t > s.next_deadline + s.period)
                 \/ Anchored(s, t).next_deadline = s.next_deadline
                    /\ s.produced # 0 /\ t <= s.next_deadline + s.period
         /\ \A r \in Delivers(s) :
              /\ r \in Source /\ r.kind = s.kind /\ r.period = s.period
              /\ s.kind \in {"synthetic", "video"} =>
                    r.produced > 0 /\ r.next_deadline = s.next_deadline + s.period
         /\ \A r \in Fails(s) :
              /\ r \in Source /\ r.kind = s.kind /\ r.period = s.period
              /\ r.produced = s.produced
              /\ r.next_deadline = s.next_deadline + s.period
<1>p. Period \in Nat /\ VideoLength \in Nat
  BY FrameSourcesAssumption
<1>1. s.period > 0 =>
              /\ Anchored(s, t) \in Source
              /\ Anchored(s, t).kind = s.kind /\ Anchored(s, t).period = s.period
              /\ Anchored(s, t).produced = s.produced
              /\ \/ Anchored(s, t).next_deadline = t
                    /\ (s.produced = 0 \/ t > s.next_deadline + s.period)
                 \/ Anchored(s, t).next_deadline = s.next_deadline
                    /\ s.produced # 0 /\ t <= s.next_deadline + s.period
  BY <1>p DEF Anchored, Source
<1>2. ASSUME NEW r \in Delivers(s)
      PROVE  /\ r \in Source /\ r.kind = s.kind /\ r.period = s.period
             /\ s.kind \in {"synthetic", "video"} =>
                    r.produced > 0 /\ r.next_deadline = s.next_deadline + s.period
  <2> DEFINE next == [s EXCEPT !.next_deadline = @ + s.period, !.produced = @ + 1]
  <2>1. /\ next \in Source /\ next.kind = s.kind /\ next.period = s.period
        /\ next.produced > 0 /\ next.next_deadline = s.next_deadline + s.period
    <3>1. /\ s.next_deadline + s.period \in Int /\ s.produced + 1 \in Nat
          /\ s.produced + 1 > 0
      BY <1>p DEF Source
    <3> QED  BY <3>1 DEF Source
  <2>2. CASE s.kind \in {"synthetic", "camera"}
    BY <2>1, <2>2 DEF Delivers
  <2>3. CASE s.kind = "still"
    BY <2>3 DEF Delivers, Source
  <2>4. CASE s.kind = "video"
    <3>1. PICK p \in {s.position + 1} \cup (IF s.loop THEN {1} ELSE {}) :
             r = [next EXCEPT !.position = p]
      BY <2>4 DEF Delivers
    <3>2. p \in Int
      BY <3>1 DEF Source
    <3> HIDE DEF next
    <3> QED  BY <2>1, <2>4, <3>1, <3>2 DEF Source
  <2> QED  BY <2>2, <2>3, <2>4 DEF Source
<1>3. ASSUME NEW r \in Fails(s)
      PROVE  /\ r \in Source /\ r.kind = s.kind /\ r.period = s.period
             /\ r.produced = s.produced
             /\ r.next_deadline = s.next_deadline + s.period
  <2> DEFINE position == IF s.kind = "video" /\ s.loop THEN 0 ELSE s.position
  <2>1. s.next_deadline + s.period \in Int /\ position \in Int
    BY <1>p DEF Source
  <2>2. r = [s EXCEPT !.next_deadline = s.next_deadline + s.period,
                      !.position = position]
    BY <1>3 DEF Fails, Source
  <2> HIDE DEF position
  <2> QED  BY <2>1, <2>2 DEF Source
<1> QED  BY <1>1, <1>2, <1>3

\* A read(), a wake-up or a tick of the clock keeps the invariant of a source.
LEMMA SourceStep == SourceInv /\ Next_fs => SourceInv'
<1> SUFFICES ASSUME SourceInv, Next_fs PROVE SourceInv'
  OBVIOUS
<1> DEFINE n == Len(fs.times)
<1>p. Period \in Nat
  BY FrameSourcesAssumption
<1>6. /\ fs \in ReaderState /\ fs.src \in Source /\ fs.time \in Nat
      /\ fs.times \in Seq(Nat) /\ n \in Nat
      /\ \A i \in 1..n : fs.times[i] \in Nat
      /\ fs.src.period \in {0, Period} /\ fs.src.next_deadline \in Int
  BY DEF SourceInv, ReaderState, Source
<1>n. /\ n >= 1 => n \in 1..n
      /\ n >= 2 => n - 1 \in 1..n
      /\ n >= 3 => n - 2 \in 1..n
  BY <1>6
<1>1. CASE ReadBegin
  <2>1. CASE fs' = [fs EXCEPT !.ended = TRUE]
    <3>1. /\ fs' \in ReaderState /\ fs'.src = fs.src /\ fs'.times = fs.times
          /\ fs'.reading = fs.reading /\ fs'.time = fs.time
      BY <2>1, <1>6 DEF ReaderState
    <3> QED  BY <3>1 DEF SourceInv, PacedCounts, DeadlineHolds, NothingAhead, NoBurst
  <2>2. CASE fs.src.period > 0
             /\ fs' = [fs EXCEPT !.reading = TRUE, !.src = Anchored(fs.src, fs.time)]
    <3> DEFINE s == fs.src
               a == Anchored(s, fs.time)
    <3>1. /\ a \in Source /\ a.kind = s.kind /\ a.period = s.period
          /\ a.produced = s.produced
          /\ \/ a.next_deadline = fs.time
                /\ (s.produced = 0 \/ fs.time > s.next_deadline + s.period)
             \/ a.next_deadline = s.next_deadline
                /\ s.produced # 0 /\ fs.time <= s.next_deadline + s.period
      BY <1>6, <2>2, SourceSteps
    <3>2. /\ fs' \in ReaderState /\ fs'.src = a /\ fs'.times = fs.times
          /\ fs'.reading = TRUE /\ fs'.time = fs.time
      BY <1>6, <2>2, <3>1 DEF ReaderState
    <3> HIDE DEF a
    <3>3. s.period = Period
      BY <1>6, <2>2
    <3>4. n >= 1 => s.produced # 0
      BY <1>6, <2>2 DEF SourceInv, PacedCounts, Source
    <3>5. DeadlineHolds'
      <4>1. CASE n = 0
        BY <1>p, <1>6, <3>1, <3>2, <4>1 DEF DeadlineHolds
      <4>2. CASE n >= 1
        <5>1. fs.times[n] <= fs.time /\ fs.times[n] \in Nat
          BY <1>6, <4>2 DEF SourceInv, NothingAhead
        <5>2. a.next_deadline \in Int /\ a.next_deadline >= s.next_deadline
              /\ a.next_deadline >= fs.time - Period
          BY <1>p, <1>6, <3>1, <3>3, <3>4, <4>2 DEF Source
        <5>3. a.next_deadline >= fs.times[n] - Period
          BY <1>p, <1>6, <5>1, <5>2
        <5>4. n >= 2 => fs.times[n - 1] \in Nat /\ a.next_deadline >= fs.times[n - 1]
          <6>1. n >= 2 => fs.times[n - 1] \in Nat
            BY <1>6, <1>n
          <6>2. n >= 2 => s.next_deadline >= fs.times[n - 1]
            BY <2>2 DEF SourceInv, DeadlineHolds
          <6> QED  BY <1>6, <5>2, <6>1, <6>2
        <5>5. n >= 3 => a.next_deadline >= fs.times[n - 2] + Period
          <6>1. n >= 3 => fs.times[n - 2] \in Nat
            BY <1>6
          <6>2. n >= 3 => s.next_deadline >= fs.times[n - 2] + Period
            BY <2>2 DEF SourceInv, DeadlineHolds
          <6> QED  BY <1>p, <1>6, <5>2, <6>1, <6>2
        <5> QED  BY <3>2, <5>3, <5>4, <5>5 DEF DeadlineHolds
      <4> QED  BY <1>6, <4>1, <4>2
    <3> QED
      BY <2>2, <3>1, <3>2, <3>5 DEF SourceInv, PacedCounts, NothingAhead, NoBurst
  <2>3. CASE ~(fs.src.period > 0) /\ fs' = [fs EXCEPT !.reading = TRUE]
    <3>1. /\ fs' \in ReaderState /\ fs'.src = fs.src /\ fs'.times = fs.times
          /\ fs'.time = fs.time
      BY <2>3, <1>6 DEF ReaderState
    <3> QED  BY <2>3, <3>1 DEF SourceInv, PacedCounts, DeadlineHolds, NothingAhead, NoBurst
  <2>4. ~(fs.src.period > 0) /\ ~AtEnd(fs.src) => fs' = [fs EXCEPT !.reading = TRUE]
    BY <1>1, <1>6 DEF ReadBegin, ReaderState
  <2> QED  BY <1>1, <2>1, <2>2, <2>3, <2>4 DEF ReadBegin
<1>2. CASE ReadDelivers
  <2>1. PICK s \in Delivers(fs.src) :
           fs' = [fs EXCEPT !.src = s, !.reading = FALSE, !.ended = FALSE,
                            !.times = Append(fs.times, fs.time)]
    BY <1>2 DEF ReadDelivers
  <2>2. /\ s \in Source /\ s.kind = fs.src.kind /\ s.period = fs.src.period
        /\ fs.src.kind \in {"synthetic", "video"} =>
              s.produced > 0 /\ s.next_deadline = fs.src.next_deadline + fs.src.period
    BY <1>6, <2>1, SourceSteps
  <2> DEFINE times == Append(fs.times, fs.time)
  <2>3. /\ times \in Seq(Nat) /\ Len(times) = n + 1
        /\ \A i \in 1..n : times[i] = fs.times[i]
        /\ times[n + 1] = fs.time /\ times # <<>>
    BY <1>6
  <2>4. /\ fs' \in ReaderState /\ fs'.src = s /\ fs'.times = times
        /\ fs'.reading = FALSE /\ fs'.time = fs.time
    BY <1>6, <2>1, <2>2, <2>3 DEF ReaderState
  <2> HIDE DEF times
  <2>5. PacedCounts'
    BY <2>2, <2>4 DEF SourceInv, PacedCounts
  <2>6. NothingAhead'
    <3>1. ASSUME NEW i \in 1..(n + 1) PROVE times[i] <= fs.time
      <4>1. CASE i = n + 1
        BY <1>6, <2>3, <4>1
      <4>2. CASE i # n + 1
        <5>1. i \in 1..n
          BY <1>6, <4>2
        <5> QED  BY <2>3, <5>1 DEF SourceInv, NothingAhead
      <4> QED  BY <4>1, <4>2
    <3> QED  BY <2>3, <2>4, <3>1 DEF NothingAhead
  <2>7. CASE s.period > 0
    <3>1. /\ s.period = Period /\ fs.src.period = Period /\ fs.src.period > 0
          /\ fs.time >= fs.src.next_deadline
          /\ fs.reading /\ s.next_deadline = fs.src.next_deadline + Period
      BY <1>2, <1>6, <2>2, <2>7 DEF SourceInv, PacedCounts, ReadDelivers, Awake
    <3>2. /\ n >= 1 => fs.src.next_deadline >= fs.times[n] - Period
          /\ n >= 2 => fs.src.next_deadline >= fs.times[n - 1]
          /\ n >= 3 => fs.src.next_deadline >= fs.times[n - 2] + Period
      BY <3>1 DEF SourceInv, DeadlineHolds
    <3>3. /\ n >= 1 => fs.times[n] \in Nat /\ times[n] = fs.times[n]
          /\ n >= 2 => fs.times[n - 1] \in Nat /\ times[n - 1] = fs.times[n - 1]
          /\ n >= 3 => fs.times[n - 2] \in Nat /\ times[n - 2] = fs.times[n - 2]
      BY <1>6, <1>n, <2>3
    <3>4. DeadlineHolds'
      <4>1. /\ n + 1 >= 2 => s.next_deadline >= times[n]
            /\ n + 1 >= 3 => s.next_deadline >= times[n - 1] + Period
        <5> DEFINE u == fs.times[n]
                   v == fs.times[n - 1]
        <5>1. n >= 1 => s.next_deadline >= u
          BY <1>p, <1>6, <3>1, <3>2, <3>3
        <5>2. n >= 2 => s.next_deadline >= v + Period
          <6>1. n >= 2 => v \in Nat /\ fs.src.next_deadline >= v
            BY <3>2, <3>3
          <6> HIDE DEF v
          <6> QED  BY <1>p, <1>6, <3>1, <6>1
        <5> QED  BY <1>6, <3>3, <5>1, <5>2
      <4>2. (n + 1) - 1 = n /\ (n + 1) - 2 = n - 1
        BY <1>6
      <4> QED  BY <2>3, <2>4, <4>1, <4>2 DEF DeadlineHolds
    <3>5. NoBurst'
      <4>1. ASSUME NEW i \in 1..(n - 2) PROVE times[i + 3] - times[i] >= Period
        <5>1. CASE i = n - 2
          <6> DEFINE w == fs.times[n - 2]
          <6>1. n >= 3 /\ i + 3 = n + 1
            BY <1>6, <5>1
          <6>2. w \in Nat /\ times[i] = w /\ fs.src.next_deadline >= w + Period
            BY <3>2, <3>3, <5>1, <6>1
          <6>3. times[i + 3] = fs.time
            BY <2>3, <6>1
          <6> HIDE DEF w
          <6> QED  BY <1>p, <1>6, <3>1, <6>2, <6>3
        <5>2. CASE i # n - 2
          <6>1. i \in 1..(n - 3) /\ i \in 1..n /\ i + 3 \in 1..n
            BY <1>6, <5>2
          <6> QED  BY <2>3, <3>1, <6>1 DEF SourceInv, NoBurst
        <5> QED  BY <5>1, <5>2
      <4>2. (n + 1) - 3 = n - 2
        BY <1>6
      <4> QED  BY <2>3, <2>4, <4>1, <4>2 DEF NoBurst
    <3> QED  BY <2>4, <2>5, <2>6, <3>4, <3>5 DEF SourceInv
  <2> QED
    BY <2>4, <2>5, <2>6, <2>7 DEF SourceInv, DeadlineHolds, NoBurst
<1>3. CASE ReadFails
  <2>1. PICK s \in Fails(fs.src) :
           fs' = [fs EXCEPT !.src = s, !.reading = FALSE, !.ended = TRUE]
    BY <1>3 DEF ReadFails
  <2>2. /\ s \in Source /\ s.kind = fs.src.kind /\ s.period = fs.src.period
        /\ s.produced = fs.src.produced
        /\ s.next_deadline = fs.src.next_deadline + fs.src.period
    BY <1>6, <2>1, SourceSteps
  <2>3. /\ fs' \in ReaderState /\ fs'.src = s /\ fs'.times = fs.times
        /\ fs'.reading = FALSE /\ fs'.time = fs.time
    BY <1>6, <2>1, <2>2 DEF ReaderState
  <2>4. /\ n >= 2 => fs.times[n - 1] \in Nat
        /\ n >= 3 => fs.times[n - 2] \in Nat
    BY <1>6
  <2>5. DeadlineHolds'
    <3> DEFINE v == fs.times[n - 1]
               w == fs.times[n - 2]
    <3>1. CASE fs.src.period > 0
      <4>1. s.next_deadline = fs.src.next_deadline + Period
        BY <1>6, <2>2, <3>1
      <4>2. n >= 2 => v \in Nat /\ fs.src.next_deadline >= v
        BY <2>4, <3>1 DEF SourceInv, DeadlineHolds
      <4>3. n >= 3 => w \in Nat /\ fs.src.next_deadline >= w + Period
        BY <2>4, <3>1 DEF SourceInv, DeadlineHolds
      <4>4. n >= 2 => s.next_deadline >= v
        <5> HIDE DEF v
        <5> QED  BY <1>p, <1>6, <4>1, <4>2
      <4>5. n >= 3 => s.next_deadline >= w + Period
        <5> HIDE DEF w
        <5> QED  BY <1>p, <1>6, <4>1, <4>3
      <4> QED  BY <2>3, <4>4, <4>5 DEF DeadlineHolds
    <3> QED  BY <2>2, <2>3, <3>1 DEF DeadlineHolds
  <2> QED  BY <2>2, <2>3, <2>5 DEF SourceInv, PacedCounts, NothingAhead, NoBurst
<1>4. CASE Tick
  <2>1. /\ fs' \in ReaderState /\ fs'.src = fs.src /\ fs'.times = fs.times
        /\ fs'.reading = fs.reading /\ fs'.time = fs.time + 1
    BY <1>4, <1>6 DEF Tick, ReaderState
  <2>2. NothingAhead'
    BY <1>6, <2>1 DEF SourceInv, NothingAhead
  <2> QED  BY <2>1, <2>2 DEF SourceInv, PacedCounts, DeadlineHolds, NoBurst
<1> QED  BY <1>1, <1>2, <1>3, <1>4 DEF Next_fs

\* A paced source never delivers four frames within less than a period,
\* however late it is read and however long a read() oversleeps.
THEOREM PacedWithoutBurst == Spec => []NoBurst
<1>1. Init => SourceInv
  BY SourceInit DEF Init
<1>2. SourceInv /\ [Next]_vars => SourceInv'
  <2> SUFFICES ASSUME SourceInv, [Next]_vars PROVE SourceInv'
    OBVIOUS
  <2>1. Next_fs \/ fs' = fs
    BY DEF Next, vars
  <2>2. CASE fs' = fs
    BY <2>2 DEF SourceInv, PacedCounts, DeadlineHolds, NothingAhead, NoBurst
  <2> QED  BY <2>1, <2>2, SourceStep
<1>3. SourceInv => NoBurst
  BY DEF SourceInv
<1> QED  BY <1>1, <1>2, <1>3, PTL DEF Spec

-----------------------------------------------------------------------------
(* The tracker.                                                              *)

Track ==
    [state : {"tracked", "lost", "removed"}, activated : BOOLEAN,
     start_frame : Nat, last_frame : Nat]
TrackTables == UNION {[T -> Track] : T \in SUBSET Nat}
TrackerState ==
    [tracks : TrackTables, frame_id : Nat, next_id : Nat, dets : Seq(Nat),
     by : SUBSET (Nat \X Nat), out : SUBSET (Nat \X Int), resets : Nat]

\* A track was started in one of the frames since the last reset().
Dated ==
    \A t \in DOMAIN tr.tracks : tr.tracks[t].start_frame \in 1..tr.frame_id

TrackerInv == tr \in TrackerState /\ Dated /\ TrackIdentity /\ TrackLifeCycle

OneToOne(m) == \A p, q \in m : p[1] = q[1] <=> p[2] = q[2]

\* The tables of tracks, track by track.
LEMMA TableFacts ==
  ASSUME NEW f \in TrackTables
  PROVE  /\ DOMAIN f \subseteq Nat
         /\ \A t \in DOMAIN f : f[t] \in Track
<1>1. PICK T \in SUBSET Nat : f \in [T -> Track]
  BY DEF TrackTables
<1> QED  BY <1>1

\* And back.
LEMMA TableIntro ==
  ASSUME NEW T \in SUBSET Nat, NEW f \in [T -> Track]
  PROVE  f \in TrackTables
BY DEF TrackTables

\* apply_match(), track by track.
LEMMA MatchFacts ==
  ASSUME NEW D \in SUBSET Nat, NEW f \in [D -> Track], NEW T, NEW frame \in Nat
  PROVE  /\ ApplyMatch(f, T, frame) \in [D -> Track]
         /\ \A t \in D \ T : ApplyMatch(f, T, frame)[t] = f[t]
         /\ \A t \in D \cap T :
               /\ ApplyMatch(f, T, frame)[t].state = "tracked"
               /\ ApplyMatch(f, T, frame)[t].activated
               /\ ApplyMatch(f, T, frame)[t].last_frame = frame
               /\ ApplyMatch(f, T, frame)[t].start_frame = f[t].start_frame
<1> DEFINE g(t) == [f[t] EXCEPT !.state = "tracked", !.activated = TRUE,
                                !.last_frame = frame]
<1>1. ASSUME NEW t \in D
      PROVE  /\ g(t) \in Track /\ g(t).state = "tracked" /\ g(t).activated
             /\ g(t).last_frame = frame /\ g(t).start_frame = f[t].start_frame
             /\ f[t] \in Track
  <2>1. f[t] \in Track
    OBVIOUS
  <2> QED  BY <2>1 DEF Track
<1>2. /\ DOMAIN f = D
      /\ ApplyMatch(f, T, frame) = [t \in D |-> IF t \in T THEN g(t) ELSE f[t]]
  BY DEF ApplyMatch
<1> HIDE DEF g
<1> QED  BY <1>1, <1>2

\* A change of state, track by track.
LEMMA StateFacts ==
  ASSUME NEW D \in SUBSET Nat, NEW f \in [D -> Track], NEW T,
         NEW state \in {"tracked", "lost", "removed"}
  PROVE  /\ SetState(f, T, state) \in [D -> Track]
         /\ \A t \in D \ T : SetState(f, T, state)[t] = f[t]
         /\ \A t \in D \cap T :
               /\ SetState(f, T, state)[t].state = state
               /\ SetState(f, T, state)[t].activated <=> f[t].activated
               /\ SetState(f, T, state)[t].last_frame = f[t].last_frame
               /\ SetState(f, T, state)[t].start_frame = f[t].start_frame
<1> DEFINE g(t) == [f[t] EXCEPT !.state = state]
<1>1. ASSUME NEW t \in D
      PROVE  /\ g(t) \in Track /\ g(t).state = state
             /\ g(t).activated <=> f[t].activated
             /\ g(t).last_frame = f[t].last_frame
             /\ g(t).start_frame = f[t].start_frame
             /\ f[t] \in Track
  <2>1. f[t] \in Track
    OBVIOUS
  <2> QED  BY <2>1 DEF Track
<1>2. /\ DOMAIN f = D
      /\ SetState(f, T, state) = [t \in D |-> IF t \in T THEN g(t) ELSE f[t]]
  BY DEF SetState
<1> HIDE DEF g
<1> QED  BY <1>1, <1>2

\* Two associations that share neither tracks nor detections.
LEMMA UnionOneToOne ==
  ASSUME NEW A, NEW B, OneToOne(A), OneToOne(B),
         Rows(A) \cap Rows(B) = {}, Cols(A) \cap Cols(B) = {}
  PROVE  OneToOne(A \cup B)
<1>1. /\ \A p \in A, q \in B : p[1] # q[1] /\ p[2] # q[2]
  BY DEF Rows, Cols
<1> QED  BY <1>1 DEF OneToOne

\* An association as associate() promises it.
LEMMA AssociationFacts ==
  ASSUME NEW T, NEW D, NEW m \in Associations(T, D)
  PROVE  /\ m \subseteq T \X D /\ OneToOne(m)
         /\ Rows(m) \subseteq T /\ Cols(m) \subseteq D
<1>1. m \in SUBSET (T \X D) /\ OneToOne(m)
  BY DEF Associations, OneToOne
<1> QED  BY <1>1 DEF Rows, Cols

\* New ids are handed out in order of the detections, each one once.
LEMMA StartedFacts ==
  ASSUME tr.next_id \in Nat, NEW new \in SUBSET Nat, IsFiniteSet(new)
  PROVE  LET m == {<<IdOf(new, d), d>> : d \in new}
         IN /\ NextId(new) \in Nat /\ NextId(new) >= tr.next_id
            /\ m \subseteq (tr.next_id..(NextId(new) - 1)) \X new
            /\ OneToOne(m)
            /\ Rows(m) = tr.next_id..(NextId(new) - 1)
            /\ Cols(m) = new
<1> DEFINE m == {<<IdOf(new, d), d>> : d \in new}
           Before(d) == {e \in new : e < d}
           card(d) == Cardinality(Before(d))
<1>1. Cardinality(new) \in Nat
  BY FS_CardinalityType
<1>2. \A d \in new : IsFiniteSet(Before(d)) /\ card(d) \in Nat
  BY FS_Subset, FS_CardinalityType
<1>3. \A d \in new : card(d) < Cardinality(new)
  <2> SUFFICES ASSUME NEW d \in new PROVE card(d) < Cardinality(new)
    OBVIOUS
  <2>1. Before(d) \in SUBSET new /\ Before(d) # new
    OBVIOUS
  <2>2. card(d) <= Cardinality(new) /\ card(d) # Cardinality(new)
    BY <2>1, FS_Subset
  <2> QED  BY <1>1, <1>2, <2>2
<1>4. \A d, e \in new : d < e => card(d) < card(e)
  <2> SUFFICES ASSUME NEW d \in new, NEW e \in new, d < e PROVE card(d) < card(e)
    OBVIOUS
  <2>1. Before(d) \in SUBSET Before(e) /\ Before(d) # Before(e)
    <3>1. \A x \in new : x < d => x < e
      OBVIOUS
    <3>2. d \in Before(e) /\ d \notin Before(d)
      OBVIOUS
    <3> QED  BY <3>1, <3>2
  <2>2. card(d) <= card(e) /\ card(d) # card(e)
    BY <1>2, <2>1, FS_Subset
  <2> QED  BY <1>2, <2>2
<1>5. \A d \in new : IdOf(new, d) = tr.next_id + card(d)
  BY DEF IdOf
<1>6. NextId(new) = tr.next_id + Cardinality(new)
  BY DEF NextId
<1> HIDE DEF card
<1>7. \A d \in new : IdOf(new, d) \in tr.next_id..(NextId(new) - 1)
  <2> SUFFICES ASSUME NEW d \in new
               PROVE  IdOf(new, d) \in tr.next_id..(NextId(new) - 1)
    OBVIOUS
  <2>1. card(d) \in Nat /\ card(d) < Cardinality(new)
    BY <1>2, <1>3
  <2>2. tr.next_id + card(d) \in tr.next_id..(tr.next_id + Cardinality(new) - 1)
    BY <1>1, <2>1
  <2>3. IdOf(new, d) = tr.next_id + card(d)
    BY <1>5
  <2>4. NextId(new) - 1 = tr.next_id + Cardinality(new) - 1
    BY <1>1, <1>6
  <2> DEFINE a == IdOf(new, d)
             b == NextId(new) - 1
  <2>5. /\ a = tr.next_id + card(d)
        /\ b = tr.next_id + Cardinality(new) - 1
    BY <2>3, <2>4
  <2> HIDE DEF a, b
  <2>6. a \in tr.next_id..b
    BY <2>2, <2>5
  <2> QED  BY <2>6 DEF a, b
<1>8. \A d, e \in new : IdOf(new, d) = IdOf(new, e) => d = e
  <2> SUFFICES ASSUME NEW d \in new, NEW e \in new, IdOf(new, d) = IdOf(new, e)
               PROVE  d = e
    OBVIOUS
  <2>1. card(d) \in Nat /\ card(e) \in Nat
    BY <1>2
  <2>2. tr.next_id + card(d) = tr.next_id + card(e)
    BY <1>5
  <2>3. card(d) = card(e)
    BY <2>1, <2>2
  <2>4. ~(card(d) < card(e)) /\ ~(card(e) < card(d))
    BY <2>1, <2>3
  <2>5. ~(d < e) /\ ~(e < d)
    BY <1>4, <2>4
  <2> QED  BY <2>5
<1>9. OneToOne(m)
  BY <1>8 DEF OneToOne
<1>10. \A x \in tr.next_id..(NextId(new) - 1) : \E d \in new : IdOf(new, d) = x
  <2> DEFINE ids == tr.next_id..(NextId(new) - 1)
             f == [d \in new |-> IdOf(new, d)]
  <2>1. IsFiniteSet(ids) /\ Cardinality(ids) = Cardinality(new)
    <3>1. tr.next_id \in Int /\ NextId(new) - 1 \in Int
      BY <1>1, <1>6
    <3>2. /\ IsFiniteSet(ids)
          /\ Cardinality(ids) = IF tr.next_id > NextId(new) - 1 THEN 0
                                ELSE (NextId(new) - 1) - tr.next_id + 1
      BY <3>1, FS_Interval
    <3> DEFINE c == Cardinality(ids)
    <3> HIDE DEF c
    <3>3. c = Cardinality(new)
      <4>1. c = IF tr.next_id > NextId(new) - 1 THEN 0
                ELSE (NextId(new) - 1) - tr.next_id + 1
        BY <3>2 DEF c
      <4> QED  BY <1>1, <1>6, <4>1
    <3> QED  BY <3>2, <3>3 DEF c
  <2> HIDE DEF ids
  <2>2. f \in Injection(new, ids)
    BY <1>7, <1>8 DEF Injection, IsInjective, ids
  <2> HIDE DEF f
  <2>3. f \in Surjection(new, ids)
    BY <2>1, <2>2, FS_Injection
  <2> QED  BY <2>3 DEF Surjection, f, ids
<1>11. Rows(m) = tr.next_id..(NextId(new) - 1) /\ Cols(m) = new
  <2>1. \A p \in m : \E d \in new : p = <<IdOf(new, d), d>>
    OBVIOUS
  <2>2. \A p \in m : p[1] \in tr.next_id..(NextId(new) - 1) /\ p[2] \in new
    BY <1>7, <2>1
  <2>3. \A d \in new : <<IdOf(new, d), d>> \in m /\ <<IdOf(new, d), d>>[2] = d
    OBVIOUS
  <2> HIDE DEF m
  <2>4. Rows(m) \subseteq tr.next_id..(NextId(new) - 1)
    BY <2>2 DEF Rows
  <2>5. Cols(m) \subseteq new
    BY <2>2 DEF Cols
  <2>6. new \subseteq Cols(m)
    BY <2>3 DEF Cols
  <2>7. \A d \in new : <<IdOf(new, d), d>>[1] \in Rows(m)
    BY <2>3 DEF Rows
  <2>8. tr.next_id..(NextId(new) - 1) \subseteq Rows(m)
    BY <1>10, <2>7
  <2> QED  BY <2>4, <2>5, <2>6, <2>8
<1> QED  BY <1>1, <1>6, <1>7, <1>9, <1>11

\* A tracker without tracks, after its constructor or reset().
Emptied(n) ==
    [tracks |-> <<>>, frame_id |-> 0, next_id |-> 1, dets |-> <<>>,
     by |-> {}, out |-> {}, resets |-> n]

\* It satisfies the invariant.
LEMMA EmptyTracker ==
  /\ \A n \in Nat : tr = Emptied(n) => TrackerInv
  /\ \A n \in Nat : tr' = Emptied(n) => TrackerInv'
<1>1. <<>> \in TrackTables /\ DOMAIN <<>> = {} /\ <<>> \in Seq(Nat)
  <2>1. <<>> \in [{} -> Track] /\ {} \in SUBSET Nat
    OBVIOUS
  <2>2. <<>> \in TrackTables
    BY <2>1, TableIntro
  <2> QED  BY <2>2
<1>2. ASSUME NEW n \in Nat
      PROVE  /\ Emptied(n) \in TrackerState /\ Emptied(n).tracks = <<>>
             /\ Emptied(n).dets = <<>> /\ Emptied(n).by = {} /\ Emptied(n).out = {}
  BY <1>1 DEF Emptied, TrackerState
<1>3. Rows({}) = {} /\ Cols({}) = {}
  BY DEF Rows, Cols
<1> QED
  BY <1>1, <1>2, <1>3 DEF TrackerInv, Dated, TrackIdentity, TrackLifeCycle

\* update() leaves a tracker that satisfies the invariant.
LEMMA UpdateStep ==
  ASSUME TrackerInv, NEW dets \in BoundedSeq(TrackScores, MaxDetections), update(dets)
  PROVE  TrackerInv'
<1> DEFINE D == DOMAIN tr.tracks
           old(t) == tr.tracks[t]
           frame == tr.frame_id + 1
           high == {d \in DOMAIN dets : dets[d] >= high_threshold}
           low == {d \in DOMAIN dets : dets[d] < high_threshold /\ dets[d] > low_threshold}
           unconfirmed == {t \in D : tr.tracks[t].state = "tracked"
                                     /\ ~tr.tracks[t].activated}
           pool == D \ unconfirmed
           Tracks1(m1) == ApplyMatch(tr.tracks, Rows(m1), frame)
           Remaining(m1) == {t \in pool \ Rows(m1) : Tracks1(m1)[t].state = "tracked"}
           Tracks2(m1, m2) == SetState(ApplyMatch(Tracks1(m1), Rows(m2), frame),
                                       Remaining(m1) \ Rows(m2), "lost")
           Tracks3(m1, m2, m3) == SetState(ApplyMatch(Tracks2(m1, m2), Rows(m3), frame),
                                           unconfirmed \ Rows(m3), "removed")
           New(m1, m3) == Starters(dets, Leftovers(high, m1) \ Cols(m3))
           Started(m1, m3) ==
             [t \in tr.next_id..(NextId(New(m1, m3)) - 1) |->
                [state |-> "tracked", activated |-> frame = 1,
                 start_frame |-> frame, last_frame |-> frame]]
           All(m1, m2, m3) ==
             [t \in DOMAIN Tracks3(m1, m2, m3) \cup DOMAIN Started(m1, m3) |->
                IF t \in DOMAIN Started(m1, m3) THEN Started(m1, m3)[t]
                                                ELSE Tracks3(m1, m2, m3)[t]]
           Result(m1, m2, m3) == Survivors(All(m1, m2, m3), frame)
<1>1. PICK m1 \in Associations(pool, high) :
        \E m2 \in Associations(Remaining(m1), low),
           m3 \in Associations(unconfirmed, Leftovers(high, m1)) :
          tr' = [tr EXCEPT
                   !.tracks = Result(m1, m2, m3), !.frame_id = frame,
                   !.next_id = NextId(New(m1, m3)), !.dets = dets,
                   !.by = m1 \cup m2 \cup m3
                          \cup {<<IdOf(New(m1, m3), d), d>> : d \in New(m1, m3)},
                   !.out = {<<t, frame - Result(m1, m2, m3)[t].start_frame + 1>> :
                              t \in {t \in DOMAIN Result(m1, m2, m3) :
                                       /\ Result(m1, m2, m3)[t].state = "tracked"
                                       /\ Result(m1, m2, m3)[t].activated}}]
  BY DEF update
<1>2. PICK m2 \in Associations(Remaining(m1), low),
           m3 \in Associations(unconfirmed, Leftovers(high, m1)) :
          tr' = [tr EXCEPT
                   !.tracks = Result(m1, m2, m3), !.frame_id = frame,
                   !.next_id = NextId(New(m1, m3)), !.dets = dets,
                   !.by = m1 \cup m2 \cup m3
                          \cup {<<IdOf(New(m1, m3), d), d>> : d \in New(m1, m3)},
                   !.out = {<<t, frame - Result(m1, m2, m3)[t].start_frame + 1>> :
                              t \in {t \in DOMAIN Result(m1, m2, m3) :
                                       /\ Result(m1, m2, m3)[t].state = "tracked"
                                       /\ Result(m1, m2, m3)[t].activated}}]
  BY <1>1
<1> DEFINE remaining == Remaining(m1)
           new == New(m1, m3)
           ids == tr.next_id..(NextId(new) - 1)
           tracks3 == Tracks3(m1, m2, m3)
           all == All(m1, m2, m3)
           tracks == Result(m1, m2, m3)
           m4 == {<<IdOf(new, d), d>> : d \in new}
           by == m1 \cup m2 \cup m3 \cup m4
           reported == {t \in DOMAIN tracks : tracks[t].state = "tracked"
                                              /\ tracks[t].activated}
           out == {<<t, frame - tracks[t].start_frame + 1>> : t \in reported}
<1>3. /\ tr \in TrackerState /\ tr.tracks \in [D -> Track] /\ D \in SUBSET Nat
      /\ frame \in Nat /\ frame >= 1 /\ tr.frame_id \in Nat /\ tr.next_id \in Nat
      /\ \A t \in D : t < tr.next_id
  <2>1. tr \in TrackerState /\ tr.tracks \in TrackTables /\ tr.frame_id \in Nat
        /\ tr.next_id \in Nat
    BY DEF TrackerInv, TrackerState
  <2>2. PICK T \in SUBSET Nat : tr.tracks \in [T -> Track]
    BY <2>1 DEF TrackTables
  <2>3. D = T
    BY <2>2
  <2> QED  BY <2>1, <2>2, <2>3 DEF TrackerInv, TrackIdentity
<1>4. /\ DOMAIN dets \in SUBSET Nat /\ IsFiniteSet(DOMAIN dets) /\ dets \in Seq(Nat)
      /\ \A d \in DOMAIN dets : dets[d] \in Nat
  <2>1. PICK k \in 0..MaxDetections : dets \in [1..k -> TrackScores]
    BY DEF BoundedSeq, SeqOf
  <2>2. k \in Nat /\ TrackScores \subseteq Nat
    BY ByteTrackerAssumption
  <2>3. DOMAIN dets = 1..k /\ \A d \in DOMAIN dets : dets[d] \in Nat
    BY <2>1, <2>2
  <2>4. IsFiniteSet(1..k)
    BY <2>2, FS_Interval
  <2> QED  BY <2>1, <2>2, <2>3, <2>4
<1>c. /\ low_threshold \in Nat /\ high_threshold \in Nat /\ new_track_threshold \in Nat
      /\ max_time_lost \in Nat
  BY ByteTrackerAssumption
<1>5. /\ Rows(m1) \subseteq pool /\ Cols(m1) \subseteq high /\ OneToOne(m1)
      /\ Rows(m2) \subseteq remaining /\ Cols(m2) \subseteq low /\ OneToOne(m2)
      /\ Rows(m3) \subseteq unconfirmed /\ Cols(m3) \subseteq high \ Cols(m1) /\ OneToOne(m3)
      /\ m1 \subseteq pool \X high /\ m2 \subseteq remaining \X low
      /\ m3 \subseteq unconfirmed \X high
  <2> HIDE DEF pool, high, remaining, low, unconfirmed
  <2>1. /\ m1 \subseteq pool \X high /\ Rows(m1) \subseteq pool /\ Cols(m1) \subseteq high
        /\ OneToOne(m1)
    BY AssociationFacts
  <2>2. /\ m2 \subseteq remaining \X low /\ Rows(m2) \subseteq remaining
        /\ Cols(m2) \subseteq low /\ OneToOne(m2)
    BY AssociationFacts DEF remaining
  <2>3. /\ m3 \subseteq unconfirmed \X Leftovers(high, m1)
        /\ Rows(m3) \subseteq unconfirmed
        /\ Cols(m3) \subseteq Leftovers(high, m1) /\ OneToOne(m3)
    BY AssociationFacts
  <2> QED  BY <2>1, <2>2, <2>3 DEF Leftovers
<1>6. /\ new = {d \in high \ (Cols(m1) \cup Cols(m3)) : dets[d] >= new_track_threshold}
      /\ new \in SUBSET Nat /\ IsFiniteSet(new)
  <2>1. new = {d \in high \ (Cols(m1) \cup Cols(m3)) : dets[d] >= new_track_threshold}
    BY DEF Starters, Leftovers
  <2>2. new \in SUBSET (DOMAIN dets)
    BY <2>1
  <2> QED  BY <1>4, <2>1, <2>2, FS_Subset
<1>7. /\ NextId(new) \in Nat /\ NextId(new) >= tr.next_id
      /\ m4 \subseteq ids \X new /\ OneToOne(m4)
      /\ Rows(m4) = ids /\ Cols(m4) = new
  <2> HIDE DEF new
  <2> QED  BY <1>3, <1>6, StartedFacts
<1> DEFINE t1 == Tracks1(m1)
           a2 == ApplyMatch(t1, Rows(m2), frame)
           t2 == SetState(a2, remaining \ Rows(m2), "lost")
           a3 == ApplyMatch(t2, Rows(m3), frame)
<1>8. /\ t1 \in [D -> Track]
      /\ \A t \in D \ Rows(m1) : t1[t] = old(t)
      /\ \A t \in D \cap Rows(m1) :
           /\ t1[t].state = "tracked" /\ t1[t].activated /\ t1[t].last_frame = frame
           /\ t1[t].start_frame = old(t).start_frame
  <2> HIDE DEF D, frame
  <2> QED  BY <1>3, MatchFacts
<1>9. remaining = {t \in pool \ Rows(m1) : old(t).state = "tracked"}
  <2>1. \A t \in pool \ Rows(m1) : t1[t] = old(t)
    BY <1>8
  <2>2. remaining = {t \in pool \ Rows(m1) : t1[t].state = "tracked"}
    OBVIOUS
  <2> HIDE DEF t1, pool, remaining
  <2> QED  BY <2>1, <2>2
<1>10. /\ a2 \in [D -> Track]
       /\ \A t \in D \ Rows(m2) : a2[t] = t1[t]
       /\ \A t \in D \cap Rows(m2) :
            /\ a2[t].state = "tracked" /\ a2[t].activated /\ a2[t].last_frame = frame
            /\ a2[t].start_frame = t1[t].start_frame
  <2> HIDE DEF D, frame, t1
  <2> QED  BY <1>3, <1>8, MatchFacts
<1>11. /\ t2 \in [D -> Track]
       /\ \A t \in D \ (remaining \ Rows(m2)) : t2[t] = a2[t]
       /\ \A t \in D \cap (remaining \ Rows(m2)) :
            /\ t2[t].state = "lost" /\ (t2[t].activated <=> a2[t].activated)
            /\ t2[t].last_frame = a2[t].last_frame
            /\ t2[t].start_frame = a2[t].start_frame
  <2> DEFINE S == remaining \ Rows(m2)
  <2>1. D \in SUBSET Nat /\ a2 \in [D -> Track]
    BY <1>3, <1>10
  <2> HIDE DEF D, frame, a2, S
  <2>2. /\ SetState(a2, S, "lost") \in [D -> Track]
        /\ \A t \in D \ S : SetState(a2, S, "lost")[t] = a2[t]
        /\ \A t \in D \cap S :
             /\ SetState(a2, S, "lost")[t].state = "lost"
             /\ SetState(a2, S, "lost")[t].activated <=> a2[t].activated
             /\ SetState(a2, S, "lost")[t].last_frame = a2[t].last_frame
             /\ SetState(a2, S, "lost")[t].start_frame = a2[t].start_frame
    BY <2>1, StateFacts
  <2> QED  BY <2>2 DEF S
<1>12. /\ a3 \in [D -> Track]
       /\ \A t \in D \ Rows(m3) : a3[t] = t2[t]
       /\ \A t \in D \cap Rows(m3) :
            /\ a3[t].state = "tracked" /\ a3[t].activated /\ a3[t].last_frame = frame
            /\ a3[t].start_frame = t2[t].start_frame
  <2>1. D \in SUBSET Nat /\ t2 \in [D -> Track] /\ frame \in Nat
    BY <1>3, <1>11
  <2> HIDE DEF D, frame, t2
  <2> QED  BY <2>1, MatchFacts
<1>13. /\ tracks3 \in [D -> Track]
       /\ \A t \in D \ (unconfirmed \ Rows(m3)) : tracks3[t] = a3[t]
       /\ \A t \in D \cap (unconfirmed \ Rows(m3)) : tracks3[t].state = "removed"
  <2>1. tracks3 = SetState(a3, unconfirmed \ Rows(m3), "removed")
    OBVIOUS
  <2>2. D \in SUBSET Nat /\ a3 \in [D -> Track]
    BY <1>3, <1>12
  <2> DEFINE S == unconfirmed \ Rows(m3)
  <2> HIDE DEF D, frame, a3, tracks3, S
  <2>3. /\ SetState(a3, S, "removed") \in [D -> Track]
        /\ \A t \in D \ S : SetState(a3, S, "removed")[t] = a3[t]
        /\ \A t \in D \cap S : SetState(a3, S, "removed")[t].state = "removed"
    <3> DEFINE g(t) == [a3[t] EXCEPT !.state = "removed"]
    <3>1. ASSUME NEW t \in D PROVE g(t) \in Track /\ g(t).state = "removed"
      <4>1. a3[t] \in Track
        BY <2>2
      <4> QED  BY <4>1 DEF Track
    <3>2. SetState(a3, S, "removed") = [t \in D |-> IF t \in S THEN g(t) ELSE a3[t]]
      BY <2>2 DEF SetState
    <3> HIDE DEF g
    <3> QED  BY <2>2, <3>1, <3>2
  <2> QED  BY <2>1, <2>3 DEF S
\* What has become of each track, by the associations it took part in.
<1>14. /\ \A t \in Rows(m1) \cup Rows(m2) \cup Rows(m3) :
             /\ t \in D /\ tracks3[t].state = "tracked" /\ tracks3[t].activated
             /\ tracks3[t].last_frame = frame
             /\ tracks3[t].start_frame = old(t).start_frame
       /\ \A t \in remaining \ Rows(m2) :
             /\ tracks3[t].state = "lost" /\ (tracks3[t].activated <=> old(t).activated)
             /\ tracks3[t].last_frame = old(t).last_frame
             /\ tracks3[t].start_frame = old(t).start_frame
       /\ \A t \in unconfirmed \ Rows(m3) : tracks3[t].state = "removed"
       /\ \A t \in pool \ (Rows(m1) \cup remaining) :
             tracks3[t] = old(t) /\ old(t).state # "tracked"
  <2>0. /\ pool \cap unconfirmed = {} /\ pool \subseteq D /\ unconfirmed \subseteq D
        /\ remaining \subseteq pool /\ remaining \cap Rows(m1) = {}
        /\ Rows(m1) \subseteq pool /\ Rows(m2) \subseteq remaining
        /\ Rows(m3) \subseteq unconfirmed
    BY <1>5, <1>9
  <2> HIDE DEF pool, unconfirmed, remaining, tracks3, a3, t2, a2, t1, D, frame
  <2>1. ASSUME NEW t \in Rows(m1)
        PROVE  /\ t \in D /\ tracks3[t].state = "tracked" /\ tracks3[t].activated
               /\ tracks3[t].last_frame = frame
               /\ tracks3[t].start_frame = old(t).start_frame
    BY <1>8, <1>10, <1>11, <1>12, <1>13, <2>0
  <2>2. ASSUME NEW t \in Rows(m2)
        PROVE  /\ t \in D /\ tracks3[t].state = "tracked" /\ tracks3[t].activated
               /\ tracks3[t].last_frame = frame
               /\ tracks3[t].start_frame = old(t).start_frame
    BY <1>8, <1>10, <1>11, <1>12, <1>13, <2>0
  <2>3. ASSUME NEW t \in Rows(m3)
        PROVE  /\ t \in D /\ tracks3[t].state = "tracked" /\ tracks3[t].activated
               /\ tracks3[t].last_frame = frame
               /\ tracks3[t].start_frame = old(t).start_frame
    BY <1>8, <1>10, <1>11, <1>12, <1>13, <2>0
  <2>4. ASSUME NEW t \in remaining \ Rows(m2)
        PROVE  /\ tracks3[t].state = "lost" /\ (tracks3[t].activated <=> old(t).activated)
               /\ tracks3[t].last_frame = old(t).last_frame
               /\ tracks3[t].start_frame = old(t).start_frame
    BY <1>8, <1>10, <1>11, <1>12, <1>13, <2>0
  <2>5. ASSUME NEW t \in unconfirmed \ Rows(m3) PROVE tracks3[t].state = "removed"
    BY <1>13, <2>0
  <2>6. ASSUME NEW t \in pool \ (Rows(m1) \cup remaining)
        PROVE  tracks3[t] = old(t) /\ old(t).state # "tracked"
    <3>1. old(t).state # "tracked"
      BY <1>9
    <3> QED  BY <1>8, <1>10, <1>11, <1>12, <1>13, <2>0, <3>1
  <2> QED  BY <2>1, <2>2, <2>3, <2>4, <2>5, <2>6
<1>15. /\ all \in [D \cup ids -> Track] /\ ids \in SUBSET Nat /\ D \cap ids = {}
       /\ \A t \in D : all[t] = tracks3[t]
       /\ \A t \in ids :
             /\ all[t].state = "tracked" /\ (all[t].activated <=> frame = 1)
             /\ all[t].start_frame = frame /\ all[t].last_frame = frame
  <2> DEFINE started == Started(m1, m3)
             fresh == [state |-> "tracked", activated |-> frame = 1,
                       start_frame |-> frame, last_frame |-> frame]
  <2>1. /\ fresh \in Track /\ fresh.state = "tracked" /\ (fresh.activated <=> frame = 1)
        /\ fresh.start_frame = frame /\ fresh.last_frame = frame
    <3> HIDE DEF frame
    <3> QED  BY <1>3 DEF Track
  <2>2. ids \in SUBSET Nat /\ D \cap ids = {}
    <3> HIDE DEF D, new
    <3> QED  BY <1>3, <1>7
  <2>3. started = [t \in ids |-> fresh] /\ DOMAIN tracks3 = D
    BY <1>13
  <2>4. all = [t \in D \cup ids |-> IF t \in ids THEN fresh ELSE tracks3[t]]
    <3>1. all = [t \in DOMAIN tracks3 \cup DOMAIN started |->
                   IF t \in DOMAIN started THEN started[t] ELSE tracks3[t]]
      OBVIOUS
    <3> HIDE DEF all, tracks3, started, ids, fresh, D
    <3> QED  BY <2>3, <3>1
  <2> HIDE DEF all, tracks3, started, ids, fresh, D, frame
  <2> QED  BY <1>13, <2>1, <2>2, <2>4
<1>16. /\ tracks \in [DOMAIN tracks -> Track] /\ DOMAIN tracks \in SUBSET (D \cup ids)
       /\ \A t \in DOMAIN tracks : tracks[t] = all[t]
       /\ \A t \in D \cup ids :
             t \in DOMAIN tracks <=>
                /\ all[t].state # "removed"
                /\ ~(all[t].state = "lost" /\ frame - all[t].last_frame > max_time_lost)
  <2>1. tracks = Survivors(all, frame)
    OBVIOUS
  <2>2. DOMAIN all = D \cup ids
    BY <1>15
  <2> HIDE DEF all, tracks, D, ids, frame
  <2> QED  BY <1>15, <2>1, <2>2 DEF Survivors
<1>17. /\ tr' \in [tracks : TrackTables, frame_id : Nat, next_id : Nat, dets : Seq(Nat),
                   by : SUBSET (Nat \X Nat), out : SUBSET (Nat \X Int), resets : Nat]
       /\ tr'.tracks = tracks /\ tr'.frame_id = frame /\ tr'.next_id = NextId(new)
       /\ tr'.dets = dets /\ tr'.by = by /\ tr'.out = out
  <2>1. tr' = [tr EXCEPT !.tracks = tracks, !.frame_id = frame, !.next_id = NextId(new),
                         !.dets = dets, !.by = by, !.out = out]
    BY <1>2
  <2>2. tracks \in TrackTables
    <3>1. DOMAIN tracks \in SUBSET Nat /\ tracks \in [DOMAIN tracks -> Track]
      <4> HIDE DEF tracks, D, ids
      <4> QED  BY <1>3, <1>15, <1>16
    <3> HIDE DEF tracks
    <3> QED  BY <3>1, TableIntro
  <2>3. by \in SUBSET (Nat \X Nat)
    <3>1. pool \subseteq Nat /\ high \subseteq Nat /\ remaining \subseteq Nat
          /\ low \subseteq Nat /\ unconfirmed \subseteq Nat /\ ids \subseteq Nat
          /\ new \subseteq Nat
      BY <1>3, <1>4, <1>6, <1>9, <1>15
    <3> HIDE DEF pool, high, remaining, low, unconfirmed, ids, new, m4
    <3> QED  BY <1>5, <1>7, <3>1
  <2>4. out \in SUBSET (Nat \X Int)
    <3>1. \A t \in reported : t \in Nat /\ tracks[t].start_frame \in Nat
      <4> HIDE DEF tracks, D, ids
      <4> QED  BY <1>3, <1>15, <1>16 DEF Track
    <3> HIDE DEF tracks, reported, frame
    <3>2. \A t \in reported : frame - tracks[t].start_frame + 1 \in Int
      BY <1>3, <3>1
    <3> QED  BY <3>1, <3>2
  <2> HIDE DEF tracks, frame, new, by, out
  <2> QED  BY <1>3, <1>4, <1>7, <2>1, <2>2, <2>3, <2>4 DEF TrackerState
<1>18. /\ \A t \in ids : t \in DOMAIN tracks
       /\ \A t \in Rows(m1) \cup Rows(m2) \cup Rows(m3) : t \in DOMAIN tracks
       /\ \A t \in DOMAIN tracks : tracks[t].state = "tracked" =>
             t \in ids \/ t \in Rows(m1) \cup Rows(m2) \cup Rows(m3)
  <2>1. D = pool \cup unconfirmed
    OBVIOUS
  <2>2. \A t \in D : old(t).state # "removed"
    BY DEF TrackerInv, TrackLifeCycle
  <2> HIDE DEF tracks, tracks3, all, D, ids, pool, unconfirmed, remaining, frame
  <2>3. \A t \in ids : t \in DOMAIN tracks
    BY <1>15, <1>16
  <2>4. \A t \in Rows(m1) \cup Rows(m2) \cup Rows(m3) : t \in DOMAIN tracks
    BY <1>14, <1>15, <1>16
  <2>5. ASSUME NEW t \in DOMAIN tracks, tracks[t].state = "tracked", t \notin ids
        PROVE  t \in Rows(m1) \cup Rows(m2) \cup Rows(m3)
    <3>1. t \in D /\ tracks3[t].state = "tracked"
      BY <1>15, <1>16, <2>5
    <3>2. t \notin unconfirmed \ Rows(m3) /\ t \notin remaining \ Rows(m2)
          /\ t \notin pool \ (Rows(m1) \cup remaining)
      BY <1>14, <3>1
    <3> QED  BY <2>1, <3>1, <3>2
  <2> QED  BY <2>3, <2>4, <2>5
\* The age of a track is counted from a frame that has been.
<1>19. Dated'
  <2>1. ASSUME NEW t \in DOMAIN tracks PROVE tracks[t].start_frame \in 1..frame
    <3>1. CASE t \in ids
      <4> HIDE DEF tracks, all, D, ids, frame
      <4>1. tracks[t].start_frame = frame
        BY <1>15, <1>16, <3>1
      <4> QED  BY <1>3, <4>1
    <3>2. CASE t \in D
      <4>1. tracks[t] = tracks3[t] /\ tracks3[t].state # "removed"
        <5> HIDE DEF tracks, tracks3, all, D, ids, frame
        <5> QED  BY <1>15, <1>16, <3>2
      <4>2. tracks3[t].start_frame = old(t).start_frame
        <5>1. t \in pool \cup unconfirmed
          BY <3>2
        <5> HIDE DEF tracks, tracks3, pool, unconfirmed, remaining
        <5> QED  BY <1>14, <4>1, <5>1
      <4>3. old(t).start_frame \in 1..tr.frame_id
        BY <3>2 DEF TrackerInv, Dated
      <4> HIDE DEF tracks, tracks3
      <4> QED  BY <1>3, <4>1, <4>2, <4>3
    <3> QED  BY <1>16, <3>1, <3>2
  <2> HIDE DEF tracks, frame
  <2> QED  BY <1>17, <2>1 DEF Dated
<1>20. TrackLifeCycle'
  <2>1. ASSUME NEW t \in DOMAIN tracks
        PROVE  \/ tracks[t].state = "tracked" /\ tracks[t].activated
                  /\ frame - tracks[t].last_frame = 0
               \/ /\ tracks[t].state = "tracked" /\ ~tracks[t].activated
                  /\ frame - tracks[t].last_frame = 0
                  /\ tracks[t].start_frame = frame /\ frame > 1
               \/ tracks[t].state = "lost" /\ tracks[t].activated
                  /\ frame - tracks[t].last_frame \in 1..max_time_lost
    <3> HIDE DEF tracks
    <3>1. CASE t \in ids
      <4>1. /\ tracks[t].state = "tracked" /\ (tracks[t].activated <=> frame = 1)
            /\ tracks[t].start_frame = frame /\ tracks[t].last_frame = frame
        <5> HIDE DEF ids, D, all, frame
        <5> QED  BY <1>15, <1>16, <3>1
      <4> HIDE DEF frame
      <4> QED  BY <1>3, <4>1
    <3>2. CASE t \in Rows(m1) \cup Rows(m2) \cup Rows(m3)
      <4>1. tracks[t].state = "tracked" /\ tracks[t].activated
            /\ tracks[t].last_frame = frame
        <5> HIDE DEF ids, D, all, frame, tracks3
        <5> QED  BY <1>14, <1>15, <1>16, <3>2
      <4> HIDE DEF frame
      <4> QED  BY <1>3, <4>1
    <3>3. CASE t \notin ids /\ t \notin Rows(m1) \cup Rows(m2) \cup Rows(m3)
      <4>1. /\ t \in D /\ tracks[t] = tracks3[t] /\ tracks[t].state # "removed"
            /\ ~(tracks[t].state = "lost" /\ frame - tracks[t].last_frame > max_time_lost)
        <5> HIDE DEF ids, D, all, frame, tracks3
        <5> QED  BY <1>15, <1>16, <3>3
      <4>2. t \in pool \cup unconfirmed
        BY <4>1
      <4>3. /\ t \in pool
            /\ \/ /\ t \in remaining /\ tracks[t].state = "lost"
                  /\ (tracks[t].activated <=> old(t).activated)
                  /\ tracks[t].last_frame = old(t).last_frame
               \/ tracks[t] = old(t) /\ old(t).state # "tracked"
        <5> HIDE DEF tracks3, pool, unconfirmed, remaining
        <5> QED  BY <1>14, <3>3, <4>1, <4>2
      <4>4. /\ tracks[t].state = "lost" /\ tracks[t].activated
            /\ tracks[t].last_frame = old(t).last_frame
            /\ tr.frame_id - old(t).last_frame \in Nat
        <5>1. \/ old(t).state = "tracked" /\ old(t).activated
                 /\ tr.frame_id - old(t).last_frame = 0
              \/ old(t).state = "tracked" /\ ~old(t).activated
              \/ old(t).state = "lost" /\ old(t).activated
                 /\ tr.frame_id - old(t).last_frame \in 1..max_time_lost
          BY <4>1 DEF TrackerInv, TrackLifeCycle
        <5>2. ~(old(t).state = "tracked" /\ ~old(t).activated)
          BY <4>3
        <5> QED  BY <4>3, <5>1, <5>2
      <4>5. old(t).last_frame \in Nat
        BY <1>3, <4>1 DEF Track
      <4>6. frame - tracks[t].last_frame \in 1..max_time_lost
        <5> DEFINE last == old(t).last_frame
        <5>1. /\ last \in Nat /\ tracks[t].last_frame = last
              /\ tr.frame_id - last \in Nat /\ ~(frame - last > max_time_lost)
          BY <4>1, <4>4, <4>5
        <5> HIDE DEF last
        <5> QED  BY <1>3, <1>c, <5>1
      <4> QED  BY <4>4, <4>6
    <3> QED  BY <3>1, <3>2, <3>3
  <2> HIDE DEF tracks, frame
  <2> QED  BY <1>17, <2>1 DEF TrackLifeCycle
<1>21. OneToOne(by)
  <2>1. /\ pool \cap unconfirmed = {} /\ D = pool \cup unconfirmed
        /\ remaining \subseteq pool \ Rows(m1)
    BY <1>9
  <2>2. high \cap low = {}
    BY <1>4, <1>c
  <2>3. /\ new \subseteq high /\ new \cap (Cols(m1) \cup Cols(m3)) = {}
    BY <1>6
  <2> HIDE DEF pool, unconfirmed, remaining, D, high, low, new, m4, ids
  <2>4. /\ \A A, B : Rows(A \cup B) = Rows(A) \cup Rows(B)
        /\ \A A, B : Cols(A \cup B) = Cols(A) \cup Cols(B)
    BY DEF Rows, Cols
  <2>5. OneToOne(m1 \cup m2)
    BY <1>5, <2>1, <2>2, UnionOneToOne
  <2>6. OneToOne((m1 \cup m2) \cup m3)
    <3>1. Rows(m1 \cup m2) \cap Rows(m3) = {} /\ Cols(m1 \cup m2) \cap Cols(m3) = {}
      BY <1>5, <2>1, <2>2, <2>4
    <3> QED  BY <1>5, <2>5, <3>1, UnionOneToOne
  <2>7. OneToOne(((m1 \cup m2) \cup m3) \cup m4)
    <3>1. /\ Rows((m1 \cup m2) \cup m3) = Rows(m1) \cup Rows(m2) \cup Rows(m3)
          /\ Cols((m1 \cup m2) \cup m3) = Cols(m1) \cup Cols(m2) \cup Cols(m3)
      <4>1. Rows(m1 \cup m2) = Rows(m1) \cup Rows(m2)
            /\ Cols(m1 \cup m2) = Cols(m1) \cup Cols(m2)
        BY <2>4
      <4>2. Rows((m1 \cup m2) \cup m3) = Rows(m1 \cup m2) \cup Rows(m3)
            /\ Cols((m1 \cup m2) \cup m3) = Cols(m1 \cup m2) \cup Cols(m3)
        BY <2>4
      <4> QED  BY <4>1, <4>2
    <3>2. Rows((m1 \cup m2) \cup m3) \subseteq D
      BY <1>5, <2>1, <3>1
    <3>3. Rows((m1 \cup m2) \cup m3) \cap Rows(m4) = {}
      BY <1>7, <1>15, <3>2
    <3>4. Cols((m1 \cup m2) \cup m3) \cap Cols(m4) = {}
      BY <1>5, <1>7, <2>2, <2>3, <3>1
    <3> QED  BY <1>7, <2>6, <3>3, <3>4, UnionOneToOne
  <2> QED  BY <2>7
<1>22. TrackIdentity'
  <2>1. \A A, B : Rows(A \cup B) = Rows(A) \cup Rows(B) /\ Cols(A \cup B) = Cols(A) \cup Cols(B)
    BY DEF Rows, Cols
  <2>2. /\ Rows(m1 \cup m2) = Rows(m1) \cup Rows(m2)
        /\ Cols(m1 \cup m2) = Cols(m1) \cup Cols(m2)
    BY <2>1
  <2>3. /\ Rows((m1 \cup m2) \cup m3) = Rows(m1 \cup m2) \cup Rows(m3)
        /\ Cols((m1 \cup m2) \cup m3) = Cols(m1 \cup m2) \cup Cols(m3)
    BY <2>1
  <2>4. /\ Rows(by) = Rows((m1 \cup m2) \cup m3) \cup Rows(m4)
        /\ Cols(by) = Cols((m1 \cup m2) \cup m3) \cup Cols(m4)
    <3> HIDE DEF m4
    <3> QED  BY <2>1
  <2>5. /\ Rows(by) = Rows(m1) \cup Rows(m2) \cup Rows(m3) \cup Rows(m4)
        /\ Cols(by) = Cols(m1) \cup Cols(m2) \cup Cols(m3) \cup Cols(m4)
    <3> HIDE DEF m4, by
    <3> QED  BY <2>2, <2>3, <2>4
  <2>6. Rows(m4) = ids
    BY <1>7
  <2>7. \A d \in DOMAIN dets :
           dets[d] >= high_threshold /\ dets[d] >= new_track_threshold => d \in Cols(by)
    <3> HIDE DEF by
    <3> QED  BY <1>6, <1>7, <2>5
  <2>8. Rows(by) \subseteq DOMAIN tracks
    <3> HIDE DEF by, tracks, ids, m4
    <3> QED  BY <1>18, <2>5, <2>6
  <2>9. \A o \in out : o[1] \in Rows(by) /\ o[2] \in 1..frame
    <3> SUFFICES ASSUME NEW t \in reported
                 PROVE  t \in Rows(by) /\ frame - tracks[t].start_frame + 1 \in 1..frame
      <4> HIDE DEF by, tracks, frame, reported
      <4> QED  OBVIOUS
    <3>1. t \in DOMAIN tracks /\ tracks[t].state = "tracked"
      OBVIOUS
    <3> HIDE DEF by, tracks, frame, reported, ids, m4
    <3>2. t \in Rows(by)
      BY <1>18, <2>5, <2>6, <3>1
    <3>3. tracks[t].start_frame \in 1..frame
      BY <1>17, <1>19, <3>1 DEF Dated
    <3> QED  BY <1>3, <3>2, <3>3
  <2>10. \A t \in DOMAIN tracks : t < NextId(new)
    <3> SUFFICES ASSUME NEW t \in DOMAIN tracks PROVE t < NextId(new)
      OBVIOUS
    <3>1. t \in D \/ t \in ids
      <4> HIDE DEF tracks, D, ids
      <4> QED  BY <1>16
    <3>2. CASE t \in D
      <4>1. t \in Nat /\ t < tr.next_id
        <5> HIDE DEF D
        <5> QED  BY <1>3, <3>2
      <4> HIDE DEF new
      <4> QED  BY <1>3, <1>7, <4>1
    <3>3. CASE t \in ids
      <4> HIDE DEF new
      <4> QED  BY <1>3, <1>7, <3>3
    <3> QED  BY <3>1, <3>2, <3>3
  <2> HIDE DEF tracks, frame, new, by, out
  <2> QED  BY <1>17, <1>21, <2>7, <2>8, <2>9, <2>10 DEF TrackIdentity, OneToOne
<1> QED  BY <1>17, <1>19, <1>20, <1>22 DEF TrackerInv, TrackerState

\* The tracker after a step of any of the objects.
LEMMA TrackerStep == TrackerInv /\ [Next]_vars => TrackerInv'
<1> SUFFICES ASSUME TrackerInv, [Next]_vars PROVE TrackerInv'
  OBVIOUS
<1>1. Next_tr \/ tr' = tr
  BY DEF Next, vars
<1>2. CASE tr' = tr
  BY <1>2 DEF TrackerInv, TrackerState, Dated, TrackIdentity, TrackLifeCycle
<1>3. CASE reset
  <2>1. tr' = [tracks |-> <<>>, frame_id |-> 0, next_id |-> 1, dets |-> <<>>,
               by |-> {}, out |-> {}, resets |-> tr.resets + 1]
    BY <1>3 DEF reset
  <2>2. tr.resets + 1 \in Nat
    BY DEF TrackerInv, TrackerState
  <2> QED  BY <2>1, <2>2, EmptyTracker DEF Emptied
<1>4. CASE \E dets \in BoundedSeq(TrackScores, MaxDetections) : update(dets)
  BY <1>4, UpdateStep
<1> QED  BY <1>1, <1>2, <1>3, <1>4 DEF Next_tr

\* The inductive invariant of the tracker.
LEMMA TrackerInvariance == Spec => []TrackerInv
<1>1. Init => TrackerInv
  <2> SUFFICES ASSUME Init PROVE TrackerInv
    OBVIOUS
  <2>1. tr = [tracks |-> <<>>, frame_id |-> 0, next_id |-> 1, dets |-> <<>>,
              by |-> {}, out |-> {}, resets |-> 0]
    BY DEF Init, Init_tr
  <2> QED
    BY <2>1, EmptyTracker DEF Emptied
<1> QED  BY <1>1, TrackerStep, PTL DEF Spec

\* No detection feeds two tracks and no track gets two; confident detections
\* always belong to a track; what is reported was fed in this frame.
THEOREM TrackIdentityHolds == Spec => []TrackIdentity
<1>1. TrackerInv => TrackIdentity
  BY DEF TrackerInv
<1> QED  BY <1>1, TrackerInvariance, PTL

\* A tentative track lives for one frame, a lost one for max_time_lost frames,
\* and a confirmed one is seen in every frame.
THEOREM TrackLifeCycleHolds == Spec => []TrackLifeCycle
<1>1. TrackerInv => TrackLifeCycle
  BY DEF TrackerInv
<1> QED  BY <1>1, TrackerInvariance, PTL

-----------------------------------------------------------------------------
(* The latency histogram.                                                    *)

\* Powers of two, one by one.
LEMMA Powers ==
  /\ Pow2[0] = 1
  /\ \A n \in Nat : Pow2[n] \in Nat \ {0} /\ Pow2[n + 1] = 2 * Pow2[n]
<1> DEFINE V == Nat \ {0}
           step == [p \in V \X Nat |-> 2 * p[1]]
           Unfolds(f) == f = [n \in Nat |-> IF n = 0 THEN 1 ELSE 2 * f[n - 1]]
<1>1. 1 \in V /\ step \in [V \X Nat -> V]
  <2>1. ASSUME NEW p \in V \X Nat PROVE 2 * p[1] \in V
    <3>1. p[1] \in V
      OBVIOUS
    <3> QED  BY <3>1
  <2> QED  BY <2>1
<1>2. ASSUME NEW v \in V, NEW i \in Nat PROVE step[<<v, i>>] = 2 * v
  OBVIOUS
<1> HIDE DEF step
<1>3. PICK f : Solves(f, V, 1, step)
  <2> HIDE DEF V
  <2> QED  BY <1>1, Recursion
<1>4. f \in [Nat -> V] /\ f[0] = 1 /\ \A i \in Nat : f[i + 1] = 2 * f[i]
  <2>1. f \in [Nat -> V] /\ f[0] = 1 /\ \A i \in Nat : f[i + 1] = step[<<f[i], i>>]
    BY <1>3 DEF Solves
  <2>2. \A i \in Nat : f[i] \in V
    BY <2>1
  <2> HIDE DEF V
  <2> QED  BY <1>2, <2>1, <2>2
<1>5. Unfolds(f)
  <2>1. ASSUME NEW n \in Nat PROVE f[n] = IF n = 0 THEN 1 ELSE 2 * f[n - 1]
    <3>1. CASE n = 0
      BY <1>4, <3>1
    <3>2. CASE n # 0
      <4>1. n - 1 \in Nat /\ (n - 1) + 1 = n
        BY <3>2
      <4>2. f[(n - 1) + 1] = 2 * f[n - 1]
        BY <1>4, <4>1
      <4> QED  BY <3>2, <4>1, <4>2
    <3> QED  BY <3>1, <3>2
  <2>2. f = [n \in Nat |-> f[n]]
    BY <1>4
  <2> QED  BY <2>1, <2>2
<1>6. Pow2 = CHOOSE h : Unfolds(h)
  BY DEF Pow2
<1>7. Unfolds(Pow2)
  <2> HIDE DEF Unfolds
  <2> QED  BY <1>5, <1>6
<1>8. Pow2[0] = 1 /\ \A n \in Nat : Pow2[n + 1] = 2 * Pow2[n]
  <2>1. Pow2[0] = 1
    BY <1>7
  <2>2. ASSUME NEW n \in Nat PROVE Pow2[n + 1] = 2 * Pow2[n]
    <3>1. n + 1 \in Nat /\ n + 1 # 0 /\ (n + 1) - 1 = n
      OBVIOUS
    <3> QED  BY <1>7, <3>1
  <2> QED  BY <2>1, <2>2
<1>9. \A n \in Nat : Pow2[n] \in V
  <2> DEFINE G == {n \in Nat : Pow2[n] \in V}
  <2>1. 0 \in G
    BY <1>8
  <2>2. ASSUME NEW n \in G PROVE n + 1 \in G
    BY <1>8
  <2>3. G \subseteq Nat
    OBVIOUS
  <2> HIDE DEF G
  <2>4. Nat \subseteq G
    BY <2>1, <2>2, <2>3, Induction
  <2> QED  BY <2>4 DEF G
<1> QED  BY <1>8, <1>9

Sample == [value : Nat, todo : SUBSET Todo, seen : Int]

HistogramRecord(h) ==
    h = [buckets |-> h.buckets, count |-> h.count, sum |-> h.sum, min |-> h.min,
         max |-> h.max, samples |-> h.samples, reader |-> h.reader,
         summary |-> h.summary]

HistogramType ==
    /\ HistogramRecord(hg)
    /\ hg.count \in Nat /\ hg.max \in Nat /\ hg.min \in Nat
    /\ hg.samples \in Seq(Sample)

\* count_ is the number of samples that have added to it.
Without(samples, step) == {k \in DOMAIN samples : step \notin samples[k].todo}
Counted == hg.count = Cardinality(Without(hg.samples, "count"))

\* max_us_ is a sample's value, and no sample that is done with it is above it.
Maximum ==
    /\ \A k \in DOMAIN hg.samples :
          "max" \notin hg.samples[k].todo => hg.samples[k].value <= hg.max
    /\ hg.max = 0 \/ \E k \in DOMAIN hg.samples : hg.samples[k].value = hg.max

\* The maximum that a compare-exchange loop has seen is not above max_us_, the
\* minimum that one has seen is not below min_us_, and outside the loops nothing
\* is seen: the loop of the minimum, the last part, starts with its own load.
SeenRight(x, min, max) ==
    /\ "max" \in x.todo => x.seen <= max
    /\ x.todo = {"min"} => x.seen = -1 \/ min <= x.seen
    /\ "max" \notin x.todo /\ x.todo # {"min"} => x.seen = -1

LoopsRight == \A k \in DOMAIN hg.samples : SeenRight(hg.samples[k], hg.min, hg.max)

\* A summary is that of the samples, none of which is still being recorded.
Summarized ==
    hg.summary # <<>> =>
        /\ InFlight = {} /\ hg.samples # <<>>
        /\ hg.summary.count = hg.count /\ hg.summary.max = hg.max

HistogramInv == HistogramType /\ Counted /\ Maximum /\ LoopsRight /\ Summarized

\* A new or reset histogram.
LEMMA EmptyHistogram ==
  /\ hg = Empty => HistogramInv
  /\ hg' = Empty => HistogramInv'
<1>1. /\ Empty.count = 0 /\ Empty.max = 0 /\ Empty.min = MinStart /\ Empty.samples = <<>>
      /\ Empty.summary = <<>>
      /\ HistogramRecord(Empty)
  BY DEF Empty, HistogramRecord
<1>2. <<>> \in Seq(Sample) /\ DOMAIN <<>> = {}
  OBVIOUS
<1>6. /\ Empty.count \in Nat /\ Empty.max \in Nat /\ Empty.min \in Nat
      /\ Empty.samples \in Seq(Sample)
  <2>1. 0 \in Nat /\ ValueBits + 8 \in Nat
    BY LatencyHistogramAssumption
  <2>2. MinStart \in Nat
    BY <2>1, Powers DEF MinStart
  <2> QED  BY <1>1, <1>2, <2>1, <2>2, Zenon
<1>3. \A step : Cardinality(Without(<<>>, step)) = 0
  <2>1. \A step : Without(<<>>, step) = {}
    BY <1>2 DEF Without
  <2> QED  BY <2>1, FS_EmptySet
<1>4. ASSUME hg = Empty PROVE HistogramInv
  <2>1. HistogramType
    BY <1>1, <1>6, <1>4, Zenon DEF HistogramType
  <2>2. Counted
    BY <1>1, <1>3, <1>4 DEF Counted
  <2>3. Maximum
    BY <1>1, <1>2, <1>4 DEF Maximum
  <2>4. LoopsRight
    BY <1>1, <1>2, <1>4 DEF LoopsRight
  <2>5. Summarized
    BY <1>1, <1>4 DEF Summarized
  <2> QED  BY <2>1, <2>2, <2>3, <2>4, <2>5 DEF HistogramInv
<1>5. ASSUME hg' = Empty PROVE HistogramInv'
  <2>1. HistogramType'
    BY <1>1, <1>6, <1>5, Zenon DEF HistogramType
  <2>2. Counted'
    BY <1>1, <1>3, <1>5 DEF Counted
  <2>3. Maximum'
    BY <1>1, <1>2, <1>5 DEF Maximum
  <2>4. LoopsRight'
    BY <1>1, <1>2, <1>5 DEF LoopsRight
  <2>5. Summarized'
    BY <1>1, <1>5 DEF Summarized
  <2> QED  BY <2>1, <2>2, <2>3, <2>4, <2>5 DEF HistogramInv
<1> QED  BY <1>4, <1>5

\* A step that does one part of the work for sample k and leaves the others.
OneSample(k, x) ==
    hg'.samples = [hg.samples EXCEPT ![k] = x]

\* The samples after such a step.
LEMMA OneSampleFacts ==
  ASSUME HistogramInv, NEW k \in DOMAIN hg.samples, NEW x \in Sample, OneSample(k, x),
         x.value = hg.samples[k].value
  PROVE  /\ hg'.samples \in Seq(Sample) /\ DOMAIN hg'.samples = DOMAIN hg.samples
         /\ \A j \in DOMAIN hg.samples :
               /\ hg'.samples[j] = IF j = k THEN x ELSE hg.samples[j]
               /\ hg'.samples[j].value = hg.samples[j].value
               /\ hg.samples[j] \in Sample
<1>1. hg.samples \in Seq(Sample)
  BY DEF HistogramInv, HistogramType
<1> QED  BY <1>1 DEF OneSample

\* Such a step keeps the maximum if the sample kept to it.
LEMMA MaximumStep ==
  ASSUME HistogramInv, NEW k \in DOMAIN hg.samples, NEW x \in Sample, OneSample(k, x),
         x.value = hg.samples[k].value, hg'.max \in Nat, hg'.max >= hg.max,
         hg'.max = hg.max \/ hg'.max = x.value,
         "max" \notin x.todo => x.value <= hg'.max
  PROVE  Maximum'
<1>1. /\ DOMAIN hg'.samples = DOMAIN hg.samples
      /\ \A j \in DOMAIN hg.samples :
            /\ hg'.samples[j] = IF j = k THEN x ELSE hg.samples[j]
            /\ hg'.samples[j].value = hg.samples[j].value
            /\ hg.samples[j] \in Sample
  BY OneSampleFacts
<1>2. ASSUME NEW j \in DOMAIN hg.samples
      PROVE  "max" \notin hg'.samples[j].todo => hg'.samples[j].value <= hg'.max
  <2>1. CASE j = k
    BY <1>1, <2>1
  <2>2. CASE j # k
    <3>1. /\ hg'.samples[j] = hg.samples[j] /\ hg.max \in Nat
          /\ hg.samples[j].value \in Nat
      BY <1>1, <2>2 DEF Sample, HistogramInv, HistogramType
    <3>2. "max" \notin hg.samples[j].todo => hg.samples[j].value <= hg.max
      BY DEF HistogramInv, Maximum
    <3> QED  BY <3>1, <3>2
  <2> QED  BY <2>1, <2>2
<1>3. hg'.max = 0 \/ \E j \in DOMAIN hg.samples : hg'.samples[j].value = hg'.max
  <2>1. CASE hg'.max = hg.max
    BY <1>1, <2>1 DEF HistogramInv, Maximum
  <2>2. CASE hg'.max = x.value
    BY <1>1, <2>2
  <2> QED  BY <2>1, <2>2
<1> QED  BY <1>1, <1>2, <1>3 DEF Maximum

\* Such a step keeps what the other loops have seen.
LEMMA LoopsStep ==
  ASSUME HistogramInv, NEW k \in DOMAIN hg.samples, NEW x \in Sample, OneSample(k, x),
         x.value = hg.samples[k].value, hg'.max \in Nat, hg'.max >= hg.max,
         hg'.min \in Nat, hg'.min <= hg.min, SeenRight(x, hg'.min, hg'.max)
  PROVE  LoopsRight'
<1>1. /\ DOMAIN hg'.samples = DOMAIN hg.samples
      /\ \A j \in DOMAIN hg.samples :
            /\ hg'.samples[j] = IF j = k THEN x ELSE hg.samples[j]
            /\ hg.samples[j] \in Sample
  BY OneSampleFacts
<1>2. ASSUME NEW j \in DOMAIN hg.samples PROVE SeenRight(hg'.samples[j], hg'.min, hg'.max)
  <2>1. CASE j = k
    BY <1>1, <2>1
  <2>2. CASE j # k
    <3>1. /\ hg'.samples[j] = hg.samples[j] /\ hg.max \in Nat /\ hg.min \in Nat
          /\ hg.samples[j].seen \in Int
      BY <1>1, <2>2 DEF Sample, HistogramInv, HistogramType
    <3>2. SeenRight(hg.samples[j], hg.min, hg.max)
      BY DEF HistogramInv, LoopsRight
    <3> QED  BY <3>1, <3>2 DEF SeenRight
  <2> QED  BY <2>1, <2>2
<1> QED  BY <1>1, <1>2 DEF LoopsRight

\* Such a step keeps the count of the samples that were counted.
LEMMA CountedStep ==
  ASSUME HistogramInv, NEW k \in DOMAIN hg.samples, NEW x \in Sample, OneSample(k, x),
         x.value = hg.samples[k].value,
         \/ /\ "count" \in x.todo <=> "count" \in hg.samples[k].todo
            /\ hg'.count = hg.count
         \/ /\ "count" \in hg.samples[k].todo /\ "count" \notin x.todo
            /\ hg'.count = hg.count + 1
  PROVE  Counted' /\ hg'.count \in Nat
<1> DEFINE old == Without(hg.samples, "count")
           new == Without(hg'.samples, "count")
<1>1. /\ DOMAIN hg'.samples = DOMAIN hg.samples
      /\ \A j \in DOMAIN hg.samples :
            hg'.samples[j] = IF j = k THEN x ELSE hg.samples[j]
  BY OneSampleFacts
<1>2. hg.count = Cardinality(old) /\ hg.count \in Nat
  BY DEF HistogramInv, HistogramType, Counted
<1>3. IsFiniteSet(old)
  <2>1. hg.samples \in Seq(Sample)
    BY DEF HistogramInv, HistogramType
  <2>2. DOMAIN hg.samples = 1..Len(hg.samples) /\ Len(hg.samples) \in Nat
    BY <2>1
  <2>3. IsFiniteSet(DOMAIN hg.samples)
    BY <2>2, FS_Interval
  <2>4. old \subseteq DOMAIN hg.samples
    BY DEF Without
  <2> QED  BY <2>3, <2>4, FS_Subset
<1>4. CASE /\ "count" \in x.todo <=> "count" \in hg.samples[k].todo
           /\ hg'.count = hg.count
  <2>1. new = old
    BY <1>1, <1>4 DEF Without
  <2> QED  BY <2>1, <1>2, <1>4 DEF Counted
<1>5. CASE /\ "count" \in hg.samples[k].todo /\ "count" \notin x.todo
           /\ hg'.count = hg.count + 1
  <2>1. new = old \cup {k} /\ k \notin old
    BY <1>1, <1>5 DEF Without
  <2> HIDE DEF old
  <2>2. Cardinality(old \cup {k}) = Cardinality(old) + 1
    BY <2>1, <1>3, FS_AddElement
  <2> QED  BY <2>1, <2>2, <1>2, <1>5 DEF Counted
<1> QED  BY <1>4, <1>5

\* A step of the thread that records sample k: there is no summary yet.
LEMMA SampleStep ==
  ASSUME HistogramInv, NEW k \in DOMAIN hg.samples, NEW x \in Sample, OneSample(k, x),
         x.value = hg.samples[k].value, HistogramRecord(hg'), hg.samples[k].todo # {},
         hg'.summary = hg.summary, hg'.max \in Nat, hg'.min \in Nat, hg'.count \in Nat,
         Counted', Maximum', LoopsRight'
  PROVE  HistogramInv'
<1>1. hg'.samples \in Seq(Sample)
  BY OneSampleFacts
<1>2. HistogramType'
  BY <1>1 DEF HistogramType
<1>3. Summarized'
  BY DEF Summarized, HistogramInv, InFlight
<1> QED  BY <1>2, <1>3 DEF HistogramInv

\* What Done leaves of a sample, and the same when a compare-exchange loop ends.
Left(k, step, x) ==
    LET y == [x EXCEPT !.seen = -1]
    IN /\ Done(k, step) = [hg.samples EXCEPT ![k] = x]
       /\ [Done(k, step) EXCEPT ![k].seen = -1] = [hg.samples EXCEPT ![k] = y]
       /\ x.value = hg.samples[k].value /\ x.seen = hg.samples[k].seen
       /\ x.todo = hg.samples[k].todo \ {step}
       /\ y \in Sample /\ y.value = x.value /\ y.todo = x.todo /\ y.seen = -1

\* There is such a sample.
LEMMA DoneIsOneSample ==
  ASSUME HistogramInv, NEW k \in DOMAIN hg.samples, NEW step \in hg.samples[k].todo
  PROVE  \E x \in Sample : Left(k, step, x)
<1> DEFINE s == hg.samples[k]
           x == [s EXCEPT !.todo = @ \ {step}]
<1>1. hg.samples \in Seq(Sample)
  BY DEF HistogramInv, HistogramType
<1>2. s \in Sample
  BY <1>1
<1>3. x \in Sample /\ x.value = s.value /\ x.seen = s.seen /\ x.todo = s.todo \ {step}
  BY <1>2 DEF Sample
<1>4. Done(k, step) = [hg.samples EXCEPT ![k] = x]
  BY DEF Done
<1>5. [Done(k, step) EXCEPT ![k].seen = -1]
        = [hg.samples EXCEPT ![k] = [x EXCEPT !.seen = -1]]
  <2> HIDE DEF x
  <2> QED  BY <1>1, <1>4
<1>6. /\ [x EXCEPT !.seen = -1] \in Sample
      /\ [x EXCEPT !.seen = -1].value = x.value
      /\ [x EXCEPT !.seen = -1].todo = x.todo
      /\ [x EXCEPT !.seen = -1].seen = -1
  <2> HIDE DEF x
  <2> QED  BY <1>3 DEF Sample
<1> HIDE DEF x
<1>7. Left(k, step, x)
  BY <1>3, <1>4, <1>5, <1>6 DEF Left
<1> QED  BY <1>3, <1>7

\* A sample that begins: its own parts are all still to do.
LEMMA HistogramBegins == HistogramInv /\ record_us => HistogramInv'
<1> SUFFICES ASSUME HistogramInv, record_us PROVE HistogramInv'
  OBVIOUS
<1>1. PICK v \in SampleValues :
        hg' = [hg EXCEPT !.samples = Append(@, [value |-> v, todo |-> Todo, seen |-> -1]),
                         !.summary = <<>>]
  BY DEF record_us
<1> DEFINE x == [value |-> v, todo |-> Todo, seen |-> -1]
           n == Len(hg.samples) + 1
<1>2. v \in Nat
  BY LatencyHistogramAssumption
<1>3. x \in Sample /\ "count" \in x.todo /\ "max" \in x.todo /\ x.seen = -1
  BY <1>2 DEF Sample, Todo
<1>4. /\ hg.samples \in Seq(Sample) /\ hg.count \in Nat /\ hg.max \in Nat /\ hg.min \in Nat
      /\ HistogramRecord(hg)
  BY DEF HistogramInv, HistogramType
<1>5. /\ hg'.samples = Append(hg.samples, x) /\ hg'.count = hg.count /\ hg'.max = hg.max
      /\ hg'.min = hg.min /\ hg'.summary = <<>> /\ HistogramRecord(hg')
  <2> HIDE DEF x
  <2>1. hg' = [hg EXCEPT !.samples = Append(@, x), !.summary = <<>>]
    BY <1>1 DEF x
  <2> QED  BY <2>1, <1>4 DEF HistogramRecord
<1> HIDE DEF x
<1>6. /\ hg'.samples \in Seq(Sample) /\ n \in Nat
      /\ DOMAIN hg.samples = 1..(n - 1) /\ DOMAIN hg'.samples = 1..n
      /\ hg'.samples[n] = x /\ \A j \in 1..(n - 1) : hg'.samples[j] = hg.samples[j]
  BY <1>3, <1>4, <1>5
<1>7. HistogramType'
  BY <1>4, <1>5, <1>6 DEF HistogramType
<1>8. Counted'
  <2>1. Without(hg'.samples, "count") = Without(hg.samples, "count")
    BY <1>3, <1>6 DEF Without
  <2> QED  BY <2>1, <1>5 DEF HistogramInv, Counted
<1>9. Maximum' /\ LoopsRight'
  <2>1. ASSUME NEW j \in 1..n
        PROVE  /\ "max" \notin hg'.samples[j].todo => hg'.samples[j].value <= hg'.max
               /\ SeenRight(hg'.samples[j], hg'.min, hg'.max)
    <3>1. CASE j = n
      <4>1. hg'.samples[j] = x /\ hg'.max \in Nat /\ -1 <= hg'.max
        BY <1>4, <1>5, <1>6, <3>1
      <4> QED  BY <1>3, <4>1 DEF SeenRight
    <3>2. CASE j # n
      <4>1. j \in DOMAIN hg.samples /\ hg'.samples[j] = hg.samples[j]
        BY <1>6, <2>1, <3>2
      <4> QED  BY <4>1, <1>5 DEF HistogramInv, Maximum, LoopsRight
    <3> QED  BY <3>1, <3>2
  <2>2. hg'.max = 0 \/ \E j \in 1..n : hg'.samples[j].value = hg'.max
    <3>1. CASE hg.max = 0
      BY <3>1, <1>5
    <3>2. CASE hg.max # 0
      <4>1. PICK j \in DOMAIN hg.samples : hg.samples[j].value = hg.max
        BY <3>2 DEF HistogramInv, Maximum
      <4>2. j \in 1..n /\ hg'.samples[j] = hg.samples[j]
        BY <4>1, <1>6
      <4> QED  BY <4>1, <4>2, <1>5
    <3> QED  BY <3>1, <3>2
  <2> QED  BY <2>1, <2>2, <1>6 DEF Maximum, LoopsRight
<1>10. Summarized'
  BY <1>5 DEF Summarized
<1> QED  BY <1>7, <1>8, <1>9, <1>10 DEF HistogramInv

\* A part of a sample's work that is one atomic operation.
LEMMA HistogramDoes ==
  ASSUME HistogramInv, NEW k \in DOMAIN hg.samples, NEW step \in hg.samples[k].todo,
         step \notin {"min", "max"}, HistogramRecord(hg'), hg'.samples = Done(k, step),
         hg'.count = IF step = "count" THEN hg.count + 1 ELSE hg.count,
         hg'.max = hg.max, hg'.min = hg.min, hg'.summary = hg.summary
  PROVE  HistogramInv'
<1>0. PICK x \in Sample : Left(k, step, x)
  BY DoneIsOneSample
<1>1. /\ Done(k, step) = [hg.samples EXCEPT ![k] = x]
      /\ x.value = hg.samples[k].value /\ x.seen = hg.samples[k].seen
      /\ x.todo = hg.samples[k].todo \ {step}
  BY <1>0 DEF Left
<1>2. OneSample(k, x)
  BY <1>1 DEF OneSample
<1>3. /\ hg.count \in Nat /\ hg.max \in Nat /\ hg.min \in Nat /\ hg.samples \in Seq(Sample)
      /\ hg.samples[k] \in Sample
  BY DEF HistogramInv, HistogramType
<1>4. /\ "max" \notin hg.samples[k].todo => hg.samples[k].value <= hg.max
      /\ SeenRight(hg.samples[k], hg.min, hg.max)
  BY DEF HistogramInv, Maximum, LoopsRight
<1>5. Maximum' /\ LoopsRight'
  <2>1. hg'.max \in Nat /\ hg'.max >= hg.max /\ hg'.min \in Nat /\ hg'.min <= hg.min
    BY <1>3
  <2>2. "max" \notin x.todo => x.value <= hg'.max
    BY <1>1, <1>4
  <2>3. SeenRight(x, hg'.min, hg'.max)
    BY <1>1, <1>4 DEF SeenRight
  <2> QED  BY <1>1, <1>2, <2>1, <2>2, <2>3, MaximumStep, LoopsStep
<1>6. Counted' /\ hg'.count \in Nat
  <2>1. CASE step = "count"
    BY <1>1, <1>2, <2>1, CountedStep
  <2>2. CASE step # "count"
    BY <1>1, <1>2, <2>2, CountedStep
  <2> QED  BY <2>1, <2>2
<1>7. hg'.max \in Nat /\ hg'.min \in Nat /\ hg.samples[k].todo # {}
  BY <1>3
<1> QED  BY <1>1, <1>2, <1>5, <1>6, <1>7, SampleStep

\* The parts of record_us() that leave minimum and maximum alone.
LEMMA HistogramAdds ==
  ASSUME HistogramInv, NEW k \in DOMAIN hg.samples
  PROVE  /\ AddBucket(k) => HistogramInv'
         /\ AddCount(k) => HistogramInv'
         /\ AddSum(k) => HistogramInv'
<1>1. HistogramRecord(hg)
  BY DEF HistogramInv, HistogramType
<1>2. ASSUME AddBucket(k) PROVE HistogramInv'
  <2>1. "bucket" \in hg.samples[k].todo
    BY <1>2 DEF AddBucket
  <2>2. /\ HistogramRecord(hg') /\ hg'.samples = Done(k, "bucket")
        /\ hg'.count = hg.count /\ hg'.max = hg.max /\ hg'.min = hg.min
        /\ hg'.summary = hg.summary
    BY <1>1, <1>2 DEF AddBucket, HistogramRecord
  <2> QED  BY <2>1, <2>2, HistogramDoes
<1>3. ASSUME AddCount(k) PROVE HistogramInv'
  <2>1. "count" \in hg.samples[k].todo
    BY <1>3 DEF AddCount
  <2>2. /\ HistogramRecord(hg') /\ hg'.samples = Done(k, "count")
        /\ hg'.count = hg.count + 1 /\ hg'.max = hg.max /\ hg'.min = hg.min
        /\ hg'.summary = hg.summary
    BY <1>1, <1>3 DEF AddCount, HistogramRecord
  <2> QED  BY <2>1, <2>2, HistogramDoes
<1>4. ASSUME AddSum(k) PROVE HistogramInv'
  <2>1. "sum" \in hg.samples[k].todo
    BY <1>4 DEF AddSum
  <2>2. /\ HistogramRecord(hg') /\ hg'.samples = Done(k, "sum")
        /\ hg'.count = hg.count /\ hg'.max = hg.max /\ hg'.min = hg.min
        /\ hg'.summary = hg.summary
    BY <1>1, <1>4 DEF AddSum, HistogramRecord
  <2> QED  BY <2>1, <2>2, HistogramDoes
<1> QED  BY <1>2, <1>3, <1>4

\* A thread that has seen the current maximum or minimum, at its load or a failed
\* exchange.
LEMMA HistogramSees ==
  ASSUME HistogramInv, NEW k \in DOMAIN hg.samples, NEW m \in Nat,
         \/ "max" \in hg.samples[k].todo /\ m = hg.max
         \/ hg.samples[k].todo = {"min"} /\ m = hg.min,
         hg' = [hg EXCEPT !.samples[k].seen = m]
  PROVE  HistogramInv'
<1> DEFINE x == [hg.samples[k] EXCEPT !.seen = m]
<1>1. /\ hg.count \in Nat /\ hg.max \in Nat /\ hg.min \in Nat /\ hg.samples \in Seq(Sample)
      /\ hg.samples[k] \in Sample /\ HistogramRecord(hg)
  BY DEF HistogramInv, HistogramType
<1>2. /\ x \in Sample /\ x.value = hg.samples[k].value /\ x.todo = hg.samples[k].todo
      /\ x.seen = m
  <2>1. ASSUME NEW s \in Sample
        PROVE  LET y == [s EXCEPT !.seen = m]
               IN y \in Sample /\ y.value = s.value /\ y.todo = s.todo /\ y.seen = m
    BY DEF Sample
  <2> QED  BY <1>1, <2>1
<1>3. /\ HistogramRecord(hg') /\ hg'.samples = [hg.samples EXCEPT ![k] = x]
      /\ hg'.count = hg.count /\ hg'.max = hg.max /\ hg'.min = hg.min
      /\ hg'.summary = hg.summary
  BY <1>1 DEF HistogramRecord
<1> HIDE DEF x
<1>4. OneSample(k, x)
  BY <1>3 DEF OneSample
<1>5. Maximum' /\ LoopsRight'
  <2>1. hg'.max \in Nat /\ hg'.max >= hg.max /\ hg'.min \in Nat /\ hg'.min <= hg.min
    BY <1>1, <1>3
  <2>2. "max" \notin x.todo => x.value <= hg'.max
    BY <1>2, <1>3 DEF HistogramInv, Maximum
  <2>3. SeenRight(x, hg'.min, hg'.max)
    BY <1>1, <1>2, <1>3 DEF SeenRight
  <2> QED  BY <1>2, <1>3, <1>4, <2>1, <2>2, <2>3, MaximumStep, LoopsStep
<1>6. Counted' /\ hg'.count \in Nat
  BY <1>2, <1>3, <1>4, CountedStep
<1>7. hg.samples[k].todo # {}
  OBVIOUS
<1> QED  BY <1>1, <1>2, <1>3, <1>4, <1>5, <1>6, <1>7, SampleStep

\* The end of a loop of compare-exchanges for the part "step".
LEMMA HistogramEnds ==
  ASSUME HistogramInv, NEW k \in DOMAIN hg.samples, NEW step \in hg.samples[k].todo,
         step = "max" \/ hg.samples[k].todo = {"min"}, HistogramRecord(hg'),
         hg'.samples = [Done(k, step) EXCEPT ![k].seen = -1], hg'.count = hg.count,
         hg'.summary = hg.summary, hg'.max \in Nat, hg'.max >= hg.max,
         hg'.min \in Nat, hg'.min <= hg.min,
         hg'.max = hg.max \/ hg'.max = hg.samples[k].value,
         step = "max" => hg.samples[k].value <= hg'.max
  PROVE  HistogramInv'
<1>1. PICK x \in Sample : Left(k, step, x)
  BY DoneIsOneSample
<1> DEFINE y == [x EXCEPT !.seen = -1]
<1>2. /\ y \in Sample /\ hg'.samples = [hg.samples EXCEPT ![k] = y]
      /\ y.value = hg.samples[k].value /\ y.seen = -1 /\ y.todo = hg.samples[k].todo \ {step}
  BY <1>1 DEF Left
<1> HIDE DEF y
<1>3. OneSample(k, y)
  BY <1>2 DEF OneSample
<1>4. hg.max \in Nat /\ hg.samples[k].value \in Nat
  <2>1. hg.max \in Nat /\ hg.samples \in Seq(Sample)
    BY DEF HistogramInv, HistogramType
  <2>2. hg.samples[k] \in Sample
    BY <2>1
  <2> QED  BY <2>1, <2>2 DEF Sample
<1>5. Maximum'
  <2>1. "max" \notin y.todo => y.value <= hg'.max
    <3>1. CASE step = "max"
      BY <1>2, <3>1
    <3>2. CASE step # "max"
      BY <1>2, <1>4, <3>2 DEF HistogramInv, Maximum
    <3> QED  BY <3>1, <3>2
  <2> QED  BY <1>2, <1>3, <2>1, MaximumStep
<1>6. LoopsRight'
  <2>1. SeenRight(y, hg'.min, hg'.max)
    BY <1>2 DEF SeenRight
  <2> QED  BY <1>2, <1>3, <2>1, LoopsStep
<1>7. Counted' /\ hg'.count \in Nat
  <2>1. "count" \in y.todo <=> "count" \in hg.samples[k].todo
    BY <1>2
  <2> QED  BY <1>2, <1>3, <2>1, CountedStep
<1> QED  BY <1>2, <1>3, <1>5, <1>6, <1>7, SampleStep

\* The loop of the maximum: either the maximum seen was at least the sample, or
\* nobody changed it since and it is exchanged.
LEMMA HistogramMaximum ==
  ASSUME HistogramInv, NEW k \in DOMAIN hg.samples
  PROVE  LoadMax(k) \/ ExchangeMax(k) => HistogramInv'
<1>0. /\ hg.max \in Nat /\ hg.min \in Nat /\ hg.samples[k].value \in Nat
      /\ hg.samples[k].seen \in Int /\ HistogramRecord(hg)
      /\ SeenRight(hg.samples[k], hg.min, hg.max)
  <2>1. /\ hg.max \in Nat /\ hg.min \in Nat /\ hg.samples \in Seq(Sample)
        /\ HistogramRecord(hg) /\ SeenRight(hg.samples[k], hg.min, hg.max)
    BY DEF HistogramInv, HistogramType, LoopsRight
  <2>2. hg.samples[k] \in Sample
    BY <2>1
  <2> QED  BY <2>1, <2>2 DEF Sample
<1>1. ASSUME LoadMax(k) PROVE HistogramInv'
  BY <1>0, <1>1, HistogramSees DEF LoadMax
<1>2. ASSUME ExchangeMax(k) PROVE HistogramInv'
  <2> DEFINE samples == [Done(k, "max") EXCEPT ![k].seen = -1]
  <2>1. "max" \in hg.samples[k].todo /\ hg.samples[k].seen <= hg.max
    BY <1>0, <1>2 DEF ExchangeMax, SeenRight
  <2>2. CASE hg.samples[k].value <= hg.samples[k].seen
    <3>1. hg' = [hg EXCEPT !.samples = samples]
      BY <1>2, <2>2 DEF ExchangeMax
    <3> HIDE DEF samples
    <3>2. /\ hg'.samples = samples /\ HistogramRecord(hg') /\ hg'.count = hg.count
          /\ hg'.summary = hg.summary /\ hg'.max = hg.max /\ hg'.min = hg.min
      BY <1>0, <3>1 DEF HistogramRecord
    <3>3. hg.samples[k].value <= hg'.max /\ hg'.max >= hg.max /\ hg'.min <= hg.min
      BY <1>0, <2>1, <2>2, <3>2
    <3> QED  BY <1>0, <2>1, <3>2, <3>3, HistogramEnds DEF samples
  <2>3. CASE ~(hg.samples[k].value <= hg.samples[k].seen) /\ hg.max = hg.samples[k].seen
    <3>1. hg' = [hg EXCEPT !.max = hg.samples[k].value, !.samples = samples]
      BY <1>2, <2>3 DEF ExchangeMax
    <3> HIDE DEF samples
    <3>2. /\ hg'.samples = samples /\ HistogramRecord(hg') /\ hg'.count = hg.count
          /\ hg'.summary = hg.summary /\ hg'.max = hg.samples[k].value /\ hg'.min = hg.min
      BY <1>0, <3>1 DEF HistogramRecord
    <3>3. hg.samples[k].value <= hg'.max /\ hg'.max >= hg.max /\ hg'.min <= hg.min
      BY <1>0, <2>3, <3>2
    <3> QED  BY <1>0, <2>1, <3>2, <3>3, HistogramEnds DEF samples
  <2>4. CASE ~(hg.samples[k].value <= hg.samples[k].seen) /\ hg.max # hg.samples[k].seen
    <3>1. hg' = [hg EXCEPT !.samples[k].seen = hg.max]
      BY <1>2, <2>4 DEF ExchangeMax
    <3> QED  BY <1>0, <2>1, <3>1, HistogramSees
  <2> QED  BY <2>2, <2>3, <2>4
<1> QED  BY <1>1, <1>2

\* The loop of the minimum, in the same way.
LEMMA HistogramMinimum ==
  ASSUME HistogramInv, NEW k \in DOMAIN hg.samples
  PROVE  LoadMin(k) \/ ExchangeMin(k) => HistogramInv'
<1>0. /\ hg.max \in Nat /\ hg.min \in Nat /\ hg.samples[k].value \in Nat
      /\ hg.samples[k].seen \in Int /\ HistogramRecord(hg)
  <2>1. /\ hg.max \in Nat /\ hg.min \in Nat /\ hg.samples \in Seq(Sample)
        /\ HistogramRecord(hg)
    BY DEF HistogramInv, HistogramType
  <2>2. hg.samples[k] \in Sample
    BY <2>1
  <2> QED  BY <2>1, <2>2 DEF Sample
<1>1. ASSUME LoadMin(k) PROVE HistogramInv'
  BY <1>0, <1>1, HistogramSees DEF LoadMin
<1>2. ASSUME ExchangeMin(k) PROVE HistogramInv'
  <2> DEFINE samples == [Done(k, "min") EXCEPT ![k].seen = -1]
  <2>1. hg.samples[k].todo = {"min"}
    BY <1>2 DEF ExchangeMin
  <2>2. CASE hg.samples[k].value >= hg.samples[k].seen
    <3>1. hg' = [hg EXCEPT !.samples = samples]
      BY <1>2, <2>2 DEF ExchangeMin
    <3> HIDE DEF samples
    <3>2. /\ hg'.samples = samples /\ HistogramRecord(hg') /\ hg'.count = hg.count
          /\ hg'.summary = hg.summary /\ hg'.max = hg.max /\ hg'.min = hg.min
      BY <1>0, <3>1 DEF HistogramRecord
    <3>3. hg'.max >= hg.max /\ hg'.min <= hg.min
      BY <1>0, <3>2
    <3> QED  BY <1>0, <2>1, <3>2, <3>3, HistogramEnds DEF samples
  <2>3. CASE ~(hg.samples[k].value >= hg.samples[k].seen) /\ hg.min = hg.samples[k].seen
    <3>1. hg' = [hg EXCEPT !.min = hg.samples[k].value, !.samples = samples]
      BY <1>2, <2>3 DEF ExchangeMin
    <3> HIDE DEF samples
    <3>2. /\ hg'.samples = samples /\ HistogramRecord(hg') /\ hg'.count = hg.count
          /\ hg'.summary = hg.summary /\ hg'.max = hg.max /\ hg'.min = hg.samples[k].value
      BY <1>0, <3>1 DEF HistogramRecord
    <3>3. hg'.max >= hg.max /\ hg'.min <= hg.min
      BY <1>0, <2>3, <3>2
    <3> QED  BY <1>0, <2>1, <3>2, <3>3, HistogramEnds DEF samples
  <2>4. CASE ~(hg.samples[k].value >= hg.samples[k].seen) /\ hg.min # hg.samples[k].seen
    <3>1. hg' = [hg EXCEPT !.samples[k].seen = hg.min]
      BY <1>2, <2>4 DEF ExchangeMin
    <3> QED  BY <1>0, <2>1, <3>1, HistogramSees
  <2> QED  BY <2>2, <2>3, <2>4
<1> QED  BY <1>1, <1>2

\* A reader changes nothing but its own state.
LEMMA HistogramRead ==
  ASSUME HistogramInv,
         \/ ReadTotal \/ ReadMax \/ ReadBucket \/ ReaderReturns \/ UNCHANGED hg
  PROVE  HistogramInv'
<1>1. HistogramRecord(hg)
  BY DEF HistogramInv, HistogramType
<1>2. /\ HistogramRecord(hg') /\ hg'.samples = hg.samples /\ hg'.count = hg.count
      /\ hg'.summary = hg.summary /\ hg'.max = hg.max /\ hg'.min = hg.min
  <2>1. CASE ReadTotal
    BY <1>1, <2>1 DEF ReadTotal, HistogramRecord
  <2>2. CASE ReadMax
    BY <1>1, <2>2 DEF ReadMax, HistogramRecord
  <2>3. CASE ReadBucket
    BY <1>1, <2>3 DEF ReadBucket, HistogramRecord
  <2>4. CASE ReaderReturns
    BY <1>1, <2>4 DEF ReaderReturns, HistogramRecord
  <2>5. CASE UNCHANGED hg
    BY <1>1, <2>5
  <2> QED  BY <2>1, <2>2, <2>3, <2>4, <2>5
<1>3. HistogramType'
  BY <1>2 DEF HistogramInv, HistogramType
<1>4. Counted' /\ Maximum' /\ LoopsRight'
  BY <1>2 DEF HistogramInv, Counted, Maximum, LoopsRight
<1>5. Summarized'
  BY <1>2 DEF HistogramInv, Summarized, InFlight
<1> QED  BY <1>3, <1>4, <1>5 DEF HistogramInv

\* The summary is taken when no sample is in flight; a count above zero means
\* that there are samples.
LEMMA HistogramSummarized == HistogramInv /\ summarize => HistogramInv'
<1> SUFFICES ASSUME HistogramInv, summarize PROVE HistogramInv'
  OBVIOUS
<1>1. /\ HistogramRecord(hg) /\ hg.count \in Nat /\ hg.samples \in Seq(Sample)
      /\ hg.count = Cardinality(Without(hg.samples, "count"))
  BY DEF HistogramInv, HistogramType, Counted
<1> DEFINE p == [q \in Quantiles |-> PercentileAtRest(q)]
           s == [count |-> hg.count, sum |-> hg.sum, min |-> hg.min, max |-> hg.max, p |-> p]
<1>2. hg' = [hg EXCEPT !.summary = s] /\ InFlight = {} /\ hg.count > 0
  BY DEF summarize
<1>3. s.count = hg.count /\ s.max = hg.max
  OBVIOUS
<1> HIDE DEF s
<1>4. /\ HistogramRecord(hg') /\ hg'.samples = hg.samples /\ hg'.count = hg.count
      /\ hg'.summary = s /\ hg'.max = hg.max /\ hg'.min = hg.min
  BY <1>1, <1>2 DEF HistogramRecord
<1>5. hg.samples # <<>>
  <2> SUFFICES ASSUME hg.samples = <<>> PROVE FALSE
    OBVIOUS
  <2>1. Without(hg.samples, "count") = {}
    BY DEF Without
  <2>2. Cardinality({}) = 0
    BY FS_EmptySet
  <2>3. hg.count = 0
    BY <1>1, <2>1, <2>2
  <2> QED  BY <1>2, <2>3
<1>6. HistogramType'
  BY <1>4 DEF HistogramInv, HistogramType
<1>7. Counted' /\ Maximum' /\ LoopsRight'
  BY <1>4 DEF HistogramInv, Counted, Maximum, LoopsRight
<1>8. Summarized'
  <2>1. InFlight' = {}
    BY <1>2, <1>4 DEF InFlight
  <2> QED  BY <1>3, <1>4, <1>5, <2>1 DEF Summarized
<1> QED  BY <1>6, <1>7, <1>8 DEF HistogramInv

\* Every operation on the histogram keeps its invariant.
LEMMA HistogramNext == HistogramInv /\ (Next_hg \/ UNCHANGED hg) => HistogramInv'
<1> SUFFICES ASSUME HistogramInv, Next_hg \/ UNCHANGED hg PROVE HistogramInv'
  OBVIOUS
<1>1. CASE record_us
  BY <1>1, HistogramBegins
<1>2. ASSUME NEW k \in DOMAIN hg.samples,
             \/ AddBucket(k) \/ AddCount(k) \/ AddSum(k)
             \/ LoadMin(k) \/ ExchangeMin(k) \/ LoadMax(k) \/ ExchangeMax(k)
      PROVE  HistogramInv'
  BY <1>2, HistogramAdds, HistogramMinimum, HistogramMaximum
<1>3. CASE reset_hg
  BY <1>3, EmptyHistogram DEF reset_hg
<1>4. CASE ReadTotal \/ ReadMax \/ ReadBucket \/ ReaderReturns \/ UNCHANGED hg
  BY <1>4, HistogramRead
<1>5. CASE summarize
  BY <1>5, HistogramSummarized
<1> QED  BY <1>1, <1>2, <1>3, <1>4, <1>5 DEF Next_hg

\* With no sample in flight every sample is counted, and the maximum, which is
\* the value of one of them, is above none.
LEMMA TotalsFollow == HistogramInv => SummaryTotals
<1> SUFFICES ASSUME HistogramInv, hg.summary # <<>> PROVE
        /\ hg.summary.count = Len(hg.samples)
        /\ hg.summary.max = Max({Value(k) : k \in DOMAIN hg.samples})
  BY DEF SummaryTotals
<1>1. /\ hg.samples \in Seq(Sample) /\ InFlight = {} /\ hg.samples # <<>> /\ hg.max \in Nat
      /\ hg.summary.count = hg.count /\ hg.summary.max = hg.max
      /\ hg.count = Cardinality(Without(hg.samples, "count"))
  BY DEF HistogramInv, HistogramType, Summarized, Counted
<1>2. \A k \in DOMAIN hg.samples : hg.samples[k].todo = {} /\ hg.samples[k].value \in Nat
  <2>1. \A k \in DOMAIN hg.samples : hg.samples[k].todo = {}
    BY <1>1 DEF InFlight
  <2>2. \A k \in DOMAIN hg.samples : hg.samples[k] \in Sample
    BY <1>1
  <2>3. \A k \in DOMAIN hg.samples : hg.samples[k].value \in Nat
    BY <2>2 DEF Sample
  <2> QED  BY <2>1, <2>3
<1>3. DOMAIN hg.samples = 1..Len(hg.samples) /\ Len(hg.samples) \in Nat /\ Len(hg.samples) > 0
  BY <1>1
<1>4. hg.count = Len(hg.samples)
  <2>1. Without(hg.samples, "count") = 1..Len(hg.samples)
    BY <1>2, <1>3 DEF Without
  <2>2. Cardinality(1..Len(hg.samples)) = Len(hg.samples)
    BY <1>3, FS_Interval
  <2> QED  BY <1>1, <2>1, <2>2
<1>5. \A k \in DOMAIN hg.samples : hg.samples[k].value <= hg.max
  BY <1>2 DEF HistogramInv, Maximum
<1>6. \E k \in DOMAIN hg.samples : hg.samples[k].value = hg.max
  <2>1. 1 \in DOMAIN hg.samples
    BY <1>3
  <2>2. CASE hg.max = 0
    BY <1>2, <1>5, <2>1, <2>2
  <2>3. CASE hg.max # 0
    BY <2>3 DEF HistogramInv, Maximum
  <2> QED  BY <2>2, <2>3
<1> DEFINE values == {Value(k) : k \in DOMAIN hg.samples}
<1>7. hg.max \in values /\ \A v \in values : v \in Nat /\ v <= hg.max
  BY <1>2, <1>5, <1>6 DEF Value
<1> HIDE DEF values
<1>8. Max(values) = hg.max
  BY <1>1, <1>7 DEF Max
<1> QED  BY <1>1, <1>4, <1>8 DEF values

\* The count and the maximum of a run's latency report are those of its samples,
\* for every number of recording threads and of samples, and every interleaving
\* of their atomic operations with each other and with readers.
THEOREM SummaryTotalsHold == Spec => []SummaryTotals
<1>1. Init => HistogramInv
  BY EmptyHistogram DEF Init, Init_hg
<1>2. HistogramInv /\ [Next]_vars => HistogramInv'
  <2>1. [Next]_vars => Next_hg \/ UNCHANGED hg
    BY DEF Next, vars
  <2> QED  BY <2>1, HistogramNext
<1>3. HistogramInv => SummaryTotals
  BY TotalsFollow
<1> QED  BY <1>1, <1>2, <1>3, PTL DEF Spec

-----------------------------------------------------------------------------
(* The buckets of the latency histogram.                                     *)

\* A larger exponent, a larger power.
LEMMA PowersGrow ==
  ASSUME NEW m \in Nat, NEW n \in Nat, m <= n
  PROVE  Pow2[m] <= Pow2[n]
<1> DEFINE G == {d \in Nat : Pow2[m] <= Pow2[m + d]}
<1>1. 0 \in G
  BY Powers
<1>2. ASSUME NEW d \in G PROVE d + 1 \in G
  <2>1. d \in Nat /\ m + d \in Nat /\ m + (d + 1) = (m + d) + 1
    OBVIOUS
  <2>2. Pow2[m + (d + 1)] = 2 * Pow2[m + d] /\ Pow2[m + d] \in Nat /\ Pow2[m] \in Nat
    BY <2>1, Powers
  <2> QED  BY <2>1, <2>2
<1>3. G \subseteq Nat
  OBVIOUS
<1> HIDE DEF G
<1>4. n - m \in G
  BY <1>1, <1>2, <1>3, Induction
<1>5. m + (n - m) = n
  OBVIOUS
<1> QED  BY <1>4, <1>5 DEF G

\* The power of a sum.
LEMMA PowerOfSum ==
  ASSUME NEW m \in Nat, NEW n \in Nat
  PROVE  Pow2[m + n] = Pow2[m] * Pow2[n]
<1> DEFINE G == {d \in Nat : Pow2[m + d] = Pow2[m] * Pow2[d]}
<1>1. 0 \in G
  BY Powers
<1>2. ASSUME NEW d \in G PROVE d + 1 \in G
  <2>1. d \in Nat /\ m + d \in Nat /\ m + (d + 1) = (m + d) + 1
    OBVIOUS
  <2>2. /\ Pow2[m + (d + 1)] = 2 * Pow2[m + d] /\ Pow2[d + 1] = 2 * Pow2[d]
        /\ Pow2[m + d] = Pow2[m] * Pow2[d]
        /\ Pow2[d] \in Nat /\ Pow2[m] \in Nat
    BY <2>1, Powers
  <2>3. Pow2[m] * (2 * Pow2[d]) = 2 * (Pow2[m] * Pow2[d])
    BY <2>2
  <2> QED  BY <2>1, <2>2, <2>3
<1>3. G \subseteq Nat
  OBVIOUS
<1> HIDE DEF G
<1>4. n \in G
  BY <1>1, <1>2, <1>3, Induction
<1> QED  BY <1>4 DEF G

\* The number of bits of a value that the buckets can hold.
LEMMA BitWidth ==
  ASSUME NEW v \in 0..kMaxValueUs
  PROVE  /\ bit_width(v) \in 0..ValueBits /\ v < Pow2[bit_width(v)]
         /\ \A c \in 0..(bit_width(v) - 1) : v >= Pow2[c]
<1> DEFINE Wide(b) == v < Pow2[b] /\ \A c \in 0..(b - 1) : v >= Pow2[c]
           G == {b \in Nat : v < Pow2[b]}
           w == bit_width(v)
<1>0. ValueBits \in Nat /\ v \in Nat /\ Pow2[ValueBits] \in Nat
  BY LatencyHistogramAssumption, Powers DEF kMaxValueUs
<1>1. ValueBits \in G
  BY <1>0 DEF kMaxValueUs
<1>2. PICK b \in G : \A c \in G : b <= c
  BY <1>1, LeastElement
<1>3. b \in 0..ValueBits
  BY <1>0, <1>1, <1>2
<1>4. Wide(b)
  <2>1. ASSUME NEW c \in 0..(b - 1) PROVE v >= Pow2[c]
    <3>1. c \in Nat /\ c \notin G
      BY <1>2, <1>3
    <3>2. Pow2[c] \in Nat
      BY <3>1, Powers
    <3> QED  BY <1>0, <3>1, <3>2
  <2> QED  BY <1>2, <2>1
<1>5. w = CHOOSE d \in 0..(ValueBits + 1) : Wide(d)
  BY DEF bit_width
<1>6. w \in 0..(ValueBits + 1) /\ Wide(w)
  <2>1. b \in 0..(ValueBits + 1)
    BY <1>0, <1>3
  <2> HIDE DEF Wide, w
  <2> QED  BY <1>4, <1>5, <2>1
<1> HIDE DEF w
<1>7. w <= ValueBits
  <2> SUFFICES ASSUME w = ValueBits + 1 PROVE FALSE
    BY <1>0, <1>6
  <2>1. ValueBits \in 0..(w - 1)
    BY <1>0
  <2>2. v >= Pow2[ValueBits]
    BY <1>6, <2>1
  <2> QED  BY <1>0, <1>1, <2>2
<1> QED  BY <1>0, <1>6, <1>7 DEF w

\* The number of bits is determined by the two powers around the value.
LEMMA BitWidthIs ==
  ASSUME NEW v \in 0..kMaxValueUs, NEW b \in Nat, Pow2[b] <= v, v < Pow2[b + 1]
  PROVE  bit_width(v) = b + 1
<1> DEFINE w == bit_width(v)
<1>1. w \in 0..ValueBits /\ v < Pow2[w] /\ \A c \in 0..(w - 1) : v >= Pow2[c]
  BY BitWidth
<1>2. ValueBits \in Nat /\ v \in Nat /\ Pow2[b] \in Nat /\ Pow2[b + 1] \in Nat /\ w \in Nat
      /\ Pow2[w] \in Nat
  <2>1. ValueBits \in Nat /\ w \in Nat
    BY <1>1, LatencyHistogramAssumption
  <2> QED  BY <2>1, Powers DEF kMaxValueUs
<1> HIDE DEF w
<1>3. ~(w <= b)
  <2> SUFFICES ASSUME w <= b PROVE FALSE
    OBVIOUS
  <2>1. Pow2[w] <= Pow2[b]
    BY <1>2, PowersGrow
  <2> QED  BY <1>1, <1>2, <2>1
<1>4. ~(w > b + 1)
  <2> SUFFICES ASSUME w > b + 1 PROVE FALSE
    OBVIOUS
  <2>1. b + 1 \in 0..(w - 1)
    BY <1>2
  <2>2. v >= Pow2[b + 1]
    BY <1>1, <2>1
  <2> QED  BY <1>2, <2>2
<1> QED  BY <1>2, <1>3, <1>4 DEF w

\* The constants of the class.
LEMMA Constants ==
  /\ kSubBucketBits \in Nat \ {0} /\ ValueBits \in Nat /\ kSubBucketBits <= ValueBits
  /\ kHalfSubBucketCount \in Nat \ {0} /\ kSubBucketCount = 2 * kHalfSubBucketCount
  /\ kHalfSubBucketCount = Pow2[kSubBucketBits - 1] /\ kSubBucketCount = Pow2[kSubBucketBits]
  /\ kMaxValueUs \in Nat /\ kMaxValueUs + 1 = Pow2[ValueBits]
  /\ kSubBucketCount <= kMaxValueUs + 1
<1> DEFINE k == kSubBucketBits
           half == Pow2[k - 1]
<1>1. k \in Nat \ {0} /\ ValueBits \in Nat /\ k <= ValueBits /\ k - 1 \in Nat
  BY LatencyHistogramAssumption
<1>2. half \in Nat \ {0} /\ Pow2[(k - 1) + 1] = 2 * half /\ (k - 1) + 1 = k
  BY <1>1, Powers
<1>3. Pow2[k] <= Pow2[ValueBits] /\ Pow2[ValueBits] \in Nat \ {0}
  BY <1>1, PowersGrow, Powers
<1>4. (2 * half) \div 2 = half
  <2> HIDE DEF half
  <2> QED  BY <1>2
<1> HIDE DEF half, k
<1>5. kHalfSubBucketCount = half /\ kSubBucketCount = 2 * half /\ kSubBucketCount = Pow2[k]
  BY <1>2, <1>4 DEF kHalfSubBucketCount, kSubBucketCount, k
<1>6. kMaxValueUs = Pow2[ValueBits] - 1
  BY DEF kMaxValueUs
<1>7. kMaxValueUs \in Nat /\ kMaxValueUs + 1 = Pow2[ValueBits]
  BY <1>3, <1>6
<1> QED  BY <1>1, <1>2, <1>3, <1>5, <1>7 DEF half, k

\* The value with the leading bits t that are shifted by s.
InBucket(v, s, t) ==
    /\ s \in 1..(ValueBits - kSubBucketBits)
    /\ t \in kHalfSubBucketCount..(kSubBucketCount - 1)
    /\ t * Pow2[s] <= v /\ v < (t + 1) * Pow2[s]

\* The bucket of the leading bits t that are shifted by s.
BucketAt(s, t) == kSubBucketCount + (s - 1) * kHalfSubBucketCount + (t - kHalfSubBucketCount)

\* The quotient is the number of times that the divisor fits.
LEMMA QuotientIs ==
  ASSUME NEW M \in Nat \ {0}, NEW a \in Int, NEW t \in Int, t * M <= a, a < (t + 1) * M
  PROVE  a \div M = t
<1> DEFINE q == a \div M
<1>1. q \in Int /\ M * q <= a /\ a < M * q + M
  BY Division
<1> HIDE DEF q
<1>2. t * M = M * t /\ (t + 1) * M = M * t + M /\ M * t \in Int /\ M * q \in Int
  BY <1>1
<1>3. M * q < M * t + M /\ M * t < M * q + M
  BY <1>1, <1>2
<1>4. q <= t /\ t <= q
  BY <1>1, <1>3, ProductCancels
<1> QED  BY <1>1, <1>4 DEF q

\* Quotient and remainder of a position in rows of M.
LEMMA RowAndColumn ==
  ASSUME NEW M \in Nat \ {0}, NEW q \in Nat, NEW r \in 0..(M - 1)
  PROVE  (q * M + r) \div M = q /\ (q * M + r) % M = r
<1> DEFINE a == q * M + r
<1>1. a \in Int /\ q * M <= a /\ a < (q + 1) * M
  <2>1. q * M \in Int /\ (q + 1) * M = q * M + M
    OBVIOUS
  <2> QED  BY <2>1
<1> HIDE DEF a
<1>2. a \div M = q
  BY <1>1, QuotientIs
<1>3. a = M * (a \div M) + (a % M) /\ a % M \in Int
  BY <1>1, Division
<1>4. M * q = q * M /\ q * M \in Int
  OBVIOUS
<1>5. a % M = r
  BY <1>2, <1>3, <1>4 DEF a
<1> QED  BY <1>2, <1>5 DEF a

\* Leading bits and shift determine the bucket and its bound.
LEMMA IndexOf ==
  ASSUME NEW v \in Nat, NEW s, NEW t, InBucket(v, s, t)
  PROVE  /\ v >= kSubBucketCount /\ v <= kMaxValueUs
         /\ bucket_index(v) = BucketAt(s, t)
         /\ BucketAt(s, t) >= kSubBucketCount
         /\ BucketAt(s, t) \in 0..(kBucketCount - 1)
         /\ bucket_upper_bound(BucketAt(s, t)) = (t + 1) * Pow2[s] - 1
<1> DEFINE k == kSubBucketBits
           H == kHalfSubBucketCount
           S == kSubBucketCount
           P == Pow2[s]
           i == BucketAt(s, t)
<1>1. /\ k \in Nat \ {0} /\ ValueBits \in Nat /\ k <= ValueBits
      /\ H \in Nat \ {0} /\ S = 2 * H /\ H = Pow2[k - 1] /\ S = Pow2[k]
      /\ kMaxValueUs \in Nat /\ kMaxValueUs + 1 = Pow2[ValueBits]
  BY Constants
<1>2. s \in 1..(ValueBits - k) /\ t \in H..(S - 1) /\ t * P <= v /\ v < (t + 1) * P
  BY DEF InBucket
<1>3. s \in Nat /\ s - 1 \in Nat /\ k - 1 \in Nat /\ t \in Nat
  BY <1>1, <1>2
<1>4. P \in Nat \ {0} /\ P >= 2
  <2>1. Pow2[(s - 1) + 1] = 2 * Pow2[s - 1] /\ Pow2[s - 1] \in Nat \ {0} /\ (s - 1) + 1 = s
    BY <1>3, Powers
  <2> QED  BY <2>1
<1>5. Pow2[(k - 1) + s] = H * P /\ Pow2[k + s] = S * P
  <2> DEFINE l == k - 1
  <2>1. l \in Nat
    BY <1>3
  <2> HIDE DEF l, k
  <2>2. Pow2[l + s] = Pow2[l] * Pow2[s] /\ Pow2[k + s] = Pow2[k] * Pow2[s]
    BY <1>1, <1>3, <2>1, PowerOfSum
  <2> QED  BY <1>1, <2>2 DEF l
<1>6. Pow2[k + s] <= kMaxValueUs + 1
  <2>1. k + s \in Nat /\ k + s <= ValueBits
    BY <1>1, <1>2, <1>3
  <2> QED  BY <1>1, <2>1, PowersGrow
<1> HIDE DEF P, H, S, k
<1>7. H * P <= t * P /\ (t + 1) * P <= S * P
  <2>1. P * H <= P * t
    BY <1>1, <1>2, <1>4, ProductMonotone
  <2>2. P * (t + 1) <= P * S
    BY <1>1, <1>2, <1>3, <1>4, ProductMonotone
  <2>3. P * H = H * P /\ P * t = t * P /\ P * (t + 1) = (t + 1) * P /\ P * S = S * P
    BY <1>1, <1>3, <1>4
  <2> QED  BY <2>1, <2>2, <2>3
<1>8. H * P \in Nat /\ S * P \in Nat /\ t * P \in Nat /\ (t + 1) * P \in Nat
  BY <1>1, <1>3, <1>4
<1>9. H * P <= v /\ v < S * P
  BY <1>2, <1>7, <1>8
<1>10. v >= S
  <2>1. H * 2 <= H * P
    BY <1>1, <1>4, ProductMonotone
  <2> QED  BY <1>1, <1>8, <1>9, <2>1
<1>11. v <= kMaxValueUs /\ v \in 0..kMaxValueUs
  BY <1>1, <1>5, <1>6, <1>8, <1>9
<1>12. bit_width(v) = k + s
  <2> DEFINE b == (k - 1) + s
  <2>1. b \in Nat /\ b + 1 = k + s
    BY <1>1, <1>3
  <2>2. Pow2[b] <= v /\ v < Pow2[b + 1]
    BY <1>5, <1>9, <2>1
  <2> HIDE DEF b
  <2> QED  BY <1>11, <2>1, <2>2, BitWidthIs
<1>13. Shift(v) = s
  BY <1>1, <1>3, <1>12 DEF Shift, k
<1>14. v \div P = t
  BY <1>2, <1>3, <1>4, QuotientIs
<1>15. i = S + (s - 1) * H + (t - H)
  BY DEF BucketAt, S, H
<1>16. bucket_index(v) = i
  <2>1. Min({v, kMaxValueUs}) = v
    BY <1>1, <1>11, MinOfTwo
  <2>2. ~(v < S)
    BY <1>1, <1>10
  <2> QED  BY <1>13, <1>14, <1>15, <2>1, <2>2 DEF bucket_index, S, H, P
<1> HIDE DEF i
<1> DEFINE r == t - H
           q == s - 1
<1>17. r \in 0..(H - 1) /\ q \in Nat /\ q * H \in Nat /\ i = S + q * H + r
  BY <1>1, <1>2, <1>3, <1>15
<1>18. i >= S /\ i - S = q * H + r /\ i \in Nat
  <2> HIDE DEF r, q
  <2> QED  BY <1>1, <1>17
<1>19. i \in 0..(kBucketCount - 1)
  <2> DEFINE n == ValueBits - k
  <2>1. n \in Nat /\ q + 1 <= n
    BY <1>1, <1>2, <1>3
  <2>2. kBucketCount = S + n * H
    BY DEF kBucketCount, S, H, k
  <2> HIDE DEF n, r, q
  <2>3. H * (q + 1) <= H * n
    BY <1>1, <1>17, <2>1, ProductMonotone
  <2>4. H * (q + 1) = q * H + H /\ H * n = n * H /\ n * H \in Nat
    BY <1>1, <1>17, <2>1
  <2> QED  BY <1>1, <1>17, <2>2, <2>3, <2>4
<1>20. bucket_upper_bound(i) = (t + 1) * P - 1
  <2>1. (i - S) \div H = q /\ (i - S) % H = r
    <3> HIDE DEF r, q
    <3>1. (q * H + r) \div H = q /\ (q * H + r) % H = r
      BY <1>1, <1>17, RowAndColumn
    <3> QED  BY <1>18, <3>1
  <2>2. q + 1 = s /\ r + H = t
    BY <1>1, <1>3
  <2>3. ~(i < S)
    BY <1>1, <1>18
  <2> HIDE DEF r, q
  <2>4. bucket_upper_bound(i) = (((i - S) % H) + H + 1) * Pow2[(i - S) \div H + 1] - 1
    BY <2>3 DEF bucket_upper_bound, S, H
  <2> QED  BY <2>1, <2>2, <2>4 DEF P
<1> QED  BY <1>10, <1>11, <1>16, <1>18, <1>19, <1>20 DEF S, P, i

\* Every value beyond the linear part has leading bits and a shift.
LEMMA BucketOf ==
  ASSUME NEW v \in kSubBucketCount..kMaxValueUs
  PROVE  \E s, t : InBucket(v, s, t)
<1> DEFINE k == kSubBucketBits
           H == kHalfSubBucketCount
           S == kSubBucketCount
           w == bit_width(v)
           s == w - k
           P == Pow2[s]
           t == v \div P
<1>1. /\ k \in Nat \ {0} /\ ValueBits \in Nat /\ k <= ValueBits
      /\ H \in Nat \ {0} /\ S = 2 * H /\ H = Pow2[k - 1] /\ S = Pow2[k]
      /\ kMaxValueUs \in Nat /\ kMaxValueUs + 1 = Pow2[ValueBits]
  BY Constants
<1>2. v \in Nat /\ v \in 0..kMaxValueUs /\ v >= S
  BY <1>1
<1>3. w \in 0..ValueBits /\ v < Pow2[w] /\ \A c \in 0..(w - 1) : v >= Pow2[c]
  BY <1>2, BitWidth
<1> HIDE DEF w, S, H, k
<1>4. w > k
  <2> SUFFICES ASSUME w <= k PROVE FALSE
    BY <1>1, <1>3
  <2>1. Pow2[w] <= Pow2[k]
    BY <1>1, <1>3, PowersGrow
  <2>2. Pow2[w] \in Nat
    BY <1>1, <1>3, Powers
  <2> QED  BY <1>1, <1>2, <1>3, <2>1, <2>2
<1>5. s \in 1..(ValueBits - k) /\ s \in Nat /\ (k - 1) + s = w - 1 /\ k + s = w
      /\ w - 1 \in 0..(w - 1) /\ k - 1 \in Nat
  BY <1>1, <1>3, <1>4
<1>6. P \in Nat \ {0} /\ Pow2[w - 1] = H * P /\ Pow2[w] = S * P
  <2>1. P \in Nat \ {0} /\ Pow2[(k - 1) + s] = H * P /\ Pow2[k + s] = S * P
    <3> DEFINE l == k - 1
    <3>1. l \in Nat
      BY <1>5
    <3> HIDE DEF l, s
    <3>2. Pow2[l + s] = Pow2[l] * Pow2[s] /\ Pow2[k + s] = Pow2[k] * Pow2[s]
      BY <1>1, <1>5, <3>1, PowerOfSum
    <3> QED  BY <1>1, <1>5, <3>2, Powers DEF l
  <2> HIDE DEF P, s
  <2> QED  BY <1>5, <2>1
<1> HIDE DEF s, P
<1>7. H * P <= v /\ v < S * P
  BY <1>3, <1>5, <1>6
<1>8. t \in Int /\ P * t <= v /\ v < P * t + P
  BY <1>2, <1>6, Division
<1> HIDE DEF t
<1>9. H <= t /\ t + 1 <= S
  <2>1. P * H < P * t + P /\ P * t < P * (S - 1) + P
    <3>1. P * H = H * P /\ P * (S - 1) + P = S * P /\ P * t \in Int /\ H * P \in Int
          /\ S * P \in Int
      BY <1>1, <1>6, <1>8
    <3> QED  BY <1>2, <1>7, <1>8, <3>1, <1>6
  <2>2. H <= t /\ t <= S - 1
    BY <1>1, <1>6, <1>8, <2>1, ProductCancels
  <2> QED  BY <1>1, <1>8, <2>2
<1>10. t * P <= v /\ v < (t + 1) * P
  <2>1. t * P = P * t /\ (t + 1) * P = P * t + P
    BY <1>6, <1>8
  <2> QED  BY <1>8, <2>1
<1>11. t \in H..(S - 1)
  BY <1>1, <1>8, <1>9
<1>12. InBucket(v, s, t)
  BY <1>5, <1>10, <1>11 DEF InBucket, P, H, S, k
<1> QED  BY <1>12

\* Small values have buckets of their own.
LEMMA LinearPart ==
  ASSUME NEW v \in 0..(kSubBucketCount - 1)
  PROVE  /\ bucket_index(v) = v /\ bucket_upper_bound(v) = v
         /\ v \in 0..(kBucketCount - 1) /\ v <= kMaxValueUs
<1>1. /\ kSubBucketBits \in Nat /\ ValueBits \in Nat /\ kSubBucketBits <= ValueBits
      /\ kHalfSubBucketCount \in Nat /\ kSubBucketCount \in Nat
      /\ kMaxValueUs \in Nat /\ kSubBucketCount <= kMaxValueUs + 1
  BY Constants
<1>2. v \in Nat /\ v < kSubBucketCount /\ v <= kMaxValueUs
  BY <1>1
<1>3. Min({v, kMaxValueUs}) = v
  BY <1>1, <1>2, MinOfTwo
<1>4. bucket_index(v) = v
  BY <1>2, <1>3 DEF bucket_index
<1>5. bucket_upper_bound(v) = v
  BY <1>2 DEF bucket_upper_bound
<1>6. v \in 0..(kBucketCount - 1)
  <2> DEFINE m == (ValueBits - kSubBucketBits) * kHalfSubBucketCount
  <2>1. m \in Nat
    BY <1>1
  <2> HIDE DEF m
  <2>2. kBucketCount = kSubBucketCount + m
    BY DEF kBucketCount, m
  <2> QED  BY <1>1, <1>2, <2>1, <2>2
<1> QED  BY <1>2, <1>4, <1>5, <1>6

\* The value after the last one of a bucket is in the next bucket.
LEMMA NextBucket ==
  ASSUME NEW v \in Nat, NEW s, NEW t, InBucket(v, s, t), (t + 1) * Pow2[s] <= kMaxValueUs
  PROVE  /\ (t + 1) * Pow2[s] \in Nat
         /\ bucket_index((t + 1) * Pow2[s]) = BucketAt(s, t) + 1
<1> DEFINE k == kSubBucketBits
           H == kHalfSubBucketCount
           S == kSubBucketCount
           P == Pow2[s]
           next == (t + 1) * P
<1>1. /\ k \in Nat \ {0} /\ ValueBits \in Nat /\ k <= ValueBits
      /\ H \in Nat \ {0} /\ S = 2 * H /\ H = Pow2[k - 1] /\ S = Pow2[k]
      /\ kMaxValueUs \in Nat /\ kMaxValueUs + 1 = Pow2[ValueBits]
  BY Constants
<1>2. s \in 1..(ValueBits - k) /\ t \in H..(S - 1)
  BY DEF InBucket
<1>3. s \in Nat /\ t \in Nat /\ t + 1 \in Nat
  BY <1>1, <1>2
<1>4. P \in Nat \ {0} /\ Pow2[s + 1] = 2 * P
  BY <1>3, Powers
<1>5. next \in Nat
  BY <1>3, <1>4
<1>6. BucketAt(s, t) = S + (s - 1) * H + (t - H) /\ (s - 1) * H \in Nat
  BY <1>1, <1>2, <1>3 DEF BucketAt
<1>7. CASE t + 1 < S
  <2>1. next < ((t + 1) + 1) * P
    BY <1>3, <1>4, <1>5
  <2>2. t + 1 \in H..(S - 1)
    BY <1>1, <1>2, <1>7
  <2> HIDE DEF H, S, k
  <2>3. InBucket(next, s, t + 1)
    BY <1>2, <1>5, <2>1, <2>2 DEF InBucket, H, S, k
  <2>4. bucket_index(next) = BucketAt(s, t + 1)
    BY <1>5, <2>3, IndexOf
  <2>5. BucketAt(s, t + 1) = S + (s - 1) * H + ((t + 1) - H)
    BY DEF BucketAt, S, H
  <2>6. S + (s - 1) * H + ((t + 1) - H) = (S + (s - 1) * H + (t - H)) + 1
    <3> DEFINE a == (s - 1) * H
    <3>1. a \in Nat
      BY <1>6
    <3> HIDE DEF a
    <3>2. S + a + ((t + 1) - H) = (S + a + (t - H)) + 1
      BY <1>1, <1>3, <3>1
    <3> QED  BY <3>2 DEF a
  <2> QED  BY <1>5, <1>6, <2>4, <2>5, <2>6
<1>8. CASE t + 1 = S
  <2>1. next = H * Pow2[s + 1]
    BY <1>1, <1>4, <1>8
  <2>2. Pow2[k + s] = next
    <3> HIDE DEF k
    <3>1. Pow2[k + s] = Pow2[k] * Pow2[s]
      BY <1>1, <1>3, PowerOfSum
    <3> QED  BY <1>1, <1>8, <3>1
  <2>3. s + 1 <= ValueBits - k
    <3> SUFFICES ASSUME ValueBits <= k + s PROVE FALSE
      BY <1>1, <1>3
    <3>1. Pow2[ValueBits] <= Pow2[k + s]
      <4>1. k + s \in Nat
        BY <1>1, <1>3
      <4> QED  BY <1>1, <4>1, PowersGrow
    <3> QED  BY <1>1, <1>5, <2>2, <3>1
  <2>4. next < (H + 1) * Pow2[s + 1]
    <3> DEFINE Q == Pow2[s + 1]
    <3>1. Q \in Nat \ {0}
      BY <1>4
    <3> HIDE DEF Q, next
    <3>2. H * Q < (H + 1) * Q
      BY <1>1, <3>1
    <3> QED  BY <2>1, <3>2 DEF Q
  <2>5. s + 1 \in 1..(ValueBits - k) /\ H \in H..(S - 1)
    BY <1>1, <1>3, <2>3
  <2>6. H * Pow2[s + 1] <= next
    <3> HIDE DEF next
    <3> QED  BY <1>5, <2>1
  <2> HIDE DEF H, S, k, next
  <2>7. InBucket(next, s + 1, H)
    BY <2>4, <2>5, <2>6 DEF InBucket, H, S, k
  <2>8. bucket_index(next) = BucketAt(s + 1, H)
    BY <1>5, <2>7, IndexOf
  <2>9. BucketAt(s + 1, H) = S + ((s + 1) - 1) * H + (H - H)
    BY DEF BucketAt, S, H
  <2>10. ((s + 1) - 1) * H = (s - 1) * H + H
    BY <1>1, <1>3
  <2>11. S + ((s + 1) - 1) * H + (H - H) = (S + (s - 1) * H + (t - H)) + 1
    <3> DEFINE a == (s - 1) * H
               b == ((s + 1) - 1) * H
    <3>1. a \in Nat /\ b = a + H
      BY <1>6, <2>10
    <3> HIDE DEF a, b
    <3>2. S + b + (H - H) = (S + a + (t - H)) + 1
      BY <1>1, <1>3, <1>8, <3>1
    <3> QED  BY <3>2 DEF a, b
  <2> QED  BY <1>5, <1>6, <2>8, <2>9, <2>11 DEF next
<1> QED  BY <1>1, <1>2, <1>3, <1>7, <1>8

\* A value, its bucket and the bound of the bucket.
LEMMA RoundTrip ==
  ASSUME NEW v \in 0..kMaxValueUs
  PROVE  LET i == bucket_index(v)
             bound == bucket_upper_bound(i)
         IN /\ i \in 0..(kBucketCount - 1)
            /\ bound \in 0..kMaxValueUs /\ bucket_index(bound) = i
            /\ v <= bound /\ (bound - v) * kHalfSubBucketCount <= v
            /\ bound < kMaxValueUs => bucket_index(bound + 1) = i + 1
            /\ v < kMaxValueUs => bucket_index(v + 1) \in {i, i + 1}
<1> DEFINE H == kHalfSubBucketCount
           S == kSubBucketCount
           i == bucket_index(v)
           bound == bucket_upper_bound(i)
<1>1. /\ kSubBucketBits \in Nat \ {0} /\ ValueBits \in Nat /\ kSubBucketBits <= ValueBits
      /\ H \in Nat \ {0} /\ S = 2 * H /\ S = Pow2[kSubBucketBits]
      /\ kMaxValueUs \in Nat /\ kMaxValueUs + 1 = Pow2[ValueBits]
      /\ S <= kMaxValueUs + 1
  BY Constants
<1>2. v \in Nat
  OBVIOUS
<1>3. CASE v < S
  <2>1. v \in 0..(S - 1)
    BY <1>1, <1>2, <1>3
  <2>2. i = v /\ bound = v /\ i \in 0..(kBucketCount - 1)
    BY <2>1, LinearPart
  <2>3. (v - v) * H <= v
    BY <1>1, <1>2
  <2>4. ASSUME v < kMaxValueUs PROVE bucket_index(v + 1) = v + 1
    <3>1. CASE v + 1 < S
      <4>1. v + 1 \in 0..(S - 1)
        BY <1>1, <1>2, <3>1
      <4> QED  BY <4>1, LinearPart
    <3>2. CASE v + 1 = S
      <4>1. kSubBucketBits < ValueBits
        <5> SUFFICES ASSUME kSubBucketBits = ValueBits PROVE FALSE
          BY <1>1
        <5> QED  BY <1>1, <1>2, <2>4, <3>2
      <4>2. Pow2[1] = 2
        <5>1. Pow2[0 + 1] = 2 * Pow2[0] /\ Pow2[0] = 1
          BY Powers
        <5> QED  BY <5>1
      <4>3. H * Pow2[1] <= S /\ S < (H + 1) * Pow2[1]
        BY <1>1, <4>2
      <4>4. 1 \in 1..(ValueBits - kSubBucketBits) /\ H \in H..(S - 1)
        BY <1>1, <4>1
      <4>5. InBucket(S, 1, H)
        BY <4>3, <4>4 DEF InBucket
      <4>6. bucket_index(S) = BucketAt(1, H)
        BY <1>1, <4>5, IndexOf
      <4>7. BucketAt(1, H) = S
        BY <1>1 DEF BucketAt
      <4> QED  BY <3>2, <4>6, <4>7
    <3> QED  BY <1>1, <1>2, <1>3, <3>1, <3>2
  <2> QED  BY <1>2, <2>2, <2>3, <2>4
<1>4. CASE v >= S
  <2>1. v \in S..kMaxValueUs
    BY <1>1, <1>2, <1>4
  <2>2. PICK s, t : InBucket(v, s, t)
    BY <2>1, BucketOf
  <2> DEFINE P == Pow2[s]
             next == (t + 1) * P
  <2>3. s \in Nat /\ t \in Nat /\ t >= H /\ t * P <= v /\ v < next
        /\ s \in 1..(ValueBits - kSubBucketBits) /\ t \in H..(S - 1)
    BY <1>1, <2>2 DEF InBucket
  <2>4. P \in Nat \ {0}
    BY <2>3, Powers
  <2>5. next \in Nat /\ next = t * P + P /\ t * P \in Nat
    BY <2>3, <2>4
  <2>6. i = BucketAt(s, t) /\ i \in 0..(kBucketCount - 1) /\ bound = next - 1
    BY <1>2, <2>2, IndexOf
  <2> HIDE DEF next, P, i, bound, H, S
  <2>7. bound \in Nat /\ v <= bound
    BY <1>2, <2>3, <2>5, <2>6
  <2>8. InBucket(bound, s, t)
    <3>1. t * P <= bound /\ bound < next
      BY <2>3, <2>4, <2>5, <2>6
    <3> QED  BY <2>3, <3>1 DEF InBucket, next, P, H, S
  <2>9. bound \in 0..kMaxValueUs /\ bucket_index(bound) = i
    <3>1. bound <= kMaxValueUs /\ bucket_index(bound) = BucketAt(s, t)
      BY <2>7, <2>8, IndexOf
    <3> QED  BY <1>1, <2>6, <2>7, <3>1
  <2>10. (bound - v) * H <= v
    <3>1. bound - v <= P /\ bound - v \in Nat
      BY <1>2, <2>3, <2>4, <2>5, <2>6, <2>7
    <3>2. H * (bound - v) <= H * P /\ P * H <= P * t
      <4> DEFINE e == bound - v
      <4>1. e \in Nat /\ e <= P
        BY <3>1
      <4> HIDE DEF e
      <4>2. H * e <= H * P
        BY <1>1, <2>4, <4>1, ProductMonotone
      <4>3. P * H <= P * t
        BY <1>1, <2>3, <2>4, ProductMonotone
      <4> QED  BY <4>2, <4>3 DEF e
    <3> DEFINE e == bound - v
    <3>3. e \in Nat
      BY <3>1
    <3> HIDE DEF e
    <3>4. H * e = e * H /\ H * P = P * H /\ P * t = t * P /\ e * H \in Nat /\ P * H \in Nat
      BY <1>1, <2>3, <2>4, <3>3
    <3>5. e * H <= v
      BY <1>2, <2>3, <2>5, <3>2, <3>4 DEF e
    <3> QED  BY <3>5 DEF e
  <2>11. bound + 1 = next
    BY <2>5, <2>6
  <2>12. ASSUME next <= kMaxValueUs PROVE bucket_index(next) = i + 1
    BY <1>2, <2>2, <2>6, <2>12, NextBucket DEF next, P
  <2>13. bound < kMaxValueUs => bucket_index(bound + 1) = i + 1
    <3>1. bound < kMaxValueUs => next <= kMaxValueUs
      BY <1>1, <2>5, <2>6
    <3> QED  BY <2>11, <2>12, <3>1
  <2>14. ASSUME v < kMaxValueUs PROVE bucket_index(v + 1) \in {i, i + 1}
    <3>1. CASE v + 1 = next
      <4>1. next <= kMaxValueUs
        BY <1>1, <1>2, <2>14, <3>1
      <4> QED  BY <2>12, <3>1, <4>1
    <3>2. CASE v + 1 < next
      <4>1. t * P <= v + 1 /\ v + 1 \in Nat
        BY <1>2, <2>3, <2>5
      <4>2. InBucket(v + 1, s, t)
        BY <2>3, <3>2, <4>1 DEF InBucket, next, P, H, S
      <4>3. bucket_index(v + 1) = i
        BY <2>6, <4>1, <4>2, IndexOf
      <4> QED  BY <4>3
    <3> QED  BY <1>2, <2>3, <2>5, <3>1, <3>2
  <2> QED  BY <2>6, <2>7, <2>9, <2>10, <2>13, <2>14 DEF i, bound, H
<1> QED  BY <1>1, <1>2, <1>3, <1>4

\* Beyond the clamp all values share the last bucket.
LEMMA Clamped ==
  ASSUME NEW v \in Nat
  PROVE  /\ Min({v, kMaxValueUs}) \in 0..kMaxValueUs
         /\ bucket_index(v) = bucket_index(Min({v, kMaxValueUs}))
         /\ Min({v, kMaxValueUs}) <= v
         /\ v <= kMaxValueUs => Min({v, kMaxValueUs}) = v
<1> DEFINE m == Min({v, kMaxValueUs})
<1>1. kMaxValueUs \in Nat
  BY Constants
<1>2. m = IF v <= kMaxValueUs THEN v ELSE kMaxValueUs
  BY <1>1, MinOfTwo
<1>3. m \in 0..kMaxValueUs /\ m <= v
  BY <1>1, <1>2
<1>4. Min({m, kMaxValueUs}) = m
  <2> HIDE DEF m
  <2> QED  BY <1>1, <1>3, MinOfTwo
<1> HIDE DEF m
<1>5. bucket_index(v) = bucket_index(m)
  BY <1>4, Zenon DEF bucket_index, m
<1> QED  BY <1>1, <1>2, <1>3, <1>5 DEF m

\* A larger value is not in an earlier bucket.
LEMMA IndexMonotone ==
  ASSUME NEW v \in 0..kMaxValueUs, NEW w \in 0..kMaxValueUs, v <= w
  PROVE  bucket_index(v) <= bucket_index(w)
<1> DEFINE G == {d \in Nat : v + d <= kMaxValueUs => bucket_index(v) <= bucket_index(v + d)}
<1>0. kMaxValueUs \in Nat /\ v \in Nat /\ w \in Nat
  BY Constants
<1>1. \A x \in 0..kMaxValueUs : bucket_index(x) \in Int
  <2>1. ASSUME NEW x \in 0..kMaxValueUs PROVE bucket_index(x) \in Int
    <3>1. bucket_index(x) \in 0..(kBucketCount - 1)
      BY RoundTrip
    <3> QED  BY <3>1
  <2> QED  BY <2>1
<1>2. 0 \in G
  <2>1. v + 0 = v /\ bucket_index(v) \in Int
    BY <1>0, <1>1
  <2> QED  BY <2>1
<1>3. ASSUME NEW d \in Nat, d \in G PROVE d + 1 \in G
  <2> SUFFICES ASSUME v + (d + 1) <= kMaxValueUs
               PROVE  bucket_index(v) <= bucket_index(v + (d + 1))
    BY <1>3
  <2> DEFINE x == v + d
  <2>1. x \in 0..kMaxValueUs /\ x < kMaxValueUs /\ x + 1 = v + (d + 1) /\ x + 1 \in 0..kMaxValueUs
    BY <1>0, <1>3
  <2>2. bucket_index(v) <= bucket_index(x)
    BY <1>3, <2>1
  <2> HIDE DEF x
  <2>3. bucket_index(x + 1) \in {bucket_index(x), bucket_index(x) + 1}
    BY <2>1, RoundTrip
  <2>4. bucket_index(v) \in Int /\ bucket_index(x) \in Int
    BY <1>1, <2>1
  <2> QED  BY <2>1, <2>2, <2>3, <2>4
<1> HIDE DEF G
<1>4. w - v \in G
  <2>1. w - v \in Nat
    BY <1>0
  <2> QED  BY <1>2, <1>3, <2>1, Induction
<1>5. v + (w - v) = w /\ w <= kMaxValueUs
  BY <1>0
<1> QED  BY <1>4, <1>5 DEF G

\* The last bucket ends at the largest value.
LEMMA LastBucket ==
  /\ kBucketCount \in Nat \ {0}
  /\ bucket_upper_bound(kBucketCount - 1) = kMaxValueUs
  /\ bucket_index(kMaxValueUs) = kBucketCount - 1
<1> DEFINE k == kSubBucketBits
           H == kHalfSubBucketCount
           S == kSubBucketCount
           s == ValueBits - k
           t == S - 1
<1>1. /\ k \in Nat \ {0} /\ ValueBits \in Nat /\ k <= ValueBits
      /\ H \in Nat \ {0} /\ S = 2 * H /\ S = Pow2[k]
      /\ kMaxValueUs \in Nat /\ kMaxValueUs + 1 = Pow2[ValueBits]
  BY Constants
<1>2. kBucketCount = S + s * H /\ s \in Nat
  BY <1>1 DEF kBucketCount
<1>3. s * H \in Nat
  BY <1>1, <1>2
<1>4. CASE s = 0
  <2>1. kMaxValueUs = S - 1 /\ kBucketCount = S
    BY <1>1, <1>2, <1>4
  <2>2. S - 1 \in 0..(S - 1)
    BY <1>1
  <2>3. bucket_upper_bound(S - 1) = S - 1 /\ bucket_index(S - 1) = S - 1
    BY <2>2, LinearPart
  <2> QED  BY <1>1, <2>1, <2>3
<1>5. CASE s # 0
  <2> DEFINE P == Pow2[s]
  <2>1. s \in 1..(ValueBits - k) /\ t \in H..(S - 1) /\ t + 1 = S
    BY <1>1, <1>2, <1>5
  <2>2. P \in Nat \ {0} /\ S * P = kMaxValueUs + 1
    <3>1. k + s = ValueBits
      BY <1>1
    <3> HIDE DEF s, k
    <3>2. P \in Nat \ {0} /\ Pow2[k + s] = Pow2[k] * P
      BY <1>1, <1>2, Powers, PowerOfSum
    <3> QED  BY <1>1, <3>1, <3>2
  <2> HIDE DEF s, t, P, H, S, k
  <2>3. t * P <= kMaxValueUs /\ kMaxValueUs < (t + 1) * P
    <3>1. t \in Nat
      BY <1>1, <2>1
    <3>2. (t + 1) * P = t * P + P /\ t * P \in Nat /\ (t + 1) * P = kMaxValueUs + 1
      BY <2>1, <2>2, <3>1
    <3> QED  BY <1>1, <2>2, <3>2
  <2>4. InBucket(kMaxValueUs, s, t)
    BY <2>1, <2>3 DEF InBucket, P, H, S, k
  <2>5. /\ bucket_index(kMaxValueUs) = BucketAt(s, t)
        /\ bucket_upper_bound(BucketAt(s, t)) = (t + 1) * P - 1
    BY <1>1, <2>4, IndexOf DEF P
  <2>6. BucketAt(s, t) = kBucketCount - 1
    <3>1. BucketAt(s, t) = S + (s - 1) * H + (t - H)
      BY DEF BucketAt, S, H
    <3>2. (s - 1) * H = s * H - H
      BY <1>1, <1>2
    <3>3. t = S - 1
      BY DEF t
    <3> DEFINE a == s * H
    <3>4. a \in Nat /\ (s - 1) * H = a - H /\ kBucketCount = S + a
      BY <1>2, <1>3, <3>2
    <3> HIDE DEF a
    <3> QED  BY <1>1, <3>1, <3>3, <3>4
  <2>7. (t + 1) * P - 1 = kMaxValueUs
    BY <1>1, <2>1, <2>2
  <2>8. kBucketCount \in Nat \ {0}
    BY <1>1, <1>2, <1>3
  <2> QED  BY <2>5, <2>6, <2>7, <2>8
<1> QED  BY <1>4, <1>5

\* Every bucket is that of its bound, the bounds grow.
LEMMA BoundOf ==
  ASSUME NEW i \in 0..(kBucketCount - 1)
  PROVE  /\ bucket_upper_bound(i) \in 0..kMaxValueUs
         /\ bucket_index(bucket_upper_bound(i)) = i
<1> DEFINE G == {j \in Nat : j < kBucketCount => \E v \in 0..kMaxValueUs : bucket_index(v) = j}
<1>0. kBucketCount \in Nat \ {0} /\ kMaxValueUs \in Nat
  BY LastBucket, Constants
<1>1. 0 \in G
  <2>1. 0 \in 0..(kSubBucketCount - 1)
    BY Constants
  <2>2. bucket_index(0) = 0 /\ 0 \in 0..kMaxValueUs
    BY <1>0, <2>1, LinearPart
  <2> QED  BY <2>2
<1>2. ASSUME NEW j \in Nat, j \in G PROVE j + 1 \in G
  <2> SUFFICES ASSUME j + 1 < kBucketCount
               PROVE  \E v \in 0..kMaxValueUs : bucket_index(v) = j + 1
    BY <1>2
  <2>1. PICK v \in 0..kMaxValueUs : bucket_index(v) = j
    BY <1>0, <1>2
  <2> DEFINE b == bucket_upper_bound(j)
  <2>2. /\ b \in 0..kMaxValueUs /\ bucket_index(b) = j
        /\ b < kMaxValueUs => bucket_index(b + 1) = j + 1
    BY <2>1, RoundTrip
  <2> HIDE DEF b
  <2>3. b # kMaxValueUs
    <3> SUFFICES ASSUME b = kMaxValueUs PROVE FALSE
      OBVIOUS
    <3>1. j = kBucketCount - 1
      BY <2>2, LastBucket
    <3> QED  BY <1>0, <3>1
  <2>4. b < kMaxValueUs /\ b + 1 \in 0..kMaxValueUs
    BY <1>0, <2>2, <2>3
  <2> QED  BY <2>2, <2>4
<1> HIDE DEF G
<1>3. i \in G
  BY <1>0, <1>1, <1>2, Induction
<1>4. PICK v \in 0..kMaxValueUs : bucket_index(v) = i
  BY <1>0, <1>3 DEF G
<1> QED  BY <1>4, RoundTrip

\* The buckets of a histogram are right for all widths: every value has its
\* bucket, the upper bound is the last value of its bucket and too large by at
\* most the promised fraction.
THEOREM BucketsRoundTripHolds == Spec => []BucketsRoundTrip
<1>1. BucketsRoundTrip
  <2>1. ASSUME NEW v \in 0..(kMaxValueUs + 2)
        PROVE  LET i == bucket_index(v)
                   bound == bucket_upper_bound(i)
               IN /\ i \in 0..(kBucketCount - 1)
                  /\ bucket_index(bound) = i
                  /\ v <= kMaxValueUs =>
                        v <= bound /\ (bound - v) * kHalfSubBucketCount <= v
                  /\ bound < kMaxValueUs => bucket_index(bound + 1) = i + 1
    <3> DEFINE m == Min({v, kMaxValueUs})
    <3>1. v \in Nat
      BY Constants
    <3>2. /\ m \in 0..kMaxValueUs /\ bucket_index(v) = bucket_index(m)
          /\ v <= kMaxValueUs => m = v
      BY <3>1, Clamped
    <3> HIDE DEF m
    <3> QED  BY <3>2, RoundTrip
  <2> QED  BY <2>1, LastBucket DEF BucketsRoundTrip
<1> QED  BY <1>1, PTL

-----------------------------------------------------------------------------
(* Percentiles read while samples are recorded.                              *)

\* Any value has a bucket.
LEMMA IndexRange ==
  ASSUME NEW v \in Nat
  PROVE  bucket_index(v) \in 0..(kBucketCount - 1) /\ bucket_index(v) \in Nat
<1> DEFINE m == Min({v, kMaxValueUs})
<1>1. m \in 0..kMaxValueUs /\ bucket_index(v) = bucket_index(m)
  BY Clamped
<1> HIDE DEF m
<1>2. bucket_index(v) \in 0..(kBucketCount - 1)
  BY <1>1, RoundTrip
<1> QED  BY <1>2

\* The larger of two numbers.
LEMMA MaxOfTwo ==
  ASSUME NEW a \in Int, NEW b \in Int
  PROVE  Max({a, b}) = IF a >= b THEN a ELSE b
BY DEF Max

\* The rank of a quantile.
LEMMA RankFits ==
  ASSUME NEW q \in Quantiles, NEW total \in Nat
  PROVE  RankOf(q, total) \in Nat \ {0} /\ (total > 0 => RankOf(q, total) <= total)
<1> DEFINE a == (q[1] * total + q[2] - 1) \div q[2]
<1>1. a \in Int /\ (total > 0 => a <= total)
  <2>1. CASE q = <<1, 2>>
    <3>1. q[1] = 1 /\ q[2] = 2
      BY <2>1
    <3> QED  BY <3>1
  <2>2. CASE q = <<99, 100>>
    <3>1. q[1] = 99 /\ q[2] = 100
      BY <2>2
    <3> QED  BY <3>1
  <2> QED  BY <2>1, <2>2 DEF Quantiles
<1>2. RankOf(q, total) = Max({1, a})
  BY DEF RankOf
<1> HIDE DEF a
<1>3. Max({1, a}) = IF 1 >= a THEN 1 ELSE a
  BY <1>1, MaxOfTwo
<1> QED  BY <1>1, <1>2, <1>3

\* The samples whose bucket has been incremented, those of one bucket, those in
\* buckets before i; and those of a set of samples in buckets before i.
InBucketOf(samples, i) ==
    {k \in DOMAIN samples : "bucket" \notin samples[k].todo
                            /\ bucket_index(samples[k].value) = i}
Scanned(samples, i) ==
    {k \in DOMAIN samples : "bucket" \notin samples[k].todo
                            /\ bucket_index(samples[k].value) < i}
Known(samples, before, i) == {k \in before : bucket_index(samples[k].value) < i}

\* The buckets hold the numbers of the samples that were added to them.
Bucketed ==
    /\ hg.buckets \in [0..(kBucketCount - 1) -> Nat]
    /\ \A i \in 0..(kBucketCount - 1) :
          hg.buckets[i] = Cardinality(InBucketOf(hg.samples, i))

ReaderRecord(r) ==
    r = [pc |-> r.pc, rank |-> r.rank, total |-> r.total, before |-> r.before,
         max_seen |-> r.max_seen, cumulative |-> r.cumulative, i |-> r.i,
         result |-> r.result]

\* The reader loaded the count.
Started(r, samples) ==
    /\ ReaderRecord(r) /\ r.pc \in {"max", "scan", "done"}
    /\ r.rank \in Nat \ {0} /\ r.total \in Nat /\ r.total <= Len(samples)
    /\ r.total > 0 => r.rank <= r.total
    /\ r.before \subseteq DOMAIN samples /\ \A k \in r.before : samples[k].todo = {}

\* The reader is scanning: it has counted every sample recorded before in the
\* buckets it has read, and only samples in them, and is still below the rank.
Scanning(r, samples) ==
    /\ r.total > 0 /\ r.i \in 0..(kBucketCount - 1) /\ r.cumulative \in Nat
    /\ r.cumulative < r.rank
    /\ Cardinality(Known(samples, r.before, r.i)) <= r.cumulative
    /\ r.cumulative <= Cardinality(Scanned(samples, r.i))

\* The maximum it loaded covers the samples recorded before.
MaximumLoaded(r, samples) ==
    /\ r.max_seen \in Nat
    /\ \A k \in r.before : samples[k].value <= r.max_seen
    /\ r.max_seen = 0 \/ \E k \in DOMAIN samples : samples[k].value = r.max_seen

ReaderRight(r, samples) ==
    /\ Started(r, samples)
    /\ r.pc \in {"max", "scan"} => Scanning(r, samples)
    /\ r.pc = "scan" => MaximumLoaded(r, samples)
    /\ r.pc = "done" => r.result \in Nat
    /\ r.pc = "done" /\ r.total > 0 => PercentileRight(r, samples)

ReaderInv ==
    /\ HistogramInv /\ Bucketed
    /\ hg.reader = NoReader \/ ReaderRight(hg.reader, hg.samples)

\* Recording adds samples and works off those there are.
Later(old, new) ==
    /\ Len(old) <= Len(new)
    /\ \A k \in DOMAIN old : /\ k \in DOMAIN new /\ new[k].value = old[k].value
                             /\ new[k].todo \subseteq old[k].todo

\* Sets of samples are finite.
LEMMA SampleSets ==
  ASSUME NEW samples \in Seq(Sample)
  PROVE  /\ DOMAIN samples = 1..Len(samples) /\ IsFiniteSet(DOMAIN samples)
         /\ Cardinality(DOMAIN samples) = Len(samples)
         /\ \A T \in SUBSET DOMAIN samples :
               /\ IsFiniteSet(T) /\ Cardinality(T) \in Nat
               /\ Cardinality(T) <= Len(samples)
               /\ \A U \in SUBSET T : Cardinality(U) <= Cardinality(T)
<1>1. DOMAIN samples = 1..Len(samples) /\ Len(samples) \in Nat
  OBVIOUS
<1>2. IsFiniteSet(1..Len(samples)) /\ Cardinality(1..Len(samples)) = Len(samples)
  BY <1>1, FS_Interval
<1>3. ASSUME NEW T \in SUBSET DOMAIN samples
      PROVE  /\ IsFiniteSet(T) /\ Cardinality(T) \in Nat /\ Cardinality(T) <= Len(samples)
             /\ \A U \in SUBSET T : Cardinality(U) <= Cardinality(T)
  <2>1. IsFiniteSet(T) /\ Cardinality(T) <= Len(samples)
    BY <1>1, <1>2, FS_Subset
  <2> QED  BY <2>1, FS_Subset, FS_CardinalityType
<1> QED  BY <1>1, <1>2, <1>3

\* What a reader knows stays true while samples are recorded.
LEMMA ReaderStays ==
  ASSUME NEW old \in Seq(Sample), NEW new \in Seq(Sample), Later(old, new),
         NEW r, ReaderRight(r, old)
  PROVE  ReaderRight(r, new)
<1>1. /\ \A k \in DOMAIN old : k \in DOMAIN new /\ new[k].value = old[k].value
                               /\ new[k].todo \subseteq old[k].todo
      /\ Len(old) \in Nat /\ Len(new) \in Nat /\ Len(old) <= Len(new)
  BY DEF Later
<1>2. Started(r, old)
  BY DEF ReaderRight
<1>3. r.before \subseteq DOMAIN old /\ r.before \subseteq DOMAIN new
  BY <1>1, <1>2 DEF Started
<1>4. Started(r, new)
  BY <1>1, <1>2, <1>3 DEF Started
<1>5. ASSUME Scanning(r, old) PROVE Scanning(r, new)
  <2>1. Known(new, r.before, r.i) = Known(old, r.before, r.i)
    BY <1>1, <1>3 DEF Known
  <2>2. Scanned(old, r.i) \subseteq Scanned(new, r.i)
    BY <1>1 DEF Scanned
  <2>3. Scanned(new, r.i) \subseteq DOMAIN new /\ Scanned(old, r.i) \subseteq DOMAIN old
    BY DEF Scanned
  <2>4. /\ Cardinality(Scanned(old, r.i)) <= Cardinality(Scanned(new, r.i))
        /\ Cardinality(Scanned(old, r.i)) \in Nat /\ Cardinality(Scanned(new, r.i)) \in Nat
    BY <2>2, <2>3, SampleSets
  <2>5. r.cumulative <= Cardinality(Scanned(new, r.i))
    BY <1>5, <2>4 DEF Scanning
  <2> QED  BY <1>5, <2>1, <2>5 DEF Scanning
<1>6. ASSUME MaximumLoaded(r, old) PROVE MaximumLoaded(r, new)
  BY <1>1, <1>3, <1>6 DEF MaximumLoaded
<1>7. ASSUME r.result \in Nat, PercentileRight(r, old) PROVE PercentileRight(r, new)
  <2> DEFINE Low(s) == {k \in DOMAIN s : Min({s[k].value, kMaxValueUs}) <= r.result}
             During(s) == DOMAIN s \ r.before
             Under(s) == {k \in r.before : bucket_index(s[k].value) < bucket_index(r.result)}
  <2>1. /\ Cardinality(Low(old)) + Cardinality(During(old)) >= r.rank
        /\ Cardinality(Under(old)) < r.rank
        /\ r.result = 0 \/ \E k \in DOMAIN old : r.result <= old[k].value
    BY <1>7 DEF PercentileRight
  <2>2. /\ Low(old) \subseteq Low(new) /\ During(old) \subseteq During(new)
        /\ Under(new) = Under(old)
    BY <1>1, <1>3
  <2>3. /\ Low(old) \subseteq DOMAIN old /\ Low(new) \subseteq DOMAIN new
        /\ During(old) \subseteq DOMAIN old /\ During(new) \subseteq DOMAIN new
    OBVIOUS
  <2>4. r.result = 0 \/ \E k \in DOMAIN new : r.result <= new[k].value
    BY <1>1, <2>1
  <2> HIDE DEF Low, During, Under
  <2>5. /\ Cardinality(Low(old)) <= Cardinality(Low(new))
        /\ Cardinality(During(old)) <= Cardinality(During(new))
        /\ Cardinality(Low(old)) \in Nat /\ Cardinality(During(old)) \in Nat
        /\ Cardinality(Low(new)) \in Nat /\ Cardinality(During(new)) \in Nat
    BY <2>2, <2>3, SampleSets
  <2>6. r.rank \in Nat
    BY <1>2 DEF Started
  <2>7. Cardinality(Low(new)) + Cardinality(During(new)) >= r.rank
    BY <2>1, <2>5, <2>6
  <2> QED  BY <2>1, <2>2, <2>4, <2>7 DEF PercentileRight, Low, During, Under
<1> QED  BY <1>4, <1>5, <1>6, <1>7 DEF ReaderRight

\* One more bucket.
LEMMA OneMoreBucket ==
  ASSUME NEW samples \in Seq(Sample), NEW before \in SUBSET DOMAIN samples,
         \A k \in before : samples[k].todo = {}, NEW i \in 0..(kBucketCount - 1)
  PROVE  /\ Cardinality(Scanned(samples, i + 1)) =
               Cardinality(Scanned(samples, i)) + Cardinality(InBucketOf(samples, i))
         /\ Cardinality(Known(samples, before, i + 1)) <=
               Cardinality(Known(samples, before, i)) + Cardinality(InBucketOf(samples, i))
         /\ Cardinality(Scanned(samples, i)) \in Nat
         /\ Cardinality(Scanned(samples, i + 1)) \in Nat
         /\ Cardinality(Known(samples, before, i)) \in Nat
         /\ Cardinality(Known(samples, before, i + 1)) \in Nat
         /\ Cardinality(InBucketOf(samples, i)) \in Nat
<1> DEFINE A == Scanned(samples, i)
           A1 == Scanned(samples, i + 1)
           B == InBucketOf(samples, i)
           K == Known(samples, before, i)
           K1 == Known(samples, before, i + 1)
<1>1. \A k \in DOMAIN samples : bucket_index(samples[k].value) \in Nat
  <2>1. ASSUME NEW k \in DOMAIN samples PROVE bucket_index(samples[k].value) \in Nat
    <3>1. samples[k] \in Sample
      OBVIOUS
    <3>2. samples[k].value \in Nat
      BY <3>1 DEF Sample
    <3> QED  BY <3>2, IndexRange
  <2> QED  BY <2>1
<1>2. \A n \in Nat : (n < i + 1 <=> n < i \/ n = i) /\ ~(n < i /\ n = i)
  OBVIOUS
<1>3. A1 = A \cup B /\ A \cap B = {}
  BY <1>1, <1>2 DEF Scanned, InBucketOf
<1>4. K1 \subseteq K \cup B
  BY <1>1, <1>2 DEF Known, InBucketOf
<1>5. /\ A \subseteq DOMAIN samples /\ B \subseteq DOMAIN samples /\ K \subseteq DOMAIN samples
      /\ A1 \subseteq DOMAIN samples /\ K1 \subseteq DOMAIN samples
  BY DEF Scanned, InBucketOf, Known
<1> HIDE DEF A, A1, B, K, K1
<1>6. /\ IsFiniteSet(A) /\ IsFiniteSet(B) /\ IsFiniteSet(K)
      /\ Cardinality(A) \in Nat /\ Cardinality(B) \in Nat /\ Cardinality(K) \in Nat
      /\ Cardinality(A1) \in Nat /\ Cardinality(K1) \in Nat
  BY <1>5, SampleSets
<1>7. Cardinality(A \cup B) = Cardinality(A) + Cardinality(B) - Cardinality(A \cap B)
  BY <1>6, FS_Union
<1>8. Cardinality({}) = 0
  BY FS_EmptySet
<1>9. /\ IsFiniteSet(K \cup B)
      /\ Cardinality(K \cup B) = Cardinality(K) + Cardinality(B) - Cardinality(K \cap B)
  BY <1>6, FS_Union
<1>10. Cardinality(K \cap B) \in Nat
  <2>1. K \cap B \subseteq DOMAIN samples
    BY <1>5
  <2> QED  BY <2>1, SampleSets
<1>11. Cardinality(K1) <= Cardinality(K \cup B)
  BY <1>4, <1>9, FS_Subset
<1>12. Cardinality(A1) = Cardinality(A) + Cardinality(B)
  <2>1. Cardinality(A \cap B) = 0 /\ Cardinality(A1) = Cardinality(A \cup B)
    BY <1>3, <1>8, Zenon
  <2> QED  BY <1>6, <1>7, <2>1
<1>13. Cardinality(K1) <= Cardinality(K) + Cardinality(B)
  BY <1>6, <1>9, <1>10, <1>11
<1> QED  BY <1>6, <1>12, <1>13, Zenon DEF A, A1, B, K, K1

\* The scan reaches the rank.
LEMMA RankReached ==
  ASSUME NEW samples \in Seq(Sample), NEW r, Started(r, samples), Scanning(r, samples),
         MaximumLoaded(r, samples), NEW cumulative \in Nat,
         cumulative = r.cumulative + Cardinality(InBucketOf(samples, r.i)),
         NEW new, new.rank = r.rank, new.before = r.before,
         \/ /\ cumulative >= r.rank
            /\ new.result = Min({bucket_upper_bound(r.i), r.max_seen})
         \/ /\ r.i = kBucketCount - 1 /\ cumulative < r.rank /\ new.result = r.max_seen
  PROVE  new.result \in Nat /\ PercentileRight(new, samples)
<1> DEFINE i == r.i
           bound == bucket_upper_bound(i)
           Low == {k \in DOMAIN samples : Min({samples[k].value, kMaxValueUs}) <= new.result}
           During == DOMAIN samples \ r.before
           Under == {k \in r.before : bucket_index(samples[k].value) < bucket_index(new.result)}
<1>1. /\ r.rank \in Nat \ {0} /\ r.total \in Nat /\ r.total <= Len(samples)
      /\ r.rank <= r.total /\ r.before \subseteq DOMAIN samples
      /\ \A k \in r.before : samples[k].todo = {}
  BY DEF Started, Scanning
<1>2. /\ i \in 0..(kBucketCount - 1) /\ r.cumulative \in Nat /\ r.cumulative < r.rank
      /\ Cardinality(Known(samples, r.before, i)) <= r.cumulative
      /\ r.cumulative <= Cardinality(Scanned(samples, i))
  BY DEF Scanning
<1>3. /\ r.max_seen \in Nat /\ \A k \in r.before : samples[k].value <= r.max_seen
      /\ r.max_seen = 0 \/ \E k \in DOMAIN samples : samples[k].value = r.max_seen
  BY DEF MaximumLoaded
<1>4. bound \in 0..kMaxValueUs /\ bucket_index(bound) = i /\ kMaxValueUs \in Nat /\ bound \in Nat
  BY <1>2, BoundOf, Constants
<1>5. \/ cumulative >= r.rank /\ new.result = bound /\ bound <= r.max_seen
      \/ cumulative >= r.rank /\ new.result = r.max_seen /\ r.max_seen <= bound
      \/ i = kBucketCount - 1 /\ cumulative < r.rank /\ new.result = r.max_seen
  <2>1. Min({bound, r.max_seen}) = IF bound <= r.max_seen THEN bound ELSE r.max_seen
    BY <1>3, <1>4, MinOfTwo
  <2> QED  BY <1>3, <1>4, <2>1
<1>6. new.result \in Nat /\ new.result <= r.max_seen
  BY <1>3, <1>4, <1>5
<1>7. new.result = 0 \/ \E k \in DOMAIN samples : new.result <= samples[k].value
  BY <1>3, <1>6
<1>8. \A k \in DOMAIN samples : samples[k].value \in Nat
  <2>1. \A k \in DOMAIN samples : samples[k] \in Sample
    OBVIOUS
  <2> QED  BY <2>1 DEF Sample
<1>9. /\ Cardinality(Scanned(samples, i + 1)) =
            Cardinality(Scanned(samples, i)) + Cardinality(InBucketOf(samples, i))
      /\ Cardinality(Known(samples, r.before, i + 1)) <=
            Cardinality(Known(samples, r.before, i)) + Cardinality(InBucketOf(samples, i))
      /\ Cardinality(Scanned(samples, i)) \in Nat
      /\ Cardinality(Scanned(samples, i + 1)) \in Nat
      /\ Cardinality(Known(samples, r.before, i)) \in Nat
      /\ Cardinality(Known(samples, r.before, i + 1)) \in Nat
      /\ Cardinality(InBucketOf(samples, i)) \in Nat
  BY <1>1, <1>2, OneMoreBucket
<1>10. Low \subseteq DOMAIN samples /\ During \subseteq DOMAIN samples
       /\ Under \subseteq DOMAIN samples
  BY <1>1
<1>11. Cardinality(Low) \in Nat /\ Cardinality(During) \in Nat /\ Cardinality(Under) \in Nat
  <2> HIDE DEF Low, During, Under
  <2> QED  BY <1>10, SampleSets
<1>12. ASSUME new.result = r.max_seen
       PROVE  Cardinality(Low) + Cardinality(During) >= r.rank
  <2>1. DOMAIN samples \subseteq Low \cup During
    <3>1. ASSUME NEW k \in r.before PROVE k \in Low
      <4>1. k \in DOMAIN samples /\ samples[k].value \in Nat /\ samples[k].value <= r.max_seen
        BY <1>1, <1>3, <1>8
      <4> DEFINE m == Min({samples[k].value, kMaxValueUs})
      <4>2. m \in 0..kMaxValueUs /\ m <= samples[k].value
        BY <4>1, Clamped
      <4> HIDE DEF m
      <4>3. m <= r.max_seen
        BY <1>3, <1>4, <4>1, <4>2
      <4> QED  BY <1>12, <4>1, <4>3 DEF m
    <3> QED  BY <3>1
  <2> HIDE DEF Low, During
  <2>2. Low \cup During = DOMAIN samples
    BY <1>10, <2>1
  <2>3. IsFiniteSet(Low) /\ IsFiniteSet(During) /\ Cardinality(DOMAIN samples) = Len(samples)
        /\ Cardinality(Low \cap During) \in Nat
    <3>1. Low \cap During \subseteq DOMAIN samples
      BY <1>10
    <3> QED  BY <1>10, <3>1, SampleSets
  <2>4. Cardinality(Low \cup During) =
           Cardinality(Low) + Cardinality(During) - Cardinality(Low \cap During)
    BY <2>3, FS_Union
  <2>5. Cardinality(Low) + Cardinality(During) >= Len(samples)
    BY <1>11, <2>2, <2>3, <2>4
  <2>6. Cardinality(Low) + Cardinality(During) >= r.rank
    <3>1. Len(samples) \in Nat
      OBVIOUS
    <3> QED  BY <1>1, <1>11, <2>5, <3>1
  <2> QED  BY <2>6 DEF Low, During
<1>13. ASSUME cumulative >= r.rank, new.result = bound
       PROVE  Cardinality(Low) + Cardinality(During) >= r.rank
  <2>1. Scanned(samples, i + 1) \subseteq Low
    <3>1. ASSUME NEW k \in Scanned(samples, i + 1) PROVE k \in Low
      <4>1. /\ k \in DOMAIN samples /\ samples[k].value \in Nat
            /\ bucket_index(samples[k].value) < i + 1
        BY <1>8 DEF Scanned
      <4> DEFINE m == Min({samples[k].value, kMaxValueUs})
      <4>2. m \in 0..kMaxValueUs /\ bucket_index(samples[k].value) = bucket_index(m)
        BY <4>1, Clamped
      <4> HIDE DEF m
      <4>3. bucket_index(m) \in Nat /\ bucket_index(m) <= i
        <5> DEFINE j == bucket_index(samples[k].value)
        <5>1. j \in Nat /\ j < i + 1 /\ bucket_index(m) = j
          BY <4>1, <4>2, IndexRange
        <5> HIDE DEF j
        <5>2. j <= i
          BY <1>2, <5>1
        <5> QED  BY <5>1, <5>2
      <4>4. m <= bound
        <5> SUFFICES ASSUME bound + 1 <= m PROVE FALSE
          BY <1>4, <4>2
        <5>1. bound < kMaxValueUs /\ bound + 1 \in 0..kMaxValueUs
          BY <1>4, <4>2
        <5>2. bucket_index(bound + 1) = i + 1
          BY <1>4, <5>1, RoundTrip
        <5>3. bucket_index(bound + 1) <= bucket_index(m)
          BY <4>2, <5>1, IndexMonotone
        <5> QED  BY <1>2, <4>3, <5>2, <5>3
      <4> QED  BY <1>13, <4>1, <4>4 DEF m
    <3> QED  BY <3>1
  <2> HIDE DEF Low, During
  <2>2. Cardinality(Scanned(samples, i + 1)) <= Cardinality(Low)
    BY <1>10, <2>1, SampleSets
  <2> DEFINE low == Cardinality(Low)
             during == Cardinality(During)
             next == Cardinality(Scanned(samples, i + 1))
             scanned == Cardinality(Scanned(samples, i))
             here == Cardinality(InBucketOf(samples, i))
             rank == r.rank
             sofar == r.cumulative
  <2>3. /\ low \in Nat /\ during \in Nat /\ next \in Nat /\ scanned \in Nat /\ here \in Nat
        /\ rank \in Nat /\ sofar \in Nat /\ sofar <= scanned /\ next = scanned + here
        /\ cumulative = sofar + here /\ cumulative >= rank /\ next <= low
    BY <1>1, <1>2, <1>9, <1>11, <1>13, <2>2
  <2> HIDE DEF low, during, next, scanned, here, rank, sofar
  <2>4. low + during >= rank
    BY <2>3
  <2> QED  BY <2>4 DEF low, during, rank
<1>14. Cardinality(Low) + Cardinality(During) >= r.rank
  BY <1>5, <1>12, <1>13
<1>15. Cardinality(Under) < r.rank
  <2>1. CASE new.result <= bound
    <3>1. new.result \in 0..kMaxValueUs
      BY <1>4, <1>6, <2>1
    <3>2. bucket_index(new.result) <= i
      BY <1>4, <2>1, <3>1, IndexMonotone
    <3>3. Under \subseteq Known(samples, r.before, i)
      <4>1. bucket_index(new.result) \in Nat
        BY <1>6, IndexRange
      <4>2. \A k \in r.before : bucket_index(samples[k].value) \in Nat
        BY <1>1, <1>8, IndexRange
      <4> QED  BY <1>2, <3>2, <4>1, <4>2 DEF Known
    <3>4. Known(samples, r.before, i) \subseteq DOMAIN samples
      BY <1>1 DEF Known
    <3> HIDE DEF Under
    <3>5. Cardinality(Under) <= Cardinality(Known(samples, r.before, i))
      BY <3>3, <3>4, SampleSets
    <3> DEFINE under == Cardinality(Under)
               known == Cardinality(Known(samples, r.before, i))
               rank == r.rank
               sofar == r.cumulative
    <3>6. /\ under \in Nat /\ known \in Nat /\ rank \in Nat /\ sofar \in Nat
          /\ sofar < rank /\ known <= sofar /\ under <= known
      BY <1>1, <1>2, <1>9, <1>11, <3>5
    <3> HIDE DEF under, known, rank, sofar
    <3>7. under < rank
      BY <3>6
    <3> QED  BY <3>7 DEF under, rank
  <2>2. CASE i = kBucketCount - 1 /\ cumulative < r.rank
    <3>1. Under \subseteq Known(samples, r.before, i + 1)
      <4>1. \A k \in r.before : bucket_index(samples[k].value) \in 0..(kBucketCount - 1)
        BY <1>1, <1>8, IndexRange
      <4>2. kBucketCount \in Nat
        BY LastBucket
      <4>3. \A k \in r.before : bucket_index(samples[k].value) < i + 1
        BY <2>2, <4>1, <4>2
      <4> QED  BY <4>3 DEF Known
    <3>2. Known(samples, r.before, i + 1) \subseteq DOMAIN samples
      BY <1>1 DEF Known
    <3> HIDE DEF Under
    <3>3. Cardinality(Under) <= Cardinality(Known(samples, r.before, i + 1))
      BY <3>1, <3>2, SampleSets
    <3> DEFINE under == Cardinality(Under)
               known == Cardinality(Known(samples, r.before, i))
               more == Cardinality(Known(samples, r.before, i + 1))
               here == Cardinality(InBucketOf(samples, i))
               rank == r.rank
               sofar == r.cumulative
    <3>4. /\ under \in Nat /\ known \in Nat /\ more \in Nat /\ here \in Nat
          /\ rank \in Nat /\ sofar \in Nat /\ known <= sofar /\ more <= known + here
          /\ cumulative = sofar + here /\ cumulative < rank /\ under <= more
      BY <1>1, <1>2, <1>9, <1>11, <2>2, <3>3
    <3> HIDE DEF under, known, more, here, rank, sofar
    <3>5. under < rank
      BY <3>4
    <3> QED  BY <3>5 DEF under, rank
  <2>3. new.result <= bound \/ (i = kBucketCount - 1 /\ cumulative < r.rank)
    BY <1>4, <1>5
  <2> QED  BY <2>1, <2>2, <2>3
<1> QED  BY <1>6, <1>7, <1>14, <1>15 DEF PercentileRight

\* What one atomic operation for sample k does: step is the part of the work that
\* it completes, or "none".
Effect(k, step, x) ==
    /\ x \in Sample /\ OneSample(k, x) /\ x.value = hg.samples[k].value
    /\ x.todo = hg.samples[k].todo \ {step}
    /\ step # "none" => step \in hg.samples[k].todo
    /\ hg'.reader = hg.reader /\ hg'.summary = hg.summary
    /\ hg'.buckets = IF step = "bucket"
                     THEN [hg.buckets EXCEPT ![bucket_index(hg.samples[k].value)] = @ + 1]
                     ELSE hg.buckets
    /\ hg'.sum = IF step = "sum" THEN hg.sum + hg.samples[k].value ELSE hg.sum
    /\ hg'.min = IF step = "min" /\ hg.samples[k].value < hg.min
                 THEN hg.samples[k].value ELSE hg.min

\* The operations that complete a part on their own.
LEMMA PartEffect ==
  ASSUME HistogramInv, NEW k \in DOMAIN hg.samples,
         AddBucket(k) \/ AddCount(k) \/ AddSum(k)
  PROVE  \E step, x : Effect(k, step, x)
<1>0. HistogramRecord(hg)
  BY DEF HistogramInv, HistogramType
<1>1. ASSUME NEW step \in hg.samples[k].todo, step \notin {"none", "min"},
             hg'.samples = Done(k, step),
             hg'.reader = hg.reader, hg'.summary = hg.summary,
             hg'.buckets = IF step = "bucket"
                     THEN [hg.buckets EXCEPT ![bucket_index(hg.samples[k].value)] = @ + 1]
                     ELSE hg.buckets,
             hg'.sum = IF step = "sum" THEN hg.sum + hg.samples[k].value ELSE hg.sum,
             hg'.min = hg.min
      PROVE  \E st, x : Effect(k, st, x)
  <2>1. PICK x \in Sample : Left(k, step, x)
    BY DoneIsOneSample
  <2>2. /\ hg'.samples = [hg.samples EXCEPT ![k] = x] /\ x.value = hg.samples[k].value
        /\ x.todo = hg.samples[k].todo \ {step}
    BY <1>1, <2>1 DEF Left
  <2>3. Effect(k, step, x)
    BY <1>1, <2>2, Zenon DEF Effect, OneSample
  <2> QED  BY <2>3
<1>2. CASE AddBucket(k)
  <2> DEFINE i == bucket_index(hg.samples[k].value)
             b == [hg.buckets EXCEPT ![i] = @ + 1]
  <2>1. "bucket" \in hg.samples[k].todo
        /\ hg' = [hg EXCEPT !.buckets = b, !.samples = Done(k, "bucket")]
    BY <1>2 DEF AddBucket
  <2> HIDE DEF b, i
  <2>2. /\ hg'.samples = Done(k, "bucket") /\ hg'.reader = hg.reader
        /\ hg'.summary = hg.summary /\ hg'.buckets = b /\ hg'.sum = hg.sum /\ hg'.min = hg.min
    BY <1>0, <2>1 DEF HistogramRecord
  <2> QED  BY <1>1, <2>1, <2>2 DEF b, i
<1>3. CASE AddCount(k)
  <2>1. "count" \in hg.samples[k].todo
        /\ hg' = [hg EXCEPT !.count = @ + 1, !.samples = Done(k, "count")]
    BY <1>3 DEF AddCount
  <2>2. /\ hg'.samples = Done(k, "count") /\ hg'.reader = hg.reader
        /\ hg'.summary = hg.summary /\ hg'.buckets = hg.buckets /\ hg'.sum = hg.sum
        /\ hg'.min = hg.min
    BY <1>0, <2>1 DEF HistogramRecord
  <2> QED  BY <1>1, <2>1, <2>2
<1>4. CASE AddSum(k)
  <2> DEFINE v == hg.sum + hg.samples[k].value
  <2>1. "sum" \in hg.samples[k].todo
        /\ hg' = [hg EXCEPT !.sum = v, !.samples = Done(k, "sum")]
    BY <1>4 DEF AddSum
  <2> HIDE DEF v
  <2>2. /\ hg'.samples = Done(k, "sum") /\ hg'.reader = hg.reader
        /\ hg'.summary = hg.summary /\ hg'.buckets = hg.buckets /\ hg'.sum = v
        /\ hg'.min = hg.min
    BY <1>0, <2>1 DEF HistogramRecord
  <2> QED  BY <1>1, <2>1, <2>2 DEF v
<1> QED  BY <1>2, <1>3, <1>4

\* A compare-exchange loop sees a value, and completes its part.
LEMMA LoopEffect ==
  ASSUME HistogramInv, NEW k \in DOMAIN hg.samples, hg'.reader = hg.reader,
         hg'.summary = hg.summary, hg'.buckets = hg.buckets, hg'.sum = hg.sum
  PROVE  /\ \A m \in Nat :
               hg'.samples = [hg.samples EXCEPT ![k].seen = m] /\ hg'.min = hg.min
                  => \E step, x : Effect(k, step, x)
         /\ \A step \in {"min", "max"} \cap hg.samples[k].todo :
               /\ hg'.samples = [Done(k, step) EXCEPT ![k].seen = -1]
               /\ hg'.min = IF step = "min" /\ hg.samples[k].value < hg.min
                            THEN hg.samples[k].value ELSE hg.min
               => \E st, x : Effect(k, st, x)
<1>0. hg.samples \in Seq(Sample) /\ hg.samples[k] \in Sample
  BY DEF HistogramInv, HistogramType
<1>1. ASSUME NEW m \in Nat, hg'.samples = [hg.samples EXCEPT ![k].seen = m], hg'.min = hg.min
      PROVE  \E step, x : Effect(k, step, x)
  <2> DEFINE x == [hg.samples[k] EXCEPT !.seen = m]
  <2>1. x \in Sample /\ x.value = hg.samples[k].value /\ x.todo = hg.samples[k].todo
    <3>1. ASSUME NEW s \in Sample
          PROVE  LET y == [s EXCEPT !.seen = m]
                 IN y \in Sample /\ y.value = s.value /\ y.todo = s.todo
      BY DEF Sample
    <3> QED  BY <1>0, <3>1
  <2>2. hg'.samples = [hg.samples EXCEPT ![k] = x]
    BY <1>1
  <2> HIDE DEF x
  <2>3. x.todo = hg.samples[k].todo \ {"none"}
    <3>1. hg.samples[k].todo \subseteq Todo
      BY <1>0 DEF Sample
    <3>2. "none" \notin Todo
      BY DEF Todo
    <3> QED  BY <2>1, <3>1, <3>2
  <2>4. Effect(k, "none", x)
    BY <1>1, <2>1, <2>2, <2>3 DEF Effect, OneSample
  <2> QED  BY <2>4
<1>2. ASSUME NEW step \in {"min", "max"} \cap hg.samples[k].todo,
             hg'.samples = [Done(k, step) EXCEPT ![k].seen = -1],
             hg'.min = IF step = "min" /\ hg.samples[k].value < hg.min
                       THEN hg.samples[k].value ELSE hg.min
      PROVE  \E st, x : Effect(k, st, x)
  <2>1. PICK x \in Sample : Left(k, step, x)
    BY <1>2, DoneIsOneSample
  <2> DEFINE y == [x EXCEPT !.seen = -1]
  <2>2. /\ y \in Sample /\ y.value = hg.samples[k].value
        /\ y.todo = hg.samples[k].todo \ {step} /\ hg'.samples = [hg.samples EXCEPT ![k] = y]
    BY <1>2, <2>1 DEF Left
  <2> HIDE DEF y
  <2>3. Effect(k, step, y)
    BY <1>2, <2>2 DEF Effect, OneSample
  <2> QED  BY <2>3
<1> QED  BY <1>1, <1>2

\* The operations on the maximum.
LEMMA MaxEffect ==
  ASSUME HistogramInv, NEW k \in DOMAIN hg.samples, LoadMax(k) \/ ExchangeMax(k)
  PROVE  \E step, x : Effect(k, step, x)
<1> DEFINE samples == [Done(k, "max") EXCEPT ![k].seen = -1]
           seen == [hg.samples EXCEPT ![k].seen = hg.max]
<1>0. HistogramRecord(hg) /\ hg.max \in Nat
  BY DEF HistogramInv, HistogramType
<1>1. /\ "max" \in hg.samples[k].todo
      /\ \/ hg' = [hg EXCEPT !.samples = samples]
         \/ hg' = [hg EXCEPT !.max = hg.samples[k].value, !.samples = samples]
         \/ hg' = [hg EXCEPT !.samples = seen]
  <2>1. CASE LoadMax(k)
    BY <2>1 DEF LoadMax
  <2>2. CASE ExchangeMax(k)
    BY <2>2 DEF ExchangeMax
  <2> QED  BY <2>1, <2>2
<1> HIDE DEF samples, seen
<1>2. /\ hg'.samples = samples \/ hg'.samples = seen
      /\ hg'.reader = hg.reader /\ hg'.summary = hg.summary /\ hg'.buckets = hg.buckets
      /\ hg'.sum = hg.sum /\ hg'.min = hg.min
  BY <1>0, <1>1 DEF HistogramRecord
<1>3. CASE hg'.samples = samples
  BY <1>1, <1>2, <1>3, LoopEffect DEF samples
<1>4. CASE hg'.samples = seen
  BY <1>0, <1>2, <1>4, LoopEffect DEF seen
<1> QED  BY <1>2, <1>3, <1>4

\* The operations on the minimum: the loop ends with the smaller of the two.
LEMMA MinEffect ==
  ASSUME HistogramInv, NEW k \in DOMAIN hg.samples, LoadMin(k) \/ ExchangeMin(k)
  PROVE  \E step, x : Effect(k, step, x)
<1> DEFINE samples == [Done(k, "min") EXCEPT ![k].seen = -1]
           seen == [hg.samples EXCEPT ![k].seen = hg.min]
           v == hg.samples[k].value
           loaded == hg.samples[k].seen
<1>0. HistogramRecord(hg) /\ hg.min \in Nat /\ v \in Nat /\ loaded \in Int
  <2>1. HistogramRecord(hg) /\ hg.min \in Nat /\ hg.samples \in Seq(Sample)
    BY DEF HistogramInv, HistogramType
  <2>2. hg.samples[k] \in Sample
    BY <2>1
  <2> QED  BY <2>1, <2>2 DEF Sample
<1>1. /\ hg.samples[k].todo = {"min"}
      /\ \/ hg' = [hg EXCEPT !.samples = samples] /\ loaded # -1 /\ v >= loaded
         \/ /\ hg' = [hg EXCEPT !.min = v, !.samples = samples]
            /\ ~(v >= loaded) /\ hg.min = loaded
         \/ hg' = [hg EXCEPT !.samples = seen]
  <2>1. CASE LoadMin(k)
    BY <2>1 DEF LoadMin
  <2>2. CASE ExchangeMin(k)
    BY <2>2 DEF ExchangeMin
  <2> QED  BY <2>1, <2>2
<1>2. loaded = -1 \/ hg.min <= loaded
  BY <1>1 DEF HistogramInv, LoopsRight, SeenRight
<1> HIDE DEF samples, seen, v, loaded
<1>3. /\ hg'.reader = hg.reader /\ hg'.summary = hg.summary /\ hg'.buckets = hg.buckets
      /\ hg'.sum = hg.sum
      /\ \/ hg'.samples = samples /\ hg'.min = hg.min /\ loaded # -1 /\ v >= loaded
         \/ hg'.samples = samples /\ hg'.min = v /\ ~(v >= loaded) /\ hg.min = loaded
         \/ hg'.samples = seen /\ hg'.min = hg.min
  BY <1>0, <1>1 DEF HistogramRecord
<1>4. CASE hg'.samples = samples /\ hg'.min = IF v < hg.min THEN v ELSE hg.min
  BY <1>1, <1>3, <1>4, LoopEffect DEF samples, v
<1>5. CASE hg'.samples = seen /\ hg'.min = hg.min
  BY <1>0, <1>3, <1>5, LoopEffect DEF seen
<1> QED  BY <1>0, <1>2, <1>3, <1>4, <1>5

\* A sample that begins.
LEMMA BeginEffect ==
  ASSUME HistogramInv, record_us
  PROVE  \E x \in Sample :
            /\ x.todo = Todo /\ x.value \in SampleValues
            /\ hg'.samples = Append(hg.samples, x)
            /\ hg'.reader = hg.reader /\ hg'.summary = <<>> /\ hg'.buckets = hg.buckets
            /\ hg'.sum = hg.sum /\ hg'.min = hg.min
<1>1. PICK v \in SampleValues :
        hg' = [hg EXCEPT !.samples = Append(@, [value |-> v, todo |-> Todo, seen |-> -1]),
                         !.summary = <<>>]
  BY DEF record_us
<1> DEFINE x == [value |-> v, todo |-> Todo, seen |-> -1]
<1>2. v \in Nat
  BY LatencyHistogramAssumption
<1>3. x \in Sample /\ x.todo = Todo /\ x.value = v
  BY <1>2 DEF Sample
<1>4. HistogramRecord(hg)
  BY DEF HistogramInv, HistogramType
<1> HIDE DEF x
<1>5. hg' = [hg EXCEPT !.samples = Append(hg.samples, x), !.summary = <<>>]
  BY <1>1 DEF x
<1>6. /\ hg'.samples = Append(hg.samples, x) /\ hg'.reader = hg.reader
      /\ hg'.summary = <<>> /\ hg'.buckets = hg.buckets /\ hg'.sum = hg.sum
      /\ hg'.min = hg.min
  BY <1>4, <1>5 DEF HistogramRecord
<1> QED  BY <1>3, <1>6

\* The buckets after one operation for sample k.
LEMMA BucketedStep ==
  ASSUME HistogramInv, Bucketed, NEW k \in DOMAIN hg.samples, NEW step, NEW x,
         Effect(k, step, x)
  PROVE  Bucketed'
<1> DEFINE v == hg.samples[k].value
           n == bucket_index(v)
           I == 0..(kBucketCount - 1)
<1>0. x \in Sample /\ OneSample(k, x) /\ x.value = v /\ x.todo = hg.samples[k].todo \ {step}
  BY DEF Effect
<1>1. /\ hg'.samples \in Seq(Sample) /\ DOMAIN hg'.samples = DOMAIN hg.samples
      /\ \A j \in DOMAIN hg.samples :
            /\ hg'.samples[j] = IF j = k THEN x ELSE hg.samples[j]
            /\ hg'.samples[j].value = hg.samples[j].value
            /\ hg.samples[j] \in Sample
  BY <1>0, OneSampleFacts
<1>2. hg.buckets \in [I -> Nat] /\ \A i \in I : hg.buckets[i] = Cardinality(InBucketOf(hg.samples, i))
  BY DEF Bucketed
<1>3. v \in Nat
  BY <1>1 DEF Sample
<1>4. n \in I
  BY <1>3, IndexRange
<1> HIDE DEF n, I, v
<1>5. CASE step # "bucket"
  <2>1. \A i : InBucketOf(hg'.samples, i) = InBucketOf(hg.samples, i)
    <3>1. "bucket" \in x.todo <=> "bucket" \in hg.samples[k].todo
      BY <1>0, <1>5
    <3> QED  BY <1>1, <3>1 DEF InBucketOf
  <2>2. hg'.buckets = hg.buckets
    BY <1>5 DEF Effect
  <2> QED  BY <1>2, <2>1, <2>2 DEF Bucketed, I
<1>6. CASE step = "bucket"
  <2>1. "bucket" \in hg.samples[k].todo /\ "bucket" \notin x.todo
    BY <1>0, <1>6 DEF Effect
  <2>2. hg'.buckets = [hg.buckets EXCEPT ![n] = @ + 1]
    BY <1>6 DEF Effect, n, v
  <2>3. hg'.buckets \in [I -> Nat]
    BY <1>2, <1>4, <2>2
  <2>4. ASSUME NEW i \in I, i # n
        PROVE  hg'.buckets[i] = Cardinality(InBucketOf(hg'.samples, i))
    <3>1. InBucketOf(hg'.samples, i) = InBucketOf(hg.samples, i)
      BY <1>1, <2>1, <2>4 DEF InBucketOf, n, v
    <3> QED  BY <1>2, <2>2, <2>4, <3>1
  <2>5. hg'.buckets[n] = Cardinality(InBucketOf(hg'.samples, n))
    <3> DEFINE A == InBucketOf(hg.samples, n)
    <3>1. InBucketOf(hg'.samples, n) = A \cup {k} /\ k \notin A
      BY <1>0, <1>1, <2>1 DEF InBucketOf, n, v
    <3>2. IsFiniteSet(A)
      <4>1. hg.samples \in Seq(Sample) /\ A \subseteq DOMAIN hg.samples
        BY DEF HistogramInv, HistogramType, InBucketOf
      <4> HIDE DEF A
      <4> QED  BY <4>1, SampleSets
    <3> HIDE DEF A
    <3>3. Cardinality(A \cup {k}) = Cardinality(A) + 1
      BY <3>1, <3>2, FS_AddElement
    <3>4. hg'.buckets[n] = hg.buckets[n] + 1
      BY <1>2, <1>4, <2>2
    <3>5. hg.buckets[n] = Cardinality(A)
      BY <1>2, <1>4 DEF A
    <3> QED  BY <3>1, <3>3, <3>4, <3>5
  <2> QED  BY <2>3, <2>4, <2>5 DEF Bucketed, I
<1> QED  BY <1>5, <1>6

\* Recording, seen from the reader.
LEMMA RecordingStep ==
  ASSUME ReaderInv, HistogramInv', NEW k \in DOMAIN hg.samples, NEW step, NEW x,
         Effect(k, step, x)
  PROVE  ReaderInv'
<1>0. HistogramInv /\ Bucketed
  BY DEF ReaderInv
<1>1. x \in Sample /\ OneSample(k, x) /\ x.value = hg.samples[k].value
      /\ x.todo = hg.samples[k].todo \ {step} /\ hg'.reader = hg.reader
  BY DEF Effect
<1>2. /\ hg'.samples \in Seq(Sample) /\ DOMAIN hg'.samples = DOMAIN hg.samples
      /\ \A j \in DOMAIN hg.samples :
            /\ hg'.samples[j] = IF j = k THEN x ELSE hg.samples[j]
            /\ hg'.samples[j].value = hg.samples[j].value
            /\ hg.samples[j] \in Sample
  BY <1>0, <1>1, OneSampleFacts
<1>3. hg.samples \in Seq(Sample)
  BY <1>0 DEF HistogramInv, HistogramType
<1>4. Later(hg.samples, hg'.samples)
  <2>1. Len(hg'.samples) = Len(hg.samples) /\ Len(hg.samples) \in Nat
    <3>1. DOMAIN hg.samples = 1..Len(hg.samples) /\ Len(hg.samples) \in Nat
          /\ DOMAIN hg'.samples = 1..Len(hg'.samples) /\ Len(hg'.samples) \in Nat
      BY <1>2, <1>3
    <3> QED  BY <1>2, <3>1
  <2> QED  BY <1>1, <1>2, <2>1 DEF Later
<1>5. hg'.reader = NoReader \/ ReaderRight(hg'.reader, hg'.samples)
  <2>1. CASE hg.reader = NoReader
    BY <1>1, <2>1
  <2>2. CASE ReaderRight(hg.reader, hg.samples)
    <3>1. ReaderRight(hg.reader, hg'.samples)
      BY <1>2, <1>3, <1>4, <2>2, ReaderStays
    <3> QED  BY <1>1, <3>1
  <2> QED  BY <2>1, <2>2 DEF ReaderInv
<1>6. Bucketed'
  BY <1>0, BucketedStep
<1> QED  BY <1>5, <1>6 DEF ReaderInv

\* A call to record_us that begins does not disturb a reader.
LEMMA BeginStep ==
  ASSUME ReaderInv, HistogramInv', record_us
  PROVE  ReaderInv'
<1>0. HistogramInv /\ Bucketed
  BY DEF ReaderInv
<1>1. PICK x \in Sample :
            /\ x.todo = Todo /\ x.value \in SampleValues
            /\ hg'.samples = Append(hg.samples, x)
            /\ hg'.reader = hg.reader /\ hg'.summary = <<>> /\ hg'.buckets = hg.buckets
            /\ hg'.sum = hg.sum /\ hg'.min = hg.min
  BY <1>0, BeginEffect
<1> DEFINE n == Len(hg.samples) + 1
<1>2. hg.samples \in Seq(Sample) /\ Len(hg.samples) \in Nat
  BY <1>0 DEF HistogramInv, HistogramType
<1>3. /\ hg'.samples \in Seq(Sample) /\ DOMAIN hg.samples = 1..(n - 1)
      /\ Len(hg'.samples) = n /\ n \in Nat
      /\ DOMAIN hg'.samples = 1..n /\ hg'.samples[n] = x
      /\ \A j \in 1..(n - 1) : hg'.samples[j] = hg.samples[j]
  BY <1>1, <1>2
<1>4. Later(hg.samples, hg'.samples)
  BY <1>2, <1>3 DEF Later
<1>5. hg'.reader = NoReader \/ ReaderRight(hg'.reader, hg'.samples)
  <2>1. CASE hg.reader = NoReader
    BY <1>1, <2>1
  <2>2. CASE ReaderRight(hg.reader, hg.samples)
    <3>1. ReaderRight(hg.reader, hg'.samples)
      BY <1>2, <1>3, <1>4, <2>2, ReaderStays
    <3> QED  BY <1>1, <3>1
  <2> QED  BY <2>1, <2>2 DEF ReaderInv
<1>6. Bucketed'
  <2>1. "bucket" \in x.todo
    BY <1>1 DEF Todo
  <2>2. \A i : InBucketOf(hg'.samples, i) = InBucketOf(hg.samples, i)
    BY <1>3, <2>1 DEF InBucketOf
  <2> QED  BY <1>0, <1>1, <2>2 DEF Bucketed
<1> QED  BY <1>5, <1>6 DEF ReaderInv

\* A new or reset histogram.
LEMMA EmptyReader ==
  /\ hg = Empty => ReaderInv
  /\ hg' = Empty => ReaderInv'
<1>1. /\ Empty.buckets = [i \in 0..(kBucketCount - 1) |-> 0] /\ Empty.samples = <<>>
      /\ Empty.reader = NoReader
  BY DEF Empty
<1>2. \A i : Cardinality(InBucketOf(<<>>, i)) = 0
  <2>1. \A i : InBucketOf(<<>>, i) = {}
    <3>1. DOMAIN <<>> = {}
      OBVIOUS
    <3> QED  BY <3>1 DEF InBucketOf
  <2> QED  BY <2>1, FS_EmptySet
<1> DEFINE zeros == [i \in 0..(kBucketCount - 1) |-> 0]
<1>5. /\ zeros \in [0..(kBucketCount - 1) -> Nat]
      /\ \A i \in 0..(kBucketCount - 1) : zeros[i] = Cardinality(InBucketOf(<<>>, i))
  BY <1>2
<1>6. Empty.buckets = zeros
  BY <1>1
<1> HIDE DEF zeros
<1>3. ASSUME hg = Empty PROVE ReaderInv
  <2>1. Bucketed
    BY <1>1, <1>3, <1>5, <1>6, Zenon DEF Bucketed
  <2> QED  BY <1>1, <1>3, <2>1, EmptyHistogram DEF ReaderInv
<1>4. ASSUME hg' = Empty PROVE ReaderInv'
  <2>1. Bucketed'
    BY <1>1, <1>4, <1>5, <1>6, Zenon DEF Bucketed
  <2> QED  BY <1>1, <1>4, <2>1, EmptyHistogram DEF ReaderInv
<1> QED  BY <1>3, <1>4

\* A reader changes nothing but its own state.
LEMMA ReadEffect ==
  ASSUME HistogramInv,
         \/ ReadTotal \/ ReadMax \/ ReadBucket \/ ReaderReturns \/ UNCHANGED hg
  PROVE  /\ hg'.samples = hg.samples /\ hg'.buckets = hg.buckets /\ hg'.summary = hg.summary
         /\ hg'.sum = hg.sum /\ hg'.min = hg.min /\ hg' = [hg EXCEPT !.reader = hg'.reader]
<1>1. HistogramRecord(hg)
  BY DEF HistogramInv, HistogramType
<1>2. CASE ReadTotal
  BY <1>1, <1>2 DEF ReadTotal, HistogramRecord
<1>3. CASE ReadMax
  BY <1>1, <1>3 DEF ReadMax, HistogramRecord
<1>4. CASE ReadBucket
  BY <1>1, <1>4 DEF ReadBucket, HistogramRecord
<1>5. CASE ReaderReturns
  BY <1>1, <1>5 DEF ReaderReturns, HistogramRecord
<1>6. CASE UNCHANGED hg
  BY <1>1, <1>6 DEF HistogramRecord
<1> QED  BY <1>2, <1>3, <1>4, <1>5, <1>6

\* The load of the count.
LEMMA TotalStep ==
  ASSUME ReaderInv, HistogramInv', ReadTotal
  PROVE  ReaderInv'
<1>0. HistogramInv /\ Bucketed
  BY DEF ReaderInv
<1>1. hg'.samples = hg.samples /\ hg'.buckets = hg.buckets
      /\ HistogramRecord(hg) /\ hg.count \in Nat /\ hg.samples \in Seq(Sample)
      /\ hg.count = Cardinality(Without(hg.samples, "count"))
  BY <1>0, ReadEffect DEF HistogramInv, HistogramType, Counted
<1>2. PICK q \in Quantiles :
        hg' = [hg EXCEPT !.reader =
                   [pc |-> IF hg.count = 0 THEN "done" ELSE "max", rank |-> RankOf(q, hg.count),
                    total |-> hg.count, before |-> DOMAIN hg.samples \ InFlight,
                    max_seen |-> 0, cumulative |-> 0, i |-> 0, result |-> 0]]
  BY DEF ReadTotal
<1> DEFINE pc == IF hg.count = 0 THEN "done" ELSE "max"
           rank == RankOf(q, hg.count)
           before == DOMAIN hg.samples \ InFlight
           r == [pc |-> pc, rank |-> rank, total |-> hg.count, before |-> before,
                 max_seen |-> 0, cumulative |-> 0, i |-> 0, result |-> 0]
           s == hg.samples
<1>3. rank \in Nat \ {0} /\ (hg.count > 0 => rank <= hg.count)
  BY <1>1, RankFits
<1>4. before \subseteq DOMAIN s /\ \A k \in before : s[k].todo = {}
  BY DEF InFlight
<1>5. pc \in {"done", "max"} /\ (pc = "done" <=> hg.count = 0)
  OBVIOUS
<1> HIDE DEF pc, rank, before
<1>6. /\ r.pc = pc /\ r.rank = rank /\ r.total = hg.count /\ r.before = before
      /\ r.max_seen = 0 /\ r.cumulative = 0 /\ r.i = 0 /\ r.result = 0 /\ ReaderRecord(r)
  BY DEF ReaderRecord
<1>7. hg' = [hg EXCEPT !.reader = r]
  BY <1>2 DEF pc, rank, before
<1> HIDE DEF r
<1>8. hg'.reader = r
  BY <1>1, <1>7 DEF HistogramRecord
<1>9. hg.count <= Len(s)
  <2>1. Without(s, "count") \subseteq DOMAIN s
    BY DEF Without
  <2> QED  BY <1>1, <2>1, SampleSets
<1>10. Started(r, s)
  BY <1>1, <1>3, <1>4, <1>5, <1>6, <1>9 DEF Started
<1>11. ASSUME r.pc = "max" PROVE Scanning(r, s)
  <2>1. hg.count > 0
    BY <1>1, <1>5, <1>6, <1>11
  <2>2. 0 \in 0..(kBucketCount - 1)
    BY LastBucket
  <2>3. Known(s, before, 0) = {}
    <3>1. \A k \in before : bucket_index(s[k].value) \in Nat
      <4>1. \A k \in before : s[k] \in Sample
        BY <1>1, <1>4
      <4>2. \A k \in before : s[k].value \in Nat
        BY <4>1 DEF Sample
      <4> QED  BY <4>2, IndexRange
    <3>2. \A n \in Nat : ~(n < 0)
      OBVIOUS
    <3> QED  BY <3>1, <3>2 DEF Known
  <2>4. Cardinality(Known(s, before, 0)) = 0
    BY <2>3, FS_EmptySet
  <2>5. Cardinality(Scanned(s, 0)) \in Nat
    <3>1. Scanned(s, 0) \subseteq DOMAIN s
      BY DEF Scanned
    <3> QED  BY <1>1, <3>1, SampleSets
  <2> QED  BY <1>3, <1>6, <2>1, <2>2, <2>4, <2>5 DEF Scanning
<1>12. ReaderRight(r, s)
  <2>1. r.pc = "done" => ~(r.total > 0)
    BY <1>5, <1>6
  <2>2. r.pc # "scan" /\ r.result \in Nat
    BY <1>5, <1>6
  <2> QED  BY <1>10, <1>11, <2>1, <2>2 DEF ReaderRight
<1>13. Bucketed'
  BY <1>0, <1>1 DEF Bucketed
<1> QED  BY <1>1, <1>8, <1>12, <1>13 DEF ReaderInv

\* The assignments to the reader's fields.
LEMMA ReaderUpdates ==
  ASSUME NEW r, ReaderRecord(r)
  PROVE  /\ \A x, y : [r EXCEPT !.max_seen = x, !.pc = y] =
               [pc |-> y, rank |-> r.rank, total |-> r.total, before |-> r.before, max_seen |-> x,
                cumulative |-> r.cumulative, i |-> r.i, result |-> r.result]
         /\ \A x, y, z : [r EXCEPT !.pc = x, !.cumulative = y, !.result = z] =
               [pc |-> x, rank |-> r.rank, total |-> r.total, before |-> r.before,
                max_seen |-> r.max_seen, cumulative |-> y, i |-> r.i, result |-> z]
         /\ \A x, y : [r EXCEPT !.cumulative = x, !.i = y] =
               [pc |-> r.pc, rank |-> r.rank, total |-> r.total, before |-> r.before,
                max_seen |-> r.max_seen, cumulative |-> x, i |-> y, result |-> r.result]
<1> DEFINE p == r.pc
           k == r.rank
           t == r.total
           b == r.before
           m == r.max_seen
           c == r.cumulative
           i == r.i
           o == r.result
           Rec(pc, max_seen, cumulative, at, result) ==
             [pc |-> pc, rank |-> k, total |-> t, before |-> b, max_seen |-> max_seen,
              cumulative |-> cumulative, i |-> at, result |-> result]
<1>1. r = Rec(p, m, c, i, o)
  BY Zenon DEF ReaderRecord
<1> HIDE DEF p, k, t, b, m, c, i, o
<1>2. /\ \A u, v, w, n, e, new : [Rec(u, v, w, n, e) EXCEPT !.pc = new] = Rec(new, v, w, n, e)
      /\ \A u, v, w, n, e, new : [Rec(u, v, w, n, e) EXCEPT !.max_seen = new] = Rec(u, new, w, n, e)
      /\ \A u, v, w, n, e, new : [Rec(u, v, w, n, e) EXCEPT !.cumulative = new] = Rec(u, v, new, n, e)
      /\ \A u, v, w, n, e, new : [Rec(u, v, w, n, e) EXCEPT !.i = new] = Rec(u, v, w, new, e)
      /\ \A u, v, w, n, e, new : [Rec(u, v, w, n, e) EXCEPT !.result = new] = Rec(u, v, w, n, new)
  OBVIOUS
<1> HIDE DEF Rec
<1>3. ASSUME NEW x, NEW y
      PROVE  [r EXCEPT !.max_seen = x, !.pc = y] = Rec(y, x, c, i, o)
  <2>1. [r EXCEPT !.max_seen = x] = Rec(p, x, c, i, o)
    BY <1>1, <1>2
  <2>2. [Rec(p, x, c, i, o) EXCEPT !.pc = y] = Rec(y, x, c, i, o)
    BY <1>2
  <2> QED  BY <2>1, <2>2, Zenon
<1>4. ASSUME NEW x, NEW y, NEW z
      PROVE  [r EXCEPT !.pc = x, !.cumulative = y, !.result = z] = Rec(x, m, y, i, z)
  <2>1. [r EXCEPT !.pc = x] = Rec(x, m, c, i, o)
    BY <1>1, <1>2
  <2>2. [Rec(x, m, c, i, o) EXCEPT !.cumulative = y] = Rec(x, m, y, i, o)
    BY <1>2
  <2>3. [Rec(x, m, y, i, o) EXCEPT !.result = z] = Rec(x, m, y, i, z)
    BY <1>2
  <2> QED  BY <2>1, <2>2, <2>3, Zenon
<1>5. ASSUME NEW x, NEW y
      PROVE  [r EXCEPT !.cumulative = x, !.i = y] = Rec(p, m, x, y, o)
  <2>1. [r EXCEPT !.cumulative = x] = Rec(p, m, x, i, o)
    BY <1>1, <1>2
  <2>2. [Rec(p, m, x, i, o) EXCEPT !.i = y] = Rec(p, m, x, y, o)
    BY <1>2
  <2> QED  BY <2>1, <2>2, Zenon
<1> QED  BY <1>3, <1>4, <1>5, Zenon DEF Rec, p, k, t, b, m, c, i, o

\* The load of the maximum.
LEMMA MaxStep ==
  ASSUME ReaderInv, HistogramInv', ReadMax
  PROVE  ReaderInv'
<1> DEFINE s == hg.samples
           r == hg.reader
           new == [r EXCEPT !.max_seen = hg.max, !.pc = "scan"]
<1>0. HistogramInv /\ Bucketed
  BY DEF ReaderInv
<1>1. hg'.samples = s /\ hg'.buckets = hg.buckets /\ HistogramRecord(hg) /\ hg.max \in Nat
  BY <1>0, ReadEffect DEF HistogramInv, HistogramType
<1>2. r.pc = "max" /\ hg' = [hg EXCEPT !.reader = new]
  BY <1>1 DEF ReadMax, HistogramRecord
<1>3. ReaderRight(r, s)
  <2>1. NoReader.pc = "idle"
    BY DEF NoReader
  <2> QED  BY <1>2, <2>1 DEF ReaderInv
<1>4. ReaderRecord(r) /\ Started(r, s) /\ Scanning(r, s)
  BY <1>2, <1>3 DEF ReaderRight, Started
<1>5. /\ ReaderRecord(new) /\ new.pc = "scan" /\ new.rank = r.rank /\ new.total = r.total
      /\ new.before = r.before /\ new.max_seen = hg.max /\ new.cumulative = r.cumulative
      /\ new.i = r.i
  <2>1. new = [pc |-> "scan", rank |-> r.rank, total |-> r.total, before |-> r.before,
               max_seen |-> hg.max, cumulative |-> r.cumulative, i |-> r.i, result |-> r.result]
    <3>1. \A x, y : [r EXCEPT !.max_seen = x, !.pc = y] =
             [pc |-> y, rank |-> r.rank, total |-> r.total, before |-> r.before, max_seen |-> x,
              cumulative |-> r.cumulative, i |-> r.i, result |-> r.result]
      BY <1>4, ReaderUpdates, Zenon
    <3> QED  BY <3>1, Zenon
  <2> HIDE DEF new, r
  <2> QED  BY <2>1 DEF ReaderRecord
<1> HIDE DEF new
<1>6. hg'.reader = new
  BY <1>1, <1>2 DEF HistogramRecord
<1>7. Started(new, s)
  BY <1>4, <1>5 DEF Started
<1>8. Scanning(new, s)
  BY <1>4, <1>5 DEF Scanning
<1>9. MaximumLoaded(new, s)
  <2>1. \A k \in r.before : k \in DOMAIN s /\ s[k].todo = {}
    BY <1>4 DEF Started
  <2>2. /\ \A k \in DOMAIN s : "max" \notin s[k].todo => s[k].value <= hg.max
        /\ hg.max = 0 \/ \E k \in DOMAIN s : s[k].value = hg.max
    BY <1>0 DEF HistogramInv, Maximum
  <2> QED  BY <1>1, <1>5, <2>1, <2>2 DEF MaximumLoaded
<1>10. ReaderRight(new, s)
  BY <1>5, <1>7, <1>8, <1>9 DEF ReaderRight
<1>11. Bucketed'
  BY <1>0, <1>1 DEF Bucketed
<1> QED  BY <1>1, <1>6, <1>10, <1>11 DEF ReaderInv

\* A step of the scan.
LEMMA BucketStep ==
  ASSUME ReaderInv, HistogramInv', ReadBucket
  PROVE  ReaderInv'
<1> DEFINE s == hg.samples
           r == hg.reader
           cumulative == r.cumulative + hg.buckets[r.i]
           bound == Min({bucket_upper_bound(r.i), r.max_seen})
           hit == [r EXCEPT !.pc = "done", !.cumulative = cumulative, !.result = bound]
           end == [r EXCEPT !.pc = "done", !.cumulative = cumulative, !.result = r.max_seen]
           more == [r EXCEPT !.cumulative = cumulative, !.i = r.i + 1]
<1>0. HistogramInv /\ Bucketed
  BY DEF ReaderInv
<1>1. hg'.samples = s /\ hg'.buckets = hg.buckets /\ HistogramRecord(hg) /\ s \in Seq(Sample)
  BY <1>0, ReadEffect DEF HistogramInv, HistogramType
<1>2. r.pc = "scan"
  BY DEF ReadBucket
<1>3. ReaderRight(r, s)
  <2>1. NoReader.pc = "idle"
    BY DEF NoReader
  <2> QED  BY <1>2, <2>1 DEF ReaderInv
<1>4. ReaderRecord(r) /\ Started(r, s) /\ Scanning(r, s) /\ MaximumLoaded(r, s)
  BY <1>2, <1>3 DEF ReaderRight, Started
<1>5. \/ cumulative >= r.rank /\ hg' = [hg EXCEPT !.reader = hit]
      \/ ~(cumulative >= r.rank) /\ r.i = kBucketCount - 1 /\ hg' = [hg EXCEPT !.reader = end]
      \/ ~(cumulative >= r.rank) /\ r.i # kBucketCount - 1 /\ hg' = [hg EXCEPT !.reader = more]
  <2>1. CASE cumulative >= r.rank
    <3>1. hg' = [hg EXCEPT !.reader.pc = "done", !.reader.cumulative = cumulative,
                           !.reader.result = bound]
      BY <2>1 DEF ReadBucket, Reached
    <3> HIDE DEF bound, cumulative
    <3> QED  BY <1>1, <2>1, <3>1 DEF HistogramRecord
  <2>2. CASE ~(cumulative >= r.rank) /\ r.i = kBucketCount - 1
    <3>1. hg' = [hg EXCEPT !.reader.pc = "done", !.reader.cumulative = cumulative,
                           !.reader.result = r.max_seen]
      BY <2>2 DEF ReadBucket, Reached
    <3> HIDE DEF cumulative
    <3> QED  BY <1>1, <2>2, <3>1 DEF HistogramRecord
  <2>3. CASE ~(cumulative >= r.rank) /\ r.i # kBucketCount - 1
    <3>1. hg' = [hg EXCEPT !.reader.cumulative = cumulative, !.reader.i = @ + 1]
      BY <2>3 DEF ReadBucket, Reached
    <3> HIDE DEF cumulative
    <3> QED  BY <1>1, <2>3, <3>1 DEF HistogramRecord
  <2> QED  BY <2>1, <2>2, <2>3
<1>6. /\ r.i \in 0..(kBucketCount - 1) /\ r.cumulative \in Nat /\ r.rank \in Nat
      /\ r.before \subseteq DOMAIN s /\ \A k \in r.before : s[k].todo = {}
      /\ Cardinality(Known(s, r.before, r.i)) <= r.cumulative
      /\ r.cumulative <= Cardinality(Scanned(s, r.i)) /\ r.total > 0
  BY <1>4 DEF Started, Scanning
<1>7. hg.buckets[r.i] = Cardinality(InBucketOf(s, r.i)) /\ hg.buckets[r.i] \in Nat
  BY <1>0, <1>6 DEF Bucketed
<1>8. cumulative \in Nat /\ cumulative = r.cumulative + Cardinality(InBucketOf(s, r.i))
  BY <1>6, <1>7
<1> HIDE DEF cumulative, bound
<1>9. Bucketed'
  BY <1>0, <1>1 DEF Bucketed
<1>10. ASSUME NEW new, hg' = [hg EXCEPT !.reader = new], ReaderRight(new, s) PROVE ReaderInv'
  <2>1. hg'.reader = new
    BY <1>1, <1>10 DEF HistogramRecord
  <2> QED  BY <1>1, <1>9, <1>10, <2>1 DEF ReaderInv
<1>11. ASSUME NEW new, ReaderRecord(new), new.pc = "done", new.rank = r.rank,
              new.total = r.total, new.before = r.before,
              \/ cumulative >= r.rank /\ new.result = bound
              \/ r.i = kBucketCount - 1 /\ cumulative < r.rank /\ new.result = r.max_seen
       PROVE  ReaderRight(new, s)
  <2>1. new.result \in Nat /\ PercentileRight(new, s)
    BY <1>1, <1>4, <1>8, <1>11, RankReached DEF bound
  <2>2. Started(new, s)
    BY <1>4, <1>11 DEF Started
  <2> QED  BY <1>11, <2>1, <2>2 DEF ReaderRight
<1>12. CASE cumulative >= r.rank /\ hg' = [hg EXCEPT !.reader = hit]
  <2>1. /\ ReaderRecord(hit) /\ hit.pc = "done" /\ hit.rank = r.rank /\ hit.total = r.total
        /\ hit.before = r.before /\ hit.result = bound
    <3>1. hit = [pc |-> "done", rank |-> r.rank, total |-> r.total, before |-> r.before,
                 max_seen |-> r.max_seen, cumulative |-> cumulative, i |-> r.i, result |-> bound]
      <4>1. \A x, y, z : [r EXCEPT !.pc = x, !.cumulative = y, !.result = z] =
               [pc |-> x, rank |-> r.rank, total |-> r.total, before |-> r.before,
                max_seen |-> r.max_seen, cumulative |-> y, i |-> r.i, result |-> z]
        BY <1>4, ReaderUpdates, Zenon
      <4> QED  BY <4>1, Zenon
    <3> HIDE DEF hit, r
    <3> QED  BY <3>1 DEF ReaderRecord
  <2> HIDE DEF hit
  <2> QED  BY <1>10, <1>11, <1>12, <2>1
<1>13. CASE ~(cumulative >= r.rank) /\ r.i = kBucketCount - 1 /\ hg' = [hg EXCEPT !.reader = end]
  <2>1. /\ ReaderRecord(end) /\ end.pc = "done" /\ end.rank = r.rank /\ end.total = r.total
        /\ end.before = r.before /\ end.result = r.max_seen
    <3>1. end = [pc |-> "done", rank |-> r.rank, total |-> r.total, before |-> r.before,
                 max_seen |-> r.max_seen, cumulative |-> cumulative, i |-> r.i,
                 result |-> r.max_seen]
      <4>1. \A x, y, z : [r EXCEPT !.pc = x, !.cumulative = y, !.result = z] =
               [pc |-> x, rank |-> r.rank, total |-> r.total, before |-> r.before,
                max_seen |-> r.max_seen, cumulative |-> y, i |-> r.i, result |-> z]
        BY <1>4, ReaderUpdates, Zenon
      <4> QED  BY <4>1, Zenon
    <3> HIDE DEF end, r
    <3> QED  BY <3>1 DEF ReaderRecord
  <2>2. cumulative < r.rank
    BY <1>6, <1>8, <1>13
  <2> HIDE DEF end
  <2> QED  BY <1>10, <1>11, <1>13, <2>1, <2>2
<1>14. CASE ~(cumulative >= r.rank) /\ r.i # kBucketCount - 1 /\ hg' = [hg EXCEPT !.reader = more]
  <2>1. /\ ReaderRecord(more) /\ more.pc = "scan" /\ more.rank = r.rank /\ more.total = r.total
        /\ more.before = r.before /\ more.max_seen = r.max_seen
        /\ more.cumulative = cumulative /\ more.i = r.i + 1
    <3> DEFINE next == r.i + 1
    <3>1. more = [pc |-> r.pc, rank |-> r.rank, total |-> r.total, before |-> r.before,
                  max_seen |-> r.max_seen, cumulative |-> cumulative, i |-> next,
                  result |-> r.result]
      <4> HIDE DEF next
      <4>1. [r EXCEPT !.cumulative = cumulative, !.i = next] =
               [pc |-> r.pc, rank |-> r.rank, total |-> r.total, before |-> r.before,
                max_seen |-> r.max_seen, cumulative |-> cumulative, i |-> next,
                result |-> r.result]
        BY <1>4, ReaderUpdates, Zenon
      <4> QED  BY <4>1, Zenon DEF next
    <3> HIDE DEF more, r, next
    <3>2. /\ ReaderRecord(more) /\ more.pc = r.pc /\ more.rank = r.rank /\ more.total = r.total
          /\ more.before = r.before /\ more.max_seen = r.max_seen
          /\ more.cumulative = cumulative /\ more.i = next
      BY <3>1 DEF ReaderRecord
    <3> QED  BY <1>2, <3>2 DEF next
  <2> HIDE DEF more
  <2>2. Started(more, s)
    BY <1>4, <2>1 DEF Started
  <2>3. MaximumLoaded(more, s)
    BY <1>4, <2>1 DEF MaximumLoaded
  <2>4. /\ Cardinality(Scanned(s, r.i + 1)) =
               Cardinality(Scanned(s, r.i)) + Cardinality(InBucketOf(s, r.i))
        /\ Cardinality(Known(s, r.before, r.i + 1)) <=
               Cardinality(Known(s, r.before, r.i)) + Cardinality(InBucketOf(s, r.i))
        /\ Cardinality(Scanned(s, r.i)) \in Nat
        /\ Cardinality(Scanned(s, r.i + 1)) \in Nat
        /\ Cardinality(Known(s, r.before, r.i)) \in Nat
        /\ Cardinality(Known(s, r.before, r.i + 1)) \in Nat
        /\ Cardinality(InBucketOf(s, r.i)) \in Nat
    BY <1>1, <1>6, OneMoreBucket
  <2>5. /\ Cardinality(Known(s, r.before, r.i + 1)) <= cumulative
        /\ cumulative <= Cardinality(Scanned(s, r.i + 1)) /\ cumulative < r.rank
    BY <1>6, <1>8, <1>14, <2>4
  <2>6. r.i + 1 \in 0..(kBucketCount - 1)
    BY <1>6, <1>14, LastBucket
  <2>7. Scanning(more, s)
    BY <1>6, <1>8, <2>1, <2>5, <2>6 DEF Scanning
  <2>8. ReaderRight(more, s)
    BY <2>1, <2>2, <2>3, <2>7 DEF ReaderRight
  <2> QED  BY <1>10, <1>14, <2>8
<1> QED  BY <1>5, <1>12, <1>13, <1>14

\* Every operation on the histogram keeps what the reader knows.
LEMMA ReaderNext == ReaderInv /\ (Next_hg \/ UNCHANGED hg) => ReaderInv'
<1> SUFFICES ASSUME ReaderInv, Next_hg \/ UNCHANGED hg PROVE ReaderInv'
  OBVIOUS
<1>0. HistogramInv /\ Bucketed /\ HistogramInv'
  BY HistogramNext DEF ReaderInv
<1>1. CASE record_us
  BY <1>0, <1>1, BeginStep
<1>2. ASSUME NEW k \in DOMAIN hg.samples,
             \/ AddBucket(k) \/ AddCount(k) \/ AddSum(k)
             \/ LoadMin(k) \/ ExchangeMin(k) \/ LoadMax(k) \/ ExchangeMax(k)
      PROVE  ReaderInv'
  <2>1. PICK step, x : Effect(k, step, x)
    BY <1>0, <1>2, PartEffect, MinEffect, MaxEffect
  <2> QED  BY <1>0, <2>1, RecordingStep
<1>3. CASE reset_hg
  BY <1>3, EmptyReader DEF reset_hg
<1>4. CASE ReadTotal
  BY <1>0, <1>4, TotalStep
<1>5. CASE ReadMax
  BY <1>0, <1>5, MaxStep
<1>6. CASE ReadBucket
  BY <1>0, <1>6, BucketStep
<1>7. ASSUME hg'.samples = hg.samples, hg'.buckets = hg.buckets,
             hg'.reader = hg.reader \/ hg'.reader = NoReader
      PROVE  ReaderInv'
  <2>1. Bucketed'
    BY <1>0, <1>7 DEF Bucketed
  <2> QED  BY <1>0, <1>7, <2>1 DEF ReaderInv
<1>8. HistogramRecord(hg)
  BY <1>0 DEF HistogramInv, HistogramType
<1>9. CASE ReaderReturns
  BY <1>7, <1>8, <1>9 DEF ReaderReturns, HistogramRecord
<1>10. CASE summarize
  <2> DEFINE s == [count |-> hg.count, sum |-> hg.sum, min |-> hg.min, max |-> hg.max,
                   p |-> [q \in Quantiles |-> PercentileAtRest(q)]]
  <2>1. hg' = [hg EXCEPT !.summary = s]
    BY <1>10 DEF summarize
  <2> HIDE DEF s
  <2> QED  BY <1>7, <1>8, <2>1 DEF HistogramRecord
<1>11. CASE UNCHANGED hg
  BY <1>7, <1>11
<1> QED  BY <1>1, <1>2, <1>3, <1>4, <1>5, <1>6, <1>9, <1>10, <1>11 DEF Next_hg

\* The invariant of the readers holds in every reachable state.
LEMMA ReaderInvariance == Spec => []ReaderInv
<1>1. Init => ReaderInv
  BY EmptyReader DEF Init, Init_hg
<1>2. ReaderInv /\ [Next]_vars => ReaderInv'
  <2>1. [Next]_vars => Next_hg \/ UNCHANGED hg
    BY DEF Next, vars
  <2> QED  BY <2>1, ReaderNext
<1> QED  BY <1>1, <1>2, PTL DEF Spec

\* A percentile that is read while samples are recorded is off by at most the
\* samples that overlap the call, for every number of threads and of samples,
\* every width of the buckets and every interleaving.
THEOREM PercentileSoundHolds == Spec => []PercentileSound
<1>1. ReaderInv => PercentileSound
  <2>1. NoReader.pc = "idle"
    BY DEF NoReader
  <2> QED  BY <2>1 DEF ReaderInv, PercentileSound, ReaderRight
<1> QED  BY <1>1, ReaderInvariance, PTL

-----------------------------------------------------------------------------
(* The summary of a finished run.                                            *)

\* A sequence of samples as far as their sum is concerned.
Summable(s) == Len(s) \in Nat /\ \A i \in 1..Len(s) : s[i].value \in Nat

PartialSums(s, P) ==
    /\ P \in [0..Len(s) -> Nat] /\ P[0] = 0 /\ SumOf(s) = P[Len(s)]
    /\ \A i \in 1..Len(s) : P[i] = P[i - 1] + s[i].value

\* The sum of the samples, one by one.
LEMMA SumUnfolds ==
  ASSUME NEW s, Summable(s)
  PROVE  \E P : PartialSums(s, P)
<1> DEFINE N == Len(s)
           step == [p \in Nat \X (1..N) |-> p[1] + s[p[2]].value]
           Unfolds(f) == f = [i \in 0..N |-> IF i = 0 THEN 0 ELSE f[i - 1] + s[i].value]
<1>1. N \in Nat /\ \A i \in 1..N : s[i].value \in Nat
  BY DEF Summable
<1> HIDE DEF N
<1>2. step \in [Nat \X (1..N) -> Nat]
  <2>1. ASSUME NEW p \in Nat \X (1..N) PROVE p[1] + s[p[2]].value \in Nat
    <3>1. p[1] \in Nat /\ p[2] \in 1..N
      OBVIOUS
    <3>2. s[p[2]].value \in Nat
      BY <1>1, <3>1
    <3> QED  BY <3>1, <3>2
  <2> QED  BY <2>1
<1>3. ASSUME NEW v \in Nat, NEW i \in 1..N PROVE step[<<v, i>>] = v + s[i].value
  OBVIOUS
<1> HIDE DEF step
<1>4. PICK f : SolvesUpTo(f, N, Nat, 0, step)
  <2> DEFINE V == Nat
  <2>1. 0 \in V /\ step \in [V \X (1..N) -> V]
    BY <1>2
  <2> HIDE DEF V
  <2>2. \E f : SolvesUpTo(f, N, V, 0, step)
    BY <1>1, <2>1, RecursionUpTo
  <2> QED  BY <2>2 DEF V
<1>5. f \in [0..N -> Nat] /\ f[0] = 0 /\ \A i \in 1..N : f[i] = f[i - 1] + s[i].value
  <2>1. f \in [0..N -> Nat] /\ f[0] = 0 /\ \A i \in 1..N : f[i] = step[<<f[i - 1], i>>]
    BY <1>4 DEF SolvesUpTo
  <2>2. \A i \in 1..N : i - 1 \in 0..N
    BY <1>1
  <2> QED  BY <1>3, <2>1, <2>2
<1>6. Unfolds(f)
  <2>1. ASSUME NEW i \in 0..N PROVE f[i] = IF i = 0 THEN 0 ELSE f[i - 1] + s[i].value
    <3>1. CASE i = 0
      BY <1>5, <3>1
    <3>2. CASE i # 0
      <4>1. i \in 1..N
        BY <1>1, <3>2
      <4> QED  BY <1>5, <3>2, <4>1
    <3> QED  BY <3>1, <3>2
  <2>2. f = [i \in 0..N |-> f[i]]
    BY <1>5
  <2> QED  BY <2>1, <2>2
<1> DEFINE S == CHOOSE h : Unfolds(h)
<1>7. SumOf(s) = S[N]
  BY DEF SumOf, N
<1>8. Unfolds(S)
  <2> HIDE DEF Unfolds
  <2> QED  BY <1>6
<1> HIDE DEF S
<1>9. \A i \in 0..N : i \in {n \in 0..N : S[n] = f[n]}
  <2> DEFINE T == {n \in 0..N : S[n] = f[n]}
  <2>1. 0 \in T
    BY <1>1, <1>5, <1>8
  <2>2. ASSUME NEW n \in 0..(N - 1), n \in T PROVE n + 1 \in T
    <3>1. n + 1 \in 0..N /\ n + 1 \in 1..N /\ (n + 1) - 1 = n /\ n + 1 # 0
      BY <1>1
    <3>2. S[n + 1] = S[n] + s[n + 1].value
      BY <1>8, <3>1
    <3>3. f[n + 1] = f[n] + s[n + 1].value
      BY <1>5, <3>1
    <3> QED  BY <2>2, <3>1, <3>2, <3>3
  <2> HIDE DEF T
  <2>3. \A n \in 0..N : n \in T
    BY <1>1, <2>1, <2>2, InductionUpTo
  <2> QED  BY <2>3 DEF T
<1>10. SumOf(s) = f[N]
  BY <1>1, <1>7, <1>9
<1>11. PartialSums(s, f)
  BY <1>5, <1>10 DEF PartialSums, N
<1> QED  BY <1>11

\* The sum of a prefix.
LEMMA SumOfPrefix ==
  ASSUME NEW s, Summable(s), NEW t, Summable(t), NEW P, PartialSums(t, P),
         Len(s) <= Len(t), \A i \in 1..Len(s) : t[i].value = s[i].value
  PROVE  SumOf(s) = P[Len(s)]
<1>1. PICK Q : PartialSums(s, Q)
  BY SumUnfolds
<1> DEFINE N == Len(s)
           T == {n \in 0..N : P[n] = Q[n]}
<1>2. N \in Nat /\ Len(t) \in Nat
  BY DEF Summable
<1>3. 0 \in T
  BY <1>1, <1>2 DEF PartialSums
<1>4. ASSUME NEW n \in 0..(N - 1), n \in T PROVE n + 1 \in T
  <2>1. n + 1 \in 0..N /\ n + 1 \in 1..N /\ n + 1 \in 1..Len(t) /\ (n + 1) - 1 = n
    BY <1>2
  <2>2. P[n + 1] = P[n] + t[n + 1].value
    BY <2>1 DEF PartialSums
  <2>3. Q[n + 1] = Q[n] + s[n + 1].value
    BY <1>1, <2>1 DEF PartialSums
  <2> QED  BY <1>4, <2>1, <2>2, <2>3
<1> HIDE DEF T
<1>5. \A n \in 0..N : n \in T
  BY <1>2, <1>3, <1>4, InductionUpTo
<1> QED  BY <1>1, <1>2, <1>5 DEF T, PartialSums

\* Samples of the same values have the same sum.
LEMMA SameSum ==
  ASSUME NEW s, Summable(s), NEW t, Summable(t), Len(s) = Len(t),
         \A i \in 1..Len(s) : t[i].value = s[i].value
  PROVE  SumOf(s) = SumOf(t)
<1>1. PICK P : PartialSums(t, P)
  BY SumUnfolds
<1>2. SumOf(s) = P[Len(s)]
  <2>1. Len(s) <= Len(t)
    BY DEF Summable
  <2> QED  BY <1>1, <2>1, SumOfPrefix
<1> QED  BY <1>1, <1>2 DEF PartialSums

\* One sample more.
LEMMA SumOfMore ==
  ASSUME NEW s, Summable(s), NEW t, Summable(t), Len(t) = Len(s) + 1,
         \A i \in 1..Len(s) : t[i].value = s[i].value
  PROVE  SumOf(t) = SumOf(s) + t[Len(t)].value
<1>1. PICK P : PartialSums(t, P)
  BY SumUnfolds
<1>2. Len(s) \in Nat /\ Len(s) <= Len(t) /\ Len(t) \in 1..Len(t) /\ Len(t) - 1 = Len(s)
  BY DEF Summable
<1>3. SumOf(s) = P[Len(s)]
  BY <1>1, <1>2, SumOfPrefix
<1>4. P[Len(t)] = P[Len(t) - 1] + t[Len(t)].value
  BY <1>1, <1>2 DEF PartialSums
<1> QED  BY <1>1, <1>2, <1>3, <1>4 DEF PartialSums

\* One value larger.
LEMMA SumWithMore ==
  ASSUME NEW s, Summable(s), NEW t, Summable(t), Len(t) = Len(s), NEW k \in 1..Len(s),
         NEW d \in Nat, t[k].value = s[k].value + d,
         \A i \in 1..Len(s) : i # k => t[i].value = s[i].value
  PROVE  SumOf(t) = SumOf(s) + d
<1>1. PICK P : PartialSums(t, P)
  BY SumUnfolds
<1>2. PICK Q : PartialSums(s, Q)
  BY SumUnfolds
<1> DEFINE N == Len(s)
           T == {n \in 0..N : P[n] = Q[n] + (IF k <= n THEN d ELSE 0)}
<1>3. N \in Nat
  BY DEF Summable
<1>4. 0 \in T
  BY <1>1, <1>2, <1>3 DEF PartialSums
<1>5. ASSUME NEW n \in 0..(N - 1), n \in T PROVE n + 1 \in T
  <2>1. n + 1 \in 0..N /\ n + 1 \in 1..N /\ (n + 1) - 1 = n /\ n \in 0..N
    BY <1>3
  <2>2. P[n + 1] = P[n] + t[n + 1].value
    BY <1>1, <2>1 DEF PartialSums
  <2>3. Q[n + 1] = Q[n] + s[n + 1].value
    BY <1>2, <2>1 DEF PartialSums
  <2>4. P[n] \in Nat /\ Q[n] \in Nat /\ s[n + 1].value \in Nat /\ t[n + 1].value \in Nat
    BY <1>1, <1>2, <2>1 DEF PartialSums, Summable
  <2>5. P[n] = Q[n] + (IF k <= n THEN d ELSE 0)
    BY <1>5
  <2>6. P[n + 1] = Q[n + 1] + (IF k <= n + 1 THEN d ELSE 0)
    <3>1. CASE n + 1 = k
      BY <2>2, <2>3, <2>4, <2>5, <3>1
    <3>2. CASE n + 1 # k
      <4>1. t[n + 1].value = s[n + 1].value
        BY <2>1, <3>2
      <4>2. k <= n <=> k <= n + 1
        BY <3>2
      <4> QED  BY <2>2, <2>3, <2>4, <2>5, <4>1, <4>2
    <3> QED  BY <3>1, <3>2
  <2> QED  BY <2>1, <2>6
<1> HIDE DEF T
<1>6. \A n \in 0..N : n \in T
  BY <1>3, <1>4, <1>5, InductionUpTo
<1>7. P[N] = Q[N] + d
  BY <1>3, <1>6 DEF T
<1> QED  BY <1>1, <1>2, <1>7 DEF PartialSums

-----------------------------------------------------------------------------
(* The percentiles of a histogram at rest.                                   *)

\* A larger value, no earlier bucket.
LEMMA IndexOrder ==
  ASSUME NEW v \in Nat, NEW w \in Nat, v <= w
  PROVE  bucket_index(v) <= bucket_index(w)
<1> DEFINE a == Min({v, kMaxValueUs})
           b == Min({w, kMaxValueUs})
<1>1. /\ a \in 0..kMaxValueUs /\ bucket_index(v) = bucket_index(a)
      /\ b \in 0..kMaxValueUs /\ bucket_index(w) = bucket_index(b)
  BY Clamped
<1>2. a <= b
  <2>1. kMaxValueUs \in Nat
    BY Constants
  <2>2. /\ a = IF v <= kMaxValueUs THEN v ELSE kMaxValueUs
        /\ b = IF w <= kMaxValueUs THEN w ELSE kMaxValueUs
    BY <2>1, MinOfTwo
  <2> QED  BY <2>1, <2>2
<1> HIDE DEF a, b
<1>3. bucket_index(a) <= bucket_index(b)
  BY <1>1, <1>2, IndexMonotone
<1> QED  BY <1>1, <1>3

AtOrBelow(samples, v) == {k \in DOMAIN samples : samples[k].value <= v}
Under(samples, v) == {k \in DOMAIN samples : samples[k].value < v}

\* v is the sample of the quantile's rank.
RankedBy(samples, q, v) ==
    /\ \E k \in DOMAIN samples : v = samples[k].value
    /\ Cardinality(AtOrBelow(samples, v)) >= RankOf(q, Len(samples))
    /\ Cardinality(Under(samples, v)) < RankOf(q, Len(samples))

\* Some value has the rank that is asked for.
LEMMA RankedExists ==
  ASSUME NEW samples \in Seq(Sample), Len(samples) > 0, NEW q \in Quantiles,
         NEW m \in Nat, \A k \in DOMAIN samples : samples[k].value <= m
  PROVE  \E v : RankedBy(samples, q, v)
<1> DEFINE rank == RankOf(q, Len(samples))
           T == {v \in Nat : Cardinality(AtOrBelow(samples, v)) >= rank}
<1>1. Len(samples) \in Nat /\ rank \in Nat \ {0} /\ rank <= Len(samples)
  BY RankFits
<1>2. \A k \in DOMAIN samples : samples[k].value \in Nat
  <2>1. \A k \in DOMAIN samples : samples[k] \in Sample
    OBVIOUS
  <2> QED  BY <2>1 DEF Sample
<1>3. /\ Cardinality(DOMAIN samples) = Len(samples)
      /\ \A v : /\ AtOrBelow(samples, v) \subseteq DOMAIN samples
                /\ Under(samples, v) \subseteq DOMAIN samples
                /\ Cardinality(AtOrBelow(samples, v)) \in Nat
                /\ Cardinality(Under(samples, v)) \in Nat
  <2>1. \A v : AtOrBelow(samples, v) \subseteq DOMAIN samples /\ Under(samples, v) \subseteq DOMAIN samples
    BY DEF AtOrBelow, Under
  <2> QED  BY <2>1, SampleSets
<1> HIDE DEF rank
<1>4. m \in T
  <2>1. AtOrBelow(samples, m) = DOMAIN samples
    BY DEF AtOrBelow
  <2> QED  BY <1>1, <1>3, <2>1
<1>5. PICK x \in T : \A y \in T : x <= y
  <2>1. T \in SUBSET Nat /\ T # {}
    BY <1>4
  <2> HIDE DEF T
  <2> QED  BY <2>1, LeastElement
<1>6. Cardinality(Under(samples, x)) < rank
  <2>1. CASE x = 0
    <3>1. Under(samples, x) = {}
      BY <1>2, <2>1 DEF Under
    <3>2. Cardinality({}) = 0
      BY FS_EmptySet
    <3> QED  BY <1>1, <3>1, <3>2
  <2>2. CASE x # 0
    <3> DEFINE y == x - 1
    <3>1. y \in Nat /\ ~(x <= y)
      BY <2>2
    <3>2. y \notin T
      BY <1>5, <3>1
    <3>3. Cardinality(AtOrBelow(samples, y)) < rank
      BY <1>1, <1>3, <3>1, <3>2
    <3>4. \A k \in DOMAIN samples : samples[k].value < x <=> samples[k].value <= y
      BY <1>2, <2>2
    <3>5. Under(samples, x) = AtOrBelow(samples, y)
      BY <3>4 DEF Under, AtOrBelow
    <3> QED  BY <3>3, <3>5
  <2> QED  BY <2>1, <2>2
<1>7. Cardinality(AtOrBelow(samples, x)) >= rank
  OBVIOUS
<1>8. \E k \in DOMAIN samples : x = samples[k].value
  <2> SUFFICES ASSUME \A k \in DOMAIN samples : x # samples[k].value PROVE FALSE
    OBVIOUS
  <2>1. \A k \in DOMAIN samples : samples[k].value <= x <=> samples[k].value < x
    BY <1>2
  <2>2. AtOrBelow(samples, x) = Under(samples, x)
    BY <2>1 DEF AtOrBelow, Under
  <2> QED  BY <1>1, <1>3, <1>6, <1>7, <2>2
<1>9. RankedBy(samples, q, x)
  BY <1>6, <1>7, <1>8 DEF RankedBy, rank
<1> QED  BY <1>9

\* The buckets that reach the rank.
ReachedAt(samples, rank) ==
    {i \in 0..(kBucketCount - 1) : Cardinality(Scanned(samples, i + 1)) >= rank}

\* Adding up the buckets counts the samples in them.
LEMMA ScanAtRest ==
  ASSUME HistogramInv, Bucketed, NEW q
  PROVE  LET reached == ReachedAt(hg.samples, RankOf(q, hg.count))
         IN PercentileAtRest(q) = IF reached = {} THEN hg.max
                                  ELSE Min({bucket_upper_bound(Min(reached)), hg.max})
<1> DEFINE B == hg.buckets
           N == kBucketCount - 1
           s == hg.samples
           Unfolds(f) == f = [i \in 0..N |-> B[i] + (IF i = 0 THEN 0 ELSE f[i - 1])]
           C == CHOOSE f : Unfolds(f)
           F == [i \in 0..N |-> Cardinality(Scanned(s, i + 1))]
<1>1. N \in Nat
  BY LastBucket
<1>2. s \in Seq(Sample)
  BY DEF HistogramInv, HistogramType
<1>3. \A i \in 0..N : B[i] = Cardinality(InBucketOf(s, i))
  BY DEF Bucketed
<1>4. ASSUME NEW i \in 0..N
      PROVE  /\ Cardinality(Scanned(s, i + 1)) = Cardinality(Scanned(s, i)) + B[i]
             /\ Cardinality(Scanned(s, i)) \in Nat /\ B[i] \in Nat
  <2> DEFINE before == {}
  <2>1. before \in SUBSET DOMAIN s /\ \A k \in before : s[k].todo = {}
    OBVIOUS
  <2> HIDE DEF before, s
  <2> QED  BY <1>2, <1>3, <2>1, OneMoreBucket
<1>5. Cardinality(Scanned(s, 0)) = 0
  <2>1. \A k \in DOMAIN s : ~(bucket_index(s[k].value) < 0)
    <3>1. \A k \in DOMAIN s : s[k] \in Sample
      BY <1>2
    <3>2. \A k \in DOMAIN s : s[k].value \in Nat
      BY <3>1 DEF Sample
    <3>3. \A k \in DOMAIN s : bucket_index(s[k].value) \in Nat
      BY <3>2, IndexRange
    <3> QED  BY <3>3
  <2>2. Scanned(s, 0) = {}
    BY <2>1 DEF Scanned
  <2> QED  BY <2>2, FS_EmptySet
<1> HIDE DEF N, s, B
<1>6. Unfolds(F)
  <2>1. ASSUME NEW i \in 0..N PROVE F[i] = B[i] + (IF i = 0 THEN 0 ELSE F[i - 1])
    <3>1. CASE i = 0
      BY <1>4, <1>5, <3>1
    <3>2. CASE i # 0
      <4>1. i - 1 \in 0..N /\ (i - 1) + 1 = i
        BY <1>1, <3>2
      <4>2. F[i - 1] = Cardinality(Scanned(s, i))
        BY <4>1
      <4> QED  BY <1>4, <3>2, <4>2
    <3> QED  BY <3>1, <3>2
  <2>2. F = [i \in 0..N |-> F[i]]
    OBVIOUS
  <2> QED  BY <2>1, <2>2
<1>7. Unfolds(C)
  <2> HIDE DEF Unfolds, F
  <2> QED  BY <1>6
<1> HIDE DEF C
<1>8. \A i \in 0..N : C[i] = F[i]
  <2> DEFINE T == {n \in 0..N : C[n] = F[n]}
  <2>1. 0 \in T
    <3>1. 0 \in 0..N
      BY <1>1
    <3>2. C[0] = B[0] + 0
      BY <1>7, <3>1
    <3>3. F[0] = B[0] + 0
      <4> HIDE DEF F
      <4> QED  BY <1>6, <3>1
    <3> HIDE DEF F
    <3> QED  BY <3>1, <3>2, <3>3
  <2>2. ASSUME NEW n \in 0..(N - 1), n \in T PROVE n + 1 \in T
    <3>1. n + 1 \in 0..N /\ (n + 1) - 1 = n /\ n + 1 # 0
      BY <1>1
    <3>2. C[n + 1] = B[n + 1] + C[n]
      BY <1>7, <3>1
    <3>3. F[n + 1] = B[n + 1] + F[n]
      BY <1>6, <3>1
    <3> HIDE DEF F
    <3> QED  BY <2>2, <3>1, <3>2, <3>3
  <2> HIDE DEF T
  <2>3. \A n \in 0..N : n \in T
    BY <1>1, <2>1, <2>2, InductionUpTo
  <2> QED  BY <2>3 DEF T
<1> DEFINE rank == RankOf(q, hg.count)
           reached == {i \in 0..N : Reached(C[i], rank)}
<1>9. PercentileAtRest(q) = IF reached = {} THEN hg.max
                            ELSE Min({bucket_upper_bound(Min(reached)), hg.max})
  BY DEF PercentileAtRest, C, N, B
<1>10. reached = ReachedAt(s, rank)
  <2>1. \A i \in 0..N : C[i] = Cardinality(Scanned(s, i + 1))
    BY <1>8
  <2> QED  BY <2>1 DEF ReachedAt, Reached, N
<1> QED  BY <1>9, <1>10 DEF s

\* The answer for a quantile whose sample is v.
AnswerRight(p, v, max) ==
    LET w == Min({v, kMaxValueUs})
    IN p >= w /\ (p - w) * kHalfSubBucketCount <= w /\ p <= max

\* At rest, the scan answers with the bound of the bucket of that value.
LEMMA PercentileFound ==
  ASSUME HistogramInv, Bucketed, InFlight = {}, NEW q \in Quantiles,
         hg.count = Len(hg.samples), NEW v, RankedBy(hg.samples, q, v)
  PROVE  AnswerRight(PercentileAtRest(q), v, hg.max)
<1> DEFINE s == hg.samples
           rank == RankOf(q, Len(s))
           at == bucket_index(v)
           w == Min({v, kMaxValueUs})
           bound == bucket_upper_bound(at)
           reached == ReachedAt(s, rank)
<1>1. s \in Seq(Sample) /\ hg.max \in Nat /\ Len(s) \in Nat
  BY DEF HistogramInv, HistogramType
<1>2. \A k \in DOMAIN s : s[k].value \in Nat /\ s[k].todo = {} /\ s[k].value <= hg.max
  <2>1. \A k \in DOMAIN s : s[k] \in Sample
    BY <1>1
  <2>2. \A k \in DOMAIN s : s[k].value \in Nat
    BY <2>1 DEF Sample
  <2>3. \A k \in DOMAIN s : s[k].todo = {}
    BY DEF InFlight
  <2> QED  BY <2>2, <2>3 DEF HistogramInv, Maximum
<1>3. /\ v \in Nat /\ v <= hg.max /\ rank \in Nat
      /\ Cardinality(AtOrBelow(s, v)) >= rank /\ Cardinality(Under(s, v)) < rank
  BY <1>1, <1>2, RankFits DEF RankedBy
<1>4. at \in 0..(kBucketCount - 1) /\ at \in Nat
  BY <1>3, IndexRange
<1>5. /\ w \in 0..kMaxValueUs /\ w <= v /\ at = bucket_index(w)
  BY <1>3, Clamped
<1> HIDE DEF w, at
<1>6. bound \in 0..kMaxValueUs /\ w <= bound /\ (bound - w) * kHalfSubBucketCount <= w
  BY <1>5, RoundTrip
<1> HIDE DEF bound, rank, s
<1>7. /\ \A i : Scanned(s, i) \subseteq DOMAIN s
      /\ Under(s, v) \subseteq DOMAIN s /\ AtOrBelow(s, v) \subseteq DOMAIN s
  BY DEF Scanned, Under, AtOrBelow
<1>8. /\ \A i : Cardinality(Scanned(s, i)) \in Nat
      /\ Cardinality(Under(s, v)) \in Nat /\ Cardinality(AtOrBelow(s, v)) \in Nat
  BY <1>1, <1>7, SampleSets
<1>9. at \in reached
  <2>1. AtOrBelow(s, v) \subseteq Scanned(s, at + 1)
    <3>1. ASSUME NEW k \in AtOrBelow(s, v) PROVE k \in Scanned(s, at + 1)
      <4>1. k \in DOMAIN s /\ s[k].value \in Nat /\ s[k].value <= v /\ s[k].todo = {}
        BY <1>2 DEF AtOrBelow
      <4>2. bucket_index(s[k].value) <= at /\ bucket_index(s[k].value) \in Nat
        BY <1>3, <4>1, IndexOrder, IndexRange DEF at
      <4>3. bucket_index(s[k].value) < at + 1
        BY <1>4, <4>2
      <4> QED  BY <4>1, <4>3 DEF Scanned
    <3> QED  BY <3>1
  <2>2. Cardinality(AtOrBelow(s, v)) <= Cardinality(Scanned(s, at + 1))
    BY <1>1, <1>7, <2>1, SampleSets
  <2>3. Cardinality(Scanned(s, at + 1)) >= rank
    BY <1>3, <1>8, <2>2
  <2> QED  BY <1>4, <2>3 DEF ReachedAt
<1>10. ASSUME NEW i \in reached PROVE at <= i
  <2> SUFFICES ASSUME i < at PROVE FALSE
    BY <1>4 DEF ReachedAt
  <2>1. i \in Nat /\ Cardinality(Scanned(s, i + 1)) >= rank
    BY DEF ReachedAt
  <2>2. Scanned(s, i + 1) \subseteq Under(s, v)
    <3>1. ASSUME NEW k \in Scanned(s, i + 1) PROVE k \in Under(s, v)
      <4>1. k \in DOMAIN s /\ s[k].value \in Nat /\ bucket_index(s[k].value) < i + 1
        BY <1>2 DEF Scanned
      <4> SUFFICES ASSUME v <= s[k].value PROVE FALSE
        BY <1>3, <4>1 DEF Under
      <4>2. at <= bucket_index(s[k].value) /\ bucket_index(s[k].value) \in Nat
        BY <1>3, <4>1, IndexOrder, IndexRange DEF at
      <4> QED  BY <1>4, <2>1, <4>1, <4>2
    <3> QED  BY <3>1
  <2>3. Cardinality(Scanned(s, i + 1)) <= Cardinality(Under(s, v))
    BY <1>1, <1>7, <2>2, SampleSets
  <2> QED  BY <1>3, <1>8, <2>1, <2>3
<1>11. Min(reached) = at
  <2>1. \A i \in reached : i \in Nat
    BY DEF ReachedAt
  <2> HIDE DEF reached
  <2>2. Min(reached) \in reached /\ \A i \in reached : Min(reached) <= i
    BY <1>9, <1>10 DEF Min
  <2>3. at <= Min(reached) /\ Min(reached) <= at /\ Min(reached) \in Nat
    BY <1>9, <1>10, <2>1, <2>2
  <2> QED  BY <1>4, <2>3
<1> DEFINE p == PercentileAtRest(q)
<1>12. p = Min({bound, hg.max})
  <2>1. p = IF reached = {} THEN hg.max ELSE Min({bucket_upper_bound(Min(reached)), hg.max})
    BY ScanAtRest DEF rank, s
  <2> HIDE DEF reached, p
  <2> QED  BY <1>9, <1>11, <2>1 DEF bound
<1> HIDE DEF p
<1>13. kMaxValueUs \in Nat /\ kHalfSubBucketCount \in Nat
  BY Constants
<1>14. p = IF bound <= hg.max THEN bound ELSE hg.max
  BY <1>1, <1>6, <1>12, <1>13, MinOfTwo
<1>15. p \in Nat /\ w <= p /\ p <= bound /\ p <= hg.max
  BY <1>1, <1>3, <1>5, <1>6, <1>13, <1>14
<1>16. (p - w) * kHalfSubBucketCount <= w
  <2> DEFINE H == kHalfSubBucketCount
             a == p - w
             b == bound - w
  <2>1. H \in Nat /\ a \in Int /\ b \in Int /\ a <= b /\ w \in Nat /\ b * H <= w
    BY <1>5, <1>6, <1>13, <1>15
  <2> HIDE DEF H, a, b
  <2>2. H * a <= H * b
    BY <2>1, ProductMonotone
  <2>3. a * H <= w
    <3>1. H * a = a * H /\ H * b = b * H /\ H * a \in Int /\ H * b \in Int
      BY <2>1
    <3> QED  BY <2>1, <2>2, <3>1
  <2> QED  BY <2>3 DEF H, a
<1>17. p >= w /\ (p - w) * kHalfSubBucketCount <= w /\ p <= hg.max
  BY <1>5, <1>13, <1>15, <1>16
<1> QED  BY <1>17 DEF AnswerRight, w, p

-----------------------------------------------------------------------------
(* Sum and minimum while samples are recorded.                               *)

\* The samples with the value 0 for those that are not in the sum yet.
Added(samples) ==
    [k \in 1..Len(samples) |->
        [value |-> IF "sum" \in samples[k].todo THEN 0 ELSE samples[k].value]]

\* min_us_ is its start value or a sample's, and above no sample that is done
\* with it.
MinimumOf(min, samples) ==
    /\ min \in Nat
    /\ \A k \in DOMAIN samples : samples[k].value <= MinStart
    /\ \A k \in DOMAIN samples : "min" \notin samples[k].todo => min <= samples[k].value
    /\ min = MinStart \/ \E k \in DOMAIN samples : samples[k].value = min

\* A summary is right as long as nothing is recorded.
Reported(summary, samples, sum, min) ==
    summary # <<>> =>
        /\ summary.sum = sum /\ summary.min = min
        /\ \A q \in Quantiles :
              \A v : RankedBy(samples, q, v) => AnswerRight(summary.p[q], v, summary.max)

SummaryInv ==
    /\ ReaderInv
    /\ hg.sum = SumOf(Added(hg.samples))
    /\ MinimumOf(hg.min, hg.samples)
    /\ Reported(hg.summary, hg.samples, hg.sum, hg.min)

\* What the samples added so far contribute to the sum.
LEMMA AddedFacts ==
  ASSUME NEW samples \in Seq(Sample)
  PROVE  /\ Len(samples) \in Nat /\ Len(Added(samples)) = Len(samples)
         /\ Summable(Added(samples)) /\ Summable(samples)
         /\ DOMAIN samples = 1..Len(samples)
         /\ \A k \in 1..Len(samples) :
               /\ samples[k].value \in Nat
               /\ Added(samples)[k].value =
                     IF "sum" \in samples[k].todo THEN 0 ELSE samples[k].value
<1> DEFINE N == Len(samples)
           A == Added(samples)
<1>1. N \in Nat /\ DOMAIN samples = 1..N
  OBVIOUS
<1>2. \A k \in 1..N : samples[k].value \in Nat
  <2>1. \A k \in 1..N : samples[k] \in Sample
    OBVIOUS
  <2> QED  BY <2>1 DEF Sample
<1>3. \A k \in 1..N : A[k].value = IF "sum" \in samples[k].todo THEN 0 ELSE samples[k].value
  BY DEF Added
<1>4. Len(A) = N
  BY <1>1, LengthOfFunction DEF Added
<1>5. Summable(samples)
  BY <1>1, <1>2 DEF Summable
<1> HIDE DEF A
<1>6. Summable(A)
  BY <1>1, <1>2, <1>3, <1>4 DEF Summable
<1> QED  BY <1>1, <1>2, <1>3, <1>4, <1>5, <1>6 DEF A

\* One atomic operation keeps the sum and the minimum.
LEMMA TotalsStep ==
  ASSUME SummaryInv, NEW k \in DOMAIN hg.samples, NEW step, NEW x, Effect(k, step, x)
  PROVE  hg'.sum = SumOf(Added(hg'.samples)) /\ MinimumOf(hg'.min, hg'.samples)
<1> DEFINE s == hg.samples
           t == hg'.samples
<1>0. /\ HistogramInv /\ hg.sum = SumOf(Added(s)) /\ MinimumOf(hg.min, s)
      /\ s \in Seq(Sample)
  BY DEF SummaryInv, ReaderInv, HistogramInv, HistogramType
<1>1. x \in Sample /\ OneSample(k, x) /\ x.value = s[k].value /\ x.todo = s[k].todo \ {step}
  BY DEF Effect
<1>2. /\ t \in Seq(Sample) /\ DOMAIN t = DOMAIN s
      /\ \A j \in DOMAIN s : /\ t[j] = IF j = k THEN x ELSE s[j]
                             /\ t[j].value = s[j].value
  BY <1>0, <1>1, OneSampleFacts
<1>3. /\ hg'.sum = IF step = "sum" THEN hg.sum + s[k].value ELSE hg.sum
      /\ hg'.min = IF step = "min" /\ s[k].value < hg.min THEN s[k].value ELSE hg.min
      /\ step # "none" => step \in s[k].todo
  BY DEF Effect
<1> HIDE DEF s, t
<1>4. /\ Len(s) \in Nat /\ DOMAIN s = 1..Len(s) /\ Len(t) = Len(s) /\ k \in 1..Len(s)
      /\ Summable(Added(s)) /\ Len(Added(s)) = Len(s)
      /\ Summable(Added(t)) /\ Len(Added(t)) = Len(s)
      /\ \A j \in 1..Len(s) :
            /\ s[j].value \in Nat
            /\ Added(s)[j].value = IF "sum" \in s[j].todo THEN 0 ELSE s[j].value
            /\ Added(t)[j].value = IF "sum" \in t[j].todo THEN 0 ELSE s[j].value
  <2>1. Len(s) \in Nat /\ Len(t) \in Nat /\ DOMAIN s = 1..Len(s) /\ DOMAIN t = 1..Len(t)
    BY <1>0, <1>2
  <2>2. Len(t) = Len(s)
    BY <1>2, <2>1
  <2> QED  BY <1>0, <1>2, <2>1, <2>2, AddedFacts DEF s
<1>5. hg'.sum = SumOf(Added(t))
  <2> DEFINE A == Added(s)
             B == Added(t)
  <2>1. \A j \in 1..Len(s) : j # k => B[j].value = A[j].value
    BY <1>2, <1>4
  <2>2. CASE step = "sum"
    <3>1. "sum" \in s[k].todo /\ "sum" \notin t[k].todo
      BY <1>1, <1>2, <1>3, <1>4, <2>2
    <3>2. A[k].value = 0 /\ B[k].value = s[k].value /\ s[k].value \in Nat
      BY <1>4, <3>1
    <3>3. B[k].value = A[k].value + s[k].value
      BY <3>2
    <3> DEFINE d == s[k].value
    <3>4. d \in Nat /\ B[k].value = A[k].value + d
      BY <3>2, <3>3
    <3> HIDE DEF A, B, d
    <3>5. SumOf(B) = SumOf(A) + d
      BY <1>4, <2>1, <3>4, SumWithMore DEF A, B
    <3> QED  BY <1>0, <1>3, <2>2, <3>5 DEF A, B, d
  <2>3. CASE step # "sum"
    <3>1. "sum" \in s[k].todo <=> "sum" \in t[k].todo
      BY <1>1, <1>2, <1>4, <2>3
    <3>2. \A j \in 1..Len(s) : B[j].value = A[j].value
      BY <1>4, <2>1, <3>1
    <3> HIDE DEF A, B
    <3>3. SumOf(A) = SumOf(B)
      BY <1>4, <3>2, SameSum DEF A, B
    <3> QED  BY <1>0, <1>3, <2>3, <3>3 DEF A, B
  <2> QED  BY <2>2, <2>3
<1>6. MinimumOf(hg'.min, t)
  <2>1. /\ hg.min \in Nat /\ \A j \in DOMAIN s : s[j].value <= MinStart
        /\ \A j \in DOMAIN s : "min" \notin s[j].todo => hg.min <= s[j].value
        /\ hg.min = MinStart \/ \E j \in DOMAIN s : s[j].value = hg.min
    BY <1>0 DEF MinimumOf
  <2>2. CASE step = "min"
    <3> DEFINE v == s[k].value
               m == IF v < hg.min THEN v ELSE hg.min
    <3>1. v \in Nat
      BY <1>4
    <3>2. m \in Nat /\ m <= v /\ m <= hg.min /\ m \in {hg.min, v}
      BY <2>1, <3>1
    <3> HIDE DEF m
    <3>3. \A j \in DOMAIN t : "min" \notin t[j].todo => m <= t[j].value
      <4>1. ASSUME NEW j \in DOMAIN t, "min" \notin t[j].todo PROVE m <= t[j].value
        <5>1. CASE j = k
          BY <1>2, <3>2, <5>1
        <5>2. CASE j # k
          <6>1. "min" \notin s[j].todo /\ t[j].value = s[j].value /\ s[j].value \in Nat
            BY <1>2, <1>4, <4>1, <5>2
          <6> QED  BY <1>2, <2>1, <3>2, <6>1
        <5> QED  BY <5>1, <5>2
      <4> QED  BY <4>1
    <3>4. m = MinStart \/ \E j \in DOMAIN t : t[j].value = m
      <4>1. v = s[k].value /\ k \in DOMAIN t /\ t[k].value = v
        BY <1>2, <1>4
      <4> QED  BY <1>2, <2>1, <3>2, <4>1
    <3>5. hg'.min = m
      BY <1>3, <2>2 DEF m
    <3> QED  BY <1>2, <2>1, <3>2, <3>3, <3>4, <3>5 DEF MinimumOf
  <2>3. CASE step # "min"
    <3>1. \A j \in DOMAIN s : "min" \in t[j].todo <=> "min" \in s[j].todo
      BY <1>1, <1>2, <2>3
    <3>2. hg'.min = hg.min
      BY <1>3, <2>3
    <3> QED  BY <1>2, <2>1, <3>1, <3>2 DEF MinimumOf
  <2> QED  BY <2>2, <2>3
<1> QED  BY <1>5, <1>6 DEF t

\* A sample that begins is in neither.
LEMMA TotalsBegin ==
  ASSUME SummaryInv, record_us
  PROVE  /\ hg'.sum = SumOf(Added(hg'.samples)) /\ MinimumOf(hg'.min, hg'.samples)
         /\ hg'.summary = <<>>
<1> DEFINE s == hg.samples
           t == hg'.samples
           n == Len(s) + 1
<1>0. /\ HistogramInv /\ hg.sum = SumOf(Added(s)) /\ MinimumOf(hg.min, s)
      /\ s \in Seq(Sample)
  BY DEF SummaryInv, ReaderInv, HistogramInv, HistogramType
<1>1. PICK x \in Sample : /\ x.todo = Todo /\ x.value \in SampleValues /\ t = Append(s, x)
                          /\ hg'.summary = <<>> /\ hg'.sum = hg.sum /\ hg'.min = hg.min
  BY <1>0, BeginEffect
<1>2. "sum" \in x.todo /\ "min" \in x.todo /\ x.value <= MinStart
  BY <1>1, SamplesFit DEF Todo
<1> HIDE DEF s, t
<1>3. /\ t \in Seq(Sample) /\ Len(s) \in Nat /\ Len(t) = n /\ n \in Nat
      /\ DOMAIN s = 1..(n - 1) /\ DOMAIN t = 1..n /\ t[n] = x
      /\ \A j \in 1..(n - 1) : t[j] = s[j]
  BY <1>0, <1>1
<1>4. /\ Summable(Added(s)) /\ Len(Added(s)) = Len(s)
      /\ Summable(Added(t)) /\ Len(Added(t)) = n
      /\ \A j \in 1..Len(s) :
            Added(s)[j].value = IF "sum" \in s[j].todo THEN 0 ELSE s[j].value
      /\ \A j \in 1..n : Added(t)[j].value = IF "sum" \in t[j].todo THEN 0 ELSE t[j].value
  BY <1>0, <1>3, AddedFacts
<1>5. SumOf(Added(t)) = SumOf(Added(s))
  <2> DEFINE A == Added(s)
             B == Added(t)
  <2>1. \A j \in 1..Len(s) : B[j].value = A[j].value
    BY <1>3, <1>4
  <2>2. B[n].value = 0
    BY <1>2, <1>3, <1>4
  <2>3. Summable(A) /\ Summable(B) /\ Len(B) = Len(A) + 1 /\ Len(B) = n /\ Len(A) = Len(s)
    BY <1>4
  <2> HIDE DEF A, B, n
  <2>4. SumOf(B) = SumOf(A) + B[Len(B)].value
    BY <2>1, <2>3, SumOfMore
  <2>5. SumOf(A) \in Nat
    <3>1. PICK P : PartialSums(A, P)
      BY <2>3, SumUnfolds
    <3> QED  BY <2>3, <3>1 DEF PartialSums, Summable
  <2>6. SumOf(B) = SumOf(A)
    BY <2>2, <2>3, <2>4, <2>5
  <2> QED  BY <2>6 DEF A, B
<1>6. MinimumOf(hg'.min, t)
  <2>1. /\ hg.min \in Nat /\ \A j \in DOMAIN s : s[j].value <= MinStart
        /\ \A j \in DOMAIN s : "min" \notin s[j].todo => hg.min <= s[j].value
        /\ hg.min = MinStart \/ \E j \in DOMAIN s : s[j].value = hg.min
    BY <1>0 DEF MinimumOf
  <2>2. \A j \in DOMAIN t : j \in DOMAIN s \/ j = n
    BY <1>3
  <2>3. DOMAIN s \subseteq DOMAIN t /\ \A j \in DOMAIN s : t[j] = s[j]
    BY <1>3
  <2> QED  BY <1>1, <1>2, <1>3, <2>1, <2>2, <2>3 DEF MinimumOf
<1> QED  BY <1>0, <1>1, <1>5, <1>6 DEF t

\* Nothing of what a summary is about has changed.
LEMMA SummaryKept ==
  ASSUME SummaryInv, ReaderInv', hg'.samples = hg.samples, hg'.sum = hg.sum,
         hg'.min = hg.min, hg'.summary = hg.summary
  PROVE  SummaryInv'
BY DEF SummaryInv

\* A new or reset histogram.
LEMMA EmptySummary ==
  /\ hg = Empty => SummaryInv
  /\ hg' = Empty => SummaryInv'
<1>1. /\ Empty.sum = 0 /\ Empty.min = MinStart /\ Empty.samples = <<>> /\ Empty.summary = <<>>
  BY DEF Empty
<1>2. SumOf(Added(<<>>)) = 0
  <2> DEFINE none == <<>>
  <2>1. none \in Seq(Sample) /\ Len(none) = 0
    OBVIOUS
  <2> HIDE DEF none
  <2>2. Summable(Added(none)) /\ Len(Added(none)) = 0
    BY <2>1, AddedFacts
  <2>3. PICK P : PartialSums(Added(none), P)
    BY <2>2, SumUnfolds
  <2> QED  BY <2>2, <2>3 DEF PartialSums, none
<1>3. MinimumOf(MinStart, <<>>)
  <2>1. MinStart \in Nat
    <3>1. ValueBits + 8 \in Nat
      BY Constants
    <3> QED  BY <3>1, Powers DEF MinStart
  <2> QED  BY <2>1 DEF MinimumOf
<1>4. Reported(<<>>, <<>>, 0, MinStart)
  BY DEF Reported
<1>5. ASSUME hg = Empty PROVE SummaryInv
  BY <1>1, <1>2, <1>3, <1>4, <1>5, EmptyReader DEF SummaryInv
<1>6. ASSUME hg' = Empty PROVE SummaryInv'
  BY <1>1, <1>2, <1>3, <1>4, <1>6, EmptyReader DEF SummaryInv
<1> QED  BY <1>5, <1>6

\* summarize() on a histogram at rest.
LEMMA SummarizeStep ==
  ASSUME SummaryInv, ReaderInv', summarize
  PROVE  SummaryInv'
<1> DEFINE P == [q \in Quantiles |-> PercentileAtRest(q)]
           new == [count |-> hg.count, sum |-> hg.sum, min |-> hg.min, max |-> hg.max, p |-> P]
<1>0. HistogramInv /\ Bucketed /\ HistogramRecord(hg) /\ hg.samples \in Seq(Sample)
  BY DEF SummaryInv, ReaderInv, HistogramInv, HistogramType
<1>1. InFlight = {} /\ hg' = [hg EXCEPT !.summary = new]
  BY DEF summarize
<1>2. hg.count = Len(hg.samples)
  <2>1. Without(hg.samples, "count") = DOMAIN hg.samples
    BY <1>1 DEF InFlight, Without
  <2>2. Cardinality(DOMAIN hg.samples) = Len(hg.samples)
    BY <1>0, SampleSets
  <2> QED  BY <1>0, <2>1, <2>2 DEF HistogramInv, Counted
<1>3. ASSUME NEW q \in Quantiles, NEW v, RankedBy(hg.samples, q, v)
      PROVE  AnswerRight(P[q], v, hg.max)
  <2>1. P[q] = PercentileAtRest(q)
    OBVIOUS
  <2>2. AnswerRight(PercentileAtRest(q), v, hg.max)
    BY <1>0, <1>1, <1>2, <1>3, PercentileFound
  <2> QED  BY <2>1, <2>2
<1> HIDE DEF P
<1>4. new.sum = hg.sum /\ new.min = hg.min /\ new.max = hg.max /\ new.p = P
  OBVIOUS
<1> HIDE DEF new
<1>5. /\ hg'.samples = hg.samples /\ hg'.sum = hg.sum /\ hg'.min = hg.min
      /\ hg'.summary = new
  BY <1>0, <1>1 DEF HistogramRecord
<1>6. Reported(new, hg.samples, hg.sum, hg.min)
  BY <1>3, <1>4 DEF Reported
<1> QED  BY <1>5, <1>6 DEF SummaryInv

\* Every operation on the histogram keeps what its summary will say.
LEMMA SummaryNext == SummaryInv /\ (Next_hg \/ UNCHANGED hg) => SummaryInv'
<1> SUFFICES ASSUME SummaryInv, Next_hg \/ UNCHANGED hg PROVE SummaryInv'
  OBVIOUS
<1>0. ReaderInv /\ HistogramInv /\ ReaderInv'
  BY ReaderNext DEF SummaryInv, ReaderInv
<1>1. CASE record_us
  <2>1. \A samples, sum, min : Reported(<<>>, samples, sum, min)
    BY DEF Reported
  <2> QED  BY <1>0, <1>1, <2>1, TotalsBegin DEF SummaryInv
<1>2. ASSUME NEW k \in DOMAIN hg.samples,
             \/ AddBucket(k) \/ AddCount(k) \/ AddSum(k)
             \/ LoadMin(k) \/ ExchangeMin(k) \/ LoadMax(k) \/ ExchangeMax(k)
      PROVE  SummaryInv'
  <2>1. PICK step, x : Effect(k, step, x)
    BY <1>0, <1>2, PartEffect, MinEffect, MaxEffect
  <2>2. hg.samples[k].todo # {}
    BY <1>2 DEF AddBucket, AddCount, AddSum, LoadMin, ExchangeMin, LoadMax,
           ExchangeMax
  <2>3. hg.summary = <<>>
    BY <1>0, <2>2 DEF HistogramInv, Summarized, InFlight
  <2>4. hg'.summary = <<>>
    BY <2>1, <2>3 DEF Effect
  <2>5. hg'.sum = SumOf(Added(hg'.samples)) /\ MinimumOf(hg'.min, hg'.samples)
    BY <2>1, TotalsStep
  <2>6. Reported(hg'.summary, hg'.samples, hg'.sum, hg'.min)
    BY <2>4 DEF Reported
  <2> QED  BY <1>0, <2>5, <2>6 DEF SummaryInv
<1>3. CASE reset_hg
  BY <1>3, EmptySummary DEF reset_hg
<1>4. CASE ReadTotal \/ ReadMax \/ ReadBucket \/ ReaderReturns \/ UNCHANGED hg
  BY <1>0, <1>4, ReadEffect, SummaryKept
<1>5. CASE summarize
  BY <1>0, <1>5, SummarizeStep
<1> QED  BY <1>1, <1>2, <1>3, <1>4, <1>5 DEF Next_hg

\* With no sample in flight the totals are those of all samples.
LEMMA SummaryFollows == SummaryInv => SummaryExact
<1> SUFFICES ASSUME SummaryInv PROVE SummaryExact
  OBVIOUS
<1>0. HistogramInv /\ hg.samples \in Seq(Sample) /\ hg.max \in Nat
  BY DEF SummaryInv, ReaderInv, HistogramInv, HistogramType
<1>1. SummaryTotals
  BY <1>0, TotalsFollow
<1>2. CASE hg.summary = <<>>
  BY <1>1, <1>2 DEF SummaryExact
<1>3. CASE hg.summary # <<>>
  <2> DEFINE s == hg.samples
             m == hg.summary
             values == {Value(k) : k \in DOMAIN s}
             Ranks(q, v) == /\ Cardinality({k \in DOMAIN s : Value(k) <= v}) >= RankOf(q, Len(s))
                            /\ Cardinality({k \in DOMAIN s : Value(k) < v}) < RankOf(q, Len(s))
             Ranked(q) == CHOOSE v \in values : Ranks(q, v)
  <2>1. /\ \A k \in DOMAIN s : s[k].todo = {} /\ s[k].value <= hg.max /\ s[k].value \in Nat
        /\ Len(s) \in Nat /\ Len(s) > 0 /\ DOMAIN s = 1..Len(s)
        /\ m.sum = SumOf(Added(s)) /\ m.min = hg.min
    <3>1. InFlight = {} /\ s # <<>>
      BY <1>0, <1>3 DEF HistogramInv, Summarized
    <3>2. \A k \in DOMAIN s : s[k].todo = {}
      BY <3>1 DEF InFlight
    <3>3. \A k \in DOMAIN s : s[k].value <= hg.max
      BY <1>0, <3>2 DEF HistogramInv, Maximum
    <3>4. \A k \in DOMAIN s : s[k] \in Sample
      BY <1>0
    <3>5. \A k \in DOMAIN s : s[k].value \in Nat
      BY <3>4 DEF Sample
    <3>6. Len(s) \in Nat /\ Len(s) > 0 /\ DOMAIN s = 1..Len(s)
      BY <1>0, <3>1
    <3>7. m.sum = SumOf(Added(s)) /\ m.min = hg.min
      BY <1>3 DEF SummaryInv, Reported
    <3> QED  BY <3>2, <3>3, <3>5, <3>6, <3>7
  <2>2. m.sum = SumOf(s)
    <3>1. /\ Summable(Added(s)) /\ Summable(s) /\ Len(Added(s)) = Len(s)
          /\ \A k \in 1..Len(s) : Added(s)[k].value =
                                     IF "sum" \in s[k].todo THEN 0 ELSE s[k].value
      BY <1>0, AddedFacts
    <3>2. \A k \in 1..Len(s) : Added(s)[k].value = s[k].value
      BY <2>1, <3>1
    <3> HIDE DEF s
    <3>3. SumOf(s) = SumOf(Added(s))
      BY <3>1, <3>2, SameSum
    <3> QED  BY <2>1, <3>3
  <2>3. m.min = Min(values)
    <3>1. /\ hg.min \in Nat /\ \A k \in DOMAIN s : s[k].value <= MinStart
          /\ \A k \in DOMAIN s : hg.min <= s[k].value
          /\ hg.min = MinStart \/ \E k \in DOMAIN s : s[k].value = hg.min
      BY <2>1 DEF SummaryInv, MinimumOf
    <3>2. \E k \in DOMAIN s : s[k].value = hg.min
      <4>1. 1 \in DOMAIN s
        BY <2>1
      <4>2. CASE hg.min = MinStart
        BY <2>1, <3>1, <4>1, <4>2
      <4>3. CASE hg.min # MinStart
        BY <3>1, <4>3
      <4> QED  BY <4>2, <4>3
    <3>3. hg.min \in values /\ \A v \in values : v \in Nat /\ hg.min <= v
      BY <2>1, <3>1, <3>2 DEF Value
    <3> HIDE DEF values
    <3>4. Min(values) \in values /\ \A v \in values : Min(values) <= v
      BY <3>3 DEF Min
    <3>5. Min(values) \in Nat /\ hg.min <= Min(values) /\ Min(values) <= hg.min
      BY <3>3, <3>4
    <3>6. Min(values) = hg.min
      BY <3>1, <3>5
    <3> QED  BY <2>1, <3>6
  <2>4. ASSUME NEW q \in Quantiles PROVE AnswerRight(m.p[q], Ranked(q), m.max)
    <3>1. ASSUME NEW v
          PROVE  /\ RankedBy(s, q, v) => v \in values /\ Ranks(q, v)
                 /\ v \in values /\ Ranks(q, v) => RankedBy(s, q, v)
      <4>1. v \in values <=> \E k \in DOMAIN s : v = s[k].value
        BY DEF Value
      <4>2. /\ {k \in DOMAIN s : Value(k) <= v} = AtOrBelow(s, v)
            /\ {k \in DOMAIN s : Value(k) < v} = Under(s, v)
        BY DEF Value, AtOrBelow, Under
      <4> QED  BY <4>1, <4>2 DEF RankedBy
    <3>2. PICK v : RankedBy(s, q, v)
      BY <1>0, <2>1, RankedExists
    <3> HIDE DEF values, Ranks
    <3>3. Ranked(q) \in values /\ Ranks(q, Ranked(q))
      BY <3>1, <3>2
    <3> HIDE DEF Ranked
    <3>4. RankedBy(s, q, Ranked(q))
      BY <3>1, <3>3
    <3>5. \A w : RankedBy(s, q, w) => AnswerRight(m.p[q], w, m.max)
      BY <1>3 DEF SummaryInv, Reported
    <3> QED  BY <3>4, <3>5
  <2>5. \A q \in Quantiles :
           LET v == Min({Ranked(q), kMaxValueUs})
           IN m.p[q] >= v /\ (m.p[q] - v) * kHalfSubBucketCount <= v /\ m.p[q] <= m.max
    <3> HIDE DEF Ranked
    <3> QED  BY <2>4 DEF AnswerRight
  <2> HIDE DEF s, m, Ranked
  <2> QED  BY <1>1, <2>2, <2>3, <2>5 DEF SummaryExact, s, m, Ranked
<1> QED  BY <1>2, <1>3

\* The report of a finished run says what was recorded, for every number of
\* threads and of samples, every width of the buckets and every interleaving of
\* the atomic operations: count, sum, minimum and maximum exactly, each
\* percentile up to the width of its sample's bucket.
THEOREM SummaryExactHolds == Spec => []SummaryExact
<1>1. Init => SummaryInv
  BY EmptySummary DEF Init, Init_hg
<1>2. SummaryInv /\ [Next]_vars => SummaryInv'
  <2>1. [Next]_vars => Next_hg \/ UNCHANGED hg
    BY DEF Next, vars
  <2> QED  BY <2>1, SummaryNext
<1> QED  BY <1>1, <1>2, SummaryFollows, PTL DEF Spec
=============================================================================
