-------------------------- MODULE Algorithms_proofs --------------------------
(***************************************************************************)
(* What the algorithms between two hand-offs compute, for every size of    *)
(* their inputs: suppression, letterboxing, decoding, the shapes of the    *)
(* models, the trails of the overlay, and the optimal assignment.          *)
(*                                                                         *)
(* The loops of the code are recursive functions here; the inductions over *)
(* them rest on the lemmas that StageObjects_proofs begins with.           *)
(***************************************************************************)
EXTENDS StageObjects_proofs

-----------------------------------------------------------------------------
(* Non-maximum suppression.                                                  *)

NmsStart(sorted, n) ==
    [dets |-> SubSeq(sorted, 1, n), kept |-> 0, suppressed |-> [j \in 1..n |-> FALSE]]

\* The state of the loop of apply(), iteration by iteration.
LEMMA PassUnfolds ==
  ASSUME NEW o, NEW sorted, Candidates(o, sorted) \in Nat
  PROVE  LET n == Candidates(o, sorted)
         IN Pass(o, sorted) =
              [i \in 0..n |-> IF i = 0 THEN NmsStart(sorted, n)
                                       ELSE Iterate(o, Pass(o, sorted)[i - 1], i)]
<1> DEFINE n == Candidates(o, sorted)
           start == NmsStart(sorted, n)
           Unfolds(f, m) ==
               f = [i \in 0..m |-> IF i = 0 THEN start ELSE Iterate(o, f[i - 1], i)]
           S == {m \in Nat : \E f : Unfolds(f, m)}
<1> HIDE DEF start
<1>1. 0 \in S
  <2> DEFINE f == [i \in 0..0 |-> start]
  <2>1. Unfolds(f, 0)
    OBVIOUS
  <2> QED  BY <2>1
<1>2. ASSUME NEW m \in Nat, m \in S PROVE m + 1 \in S
  <2>1. PICK f : Unfolds(f, m)
    BY <1>2
  <2> DEFINE g == [i \in 0..(m + 1) |-> IF i <= m THEN f[i] ELSE Iterate(o, f[m], m + 1)]
  <2>2. Unfolds(g, m + 1)
    <3>1. ASSUME NEW i \in 0..(m + 1)
          PROVE  g[i] = IF i = 0 THEN start ELSE Iterate(o, g[i - 1], i)
      <4>1. CASE i = 0
        BY <2>1, <4>1
      <4>2. CASE i # 0 /\ i <= m
        <5>1. i - 1 \in 0..m /\ i \in 0..m /\ i - 1 \in 0..(m + 1)
          BY <4>2
        <5>2. g[i] = f[i] /\ g[i - 1] = f[i - 1]
          BY <4>2, <5>1
        <5>3. f[i] = Iterate(o, f[i - 1], i)
          BY <2>1, <4>2, <5>1
        <5> QED  BY <4>2, <5>2, <5>3
      <4>3. CASE i = m + 1
        <5>1. m \in 0..(m + 1) /\ g[m] = f[m] /\ g[m + 1] = Iterate(o, f[m], m + 1)
          OBVIOUS
        <5>2. i - 1 = m /\ i # 0
          BY <4>3
        <5> QED  BY <4>3, <5>1, <5>2
      <4> QED  BY <4>1, <4>2, <4>3
    <3>2. g = [i \in 0..(m + 1) |-> g[i]]
      OBVIOUS
    <3> HIDE DEF g
    <3> QED  BY <3>1, <3>2
  <2> HIDE DEF g, Unfolds
  <2> QED  BY <2>2
<1>3. \E f : Unfolds(f, n)
  <2> HIDE DEF S
  <2>1. \A m \in Nat : m \in S
    BY <1>1, <1>2, Induction
  <2> QED  BY <2>1 DEF S
<1>4. Pass(o, sorted) = CHOOSE f : Unfolds(f, n)
  BY DEF Pass, start, NmsStart
<1>5. Unfolds(Pass(o, sorted), n)
  <2> HIDE DEF Unfolds
  <2> QED  BY <1>3, <1>4
<1> QED  BY <1>5 DEF start

\* The loop after iteration i: order lists the detections that were kept, which
\* are at the front of the vector; behind i the vector is as it was; and a flag
\* is up where a detection that was kept overlaps.
NmsAt(o, sorted, n, s, i, order) ==
    /\ s.kept \in 0..i /\ order \in [1..s.kept -> 1..i]
    /\ DOMAIN s.dets = 1..n /\ DOMAIN s.suppressed = 1..n
    /\ \A j \in (i + 1)..n : s.dets[j] = sorted[j]
    /\ \A k \in 1..s.kept : s.dets[k] = sorted[order[k]]
    /\ \A j \in 1..n :
          s.suppressed[j] <=>
             \E k \in 1..s.kept : order[k] < j /\ Overlaps(o, sorted, order[k], j)
    /\ GreedyChoice(o, sorted, order, i)

\* Before the loop.
LEMMA NmsBegins ==
  ASSUME NEW o, o.max_detections \in Nat, NEW D, NEW sorted \in Seq(D),
         NEW n \in 0..Len(sorted)
  PROVE  \E order : NmsAt(o, sorted, n, NmsStart(sorted, n), 0, order)
<1> DEFINE s == NmsStart(sorted, n)
           order == [k \in 1..0 |-> 0]
<1>1. s.kept = 0 /\ s.dets = SubSeq(sorted, 1, n) /\ s.suppressed = [j \in 1..n |-> FALSE]
  BY DEF NmsStart
<1>2. DOMAIN s.dets = 1..n /\ \A j \in 1..n : s.dets[j] = sorted[j]
  BY <1>1
<1>3. order \in [1..0 -> 1..0] /\ Len(order) = 0 /\ DOMAIN order = {}
  BY LengthOfFunction
<1> HIDE DEF order, s
<1>4. GreedyChoice(o, sorted, order, 0)
  BY <1>3 DEF GreedyChoice
<1>5. NmsAt(o, sorted, n, s, 0, order)
  BY <1>1, <1>2, <1>3, <1>4 DEF NmsAt
<1> QED  BY <1>5 DEF s

\* An iteration that passes over a detection: enough are kept, or it is
\* suppressed.
LEMMA NmsSkips ==
  ASSUME NEW o, o.max_detections \in Nat, NEW sorted, NEW n \in Nat,
         NEW i \in 0..(n - 1), NEW s, NEW order, NmsAt(o, sorted, n, s, i, order),
         s.kept >= o.max_detections \/ s.suppressed[i + 1]
  PROVE  NmsAt(o, sorted, n, s, i + 1, order)
<1>1. /\ s.kept \in Nat /\ s.kept \in 0..i /\ order \in [1..s.kept -> 1..i]
      /\ GreedyChoice(o, sorted, order, i)
  BY DEF NmsAt
<1>2. Len(order) = s.kept /\ DOMAIN order = 1..s.kept
  BY <1>1, LengthOfFunction
<1>3. \A k \in 1..s.kept : order[k] \in Nat /\ order[k] <= i
  BY <1>1
<1>4. GreedyChoice(o, sorted, order, i + 1)
  <2>1. ASSUME NEW j \in 1..(i + 1)
        PROVE  \/ \E k \in 1..s.kept : order[k] = j
               \/ \E k \in 1..s.kept : order[k] < j /\ Overlaps(o, sorted, order[k], j)
               \/ s.kept = o.max_detections /\ \A k \in 1..s.kept : order[k] < j
    <3>1. CASE j <= i
      <4>1. j \in 1..i
        BY <3>1
      <4> QED  BY <1>1, <1>2, <4>1 DEF GreedyChoice
    <3>2. CASE j = i + 1 /\ s.suppressed[i + 1]
      <4>1. j \in 1..n
        OBVIOUS
      <4> QED  BY <3>2, <4>1 DEF NmsAt
    <3>3. CASE j = i + 1 /\ s.kept >= o.max_detections
      <4>1. s.kept <= o.max_detections
        BY <1>1, <1>2 DEF GreedyChoice
      <4>2. s.kept = o.max_detections
        BY <1>1, <3>3, <4>1
      <4>3. \A k \in 1..s.kept : order[k] < j
        BY <1>3, <3>3
      <4> QED  BY <4>2, <4>3
    <3> QED  BY <3>1, <3>2, <3>3
  <2> QED  BY <1>1, <1>2, <2>1 DEF GreedyChoice
<1>5. order \in [1..s.kept -> 1..(i + 1)]
  BY <1>1
<1>6. s.kept \in 0..(i + 1)
  BY <1>1
<1>7. \A j \in (i + 2)..n : s.dets[j] = sorted[j]
  BY DEF NmsAt
<1> QED  BY <1>4, <1>5, <1>6, <1>7 DEF NmsAt

\* What suppressing after detection i + 1 does to the flags.
LEMMA SuppressFlags ==
  ASSUME NEW o, NEW sorted, NEW n \in Nat, NEW i \in 0..(n - 1), NEW s, NEW order,
         NmsAt(o, sorted, n, s, i, order), NEW j \in 1..n
  PROVE  /\ DOMAIN Suppress(o, s.dets, s.suppressed, i + 1) = 1..n
         /\ Suppress(o, s.dets, s.suppressed, i + 1)[j] <=>
               \/ s.suppressed[j]
               \/ j > i + 1 /\ Overlaps(o, sorted, i + 1, j)
<1>1. DOMAIN s.suppressed = 1..n /\ s.dets[i + 1] = sorted[i + 1]
  BY DEF NmsAt
<1>2. j > i + 1 => s.dets[j] = sorted[j]
  BY DEF NmsAt
<1> QED  BY <1>1, <1>2 DEF Suppress, Overlaps

\* An iteration that keeps detection i + 1.
LEMMA NmsKeeps ==
  ASSUME NEW o, o.max_detections \in Nat, NEW sorted, NEW n \in Nat,
         NEW i \in 0..(n - 1), NEW s, NEW order, NmsAt(o, sorted, n, s, i, order),
         ~(s.kept >= o.max_detections), ~s.suppressed[i + 1]
  PROVE  \E longer : NmsAt(o, sorted, n, Iterate(o, s, i + 1), i + 1, longer)
<1> DEFINE kept == s.kept
           t == Iterate(o, s, i + 1)
           longer == [k \in 1..(kept + 1) |-> IF k <= kept THEN order[k] ELSE i + 1]
<1>1. /\ kept \in Nat /\ kept \in 0..i /\ order \in [1..kept -> 1..i]
      /\ GreedyChoice(o, sorted, order, i)
      /\ DOMAIN s.dets = 1..n /\ DOMAIN s.suppressed = 1..n
  BY DEF NmsAt
<1>2. Len(order) = kept /\ DOMAIN order = 1..kept
  BY <1>1, LengthOfFunction
<1>3. /\ t.kept = kept + 1 /\ t.dets = [s.dets EXCEPT ![kept + 1] = s.dets[i + 1]]
      /\ t.suppressed = Suppress(o, s.dets, s.suppressed, i + 1)
  BY DEF Iterate
<1> HIDE DEF t
<1>4. /\ longer \in [1..(kept + 1) -> 1..(i + 1)]
      /\ \A k \in 1..kept : longer[k] = order[k] /\ order[k] \in 1..i
      /\ longer[kept + 1] = i + 1
  BY <1>1
<1>5. Len(longer) = kept + 1 /\ DOMAIN longer = 1..(kept + 1)
  BY <1>1, <1>4, LengthOfFunction
<1> HIDE DEF longer, kept
<1>6. \A k \in 1..kept : ~Overlaps(o, sorted, order[k], i + 1)
  <2>1. i + 1 \in 1..n
    OBVIOUS
  <2>2. \A k \in 1..kept : order[k] < i + 1
    BY <1>4
  <2> QED  BY <2>1, <2>2 DEF NmsAt, kept
<1>7. GreedyChoice(o, sorted, longer, i + 1)
  <2>1. ASSUME NEW k \in 1..(kept + 1), NEW l \in 1..(kept + 1), k < l
        PROVE  longer[k] < longer[l] /\ ~Overlaps(o, sorted, longer[k], longer[l])
    <3>1. k \in 1..kept /\ longer[k] = order[k] /\ order[k] \in 1..i
      BY <1>1, <1>4, <2>1
    <3>2. CASE l = kept + 1
      BY <1>4, <1>6, <3>1, <3>2
    <3>3. CASE l # kept + 1
      <4>1. l \in 1..kept /\ longer[l] = order[l]
        BY <1>1, <1>4, <3>3
      <4> QED  BY <1>1, <1>2, <2>1, <3>1, <4>1 DEF GreedyChoice
    <3> QED  BY <3>2, <3>3
  <2>2. kept + 1 <= o.max_detections
    BY <1>1 DEF kept
  <2>3. ASSUME NEW j \in 1..(i + 1)
        PROVE  \/ \E k \in 1..(kept + 1) : longer[k] = j
               \/ \E k \in 1..(kept + 1) :
                     longer[k] < j /\ Overlaps(o, sorted, longer[k], j)
    <3>1. CASE j = i + 1
      <4>1. kept + 1 \in 1..(kept + 1)
        BY <1>1
      <4> QED  BY <1>4, <3>1, <4>1
    <3>2. CASE j # i + 1
      <4>1. j \in 1..i /\ kept # o.max_detections
        BY <1>1, <2>2, <3>2
      <4>2. \/ \E k \in 1..kept : order[k] = j
            \/ \E k \in 1..kept : order[k] < j /\ Overlaps(o, sorted, order[k], j)
        BY <1>1, <1>2, <4>1 DEF GreedyChoice
      <4>3. \A k \in 1..kept : k \in 1..(kept + 1)
        BY <1>1
      <4> QED  BY <1>4, <4>2, <4>3
    <3> QED  BY <3>1, <3>2
  <2> QED  BY <1>5, <2>1, <2>2, <2>3 DEF GreedyChoice
<1>8. \A j \in (i + 2)..n : t.dets[j] = sorted[j]
  <2>1. \A j \in (i + 2)..n : s.dets[j] = sorted[j]
    BY DEF NmsAt
  <2>2. \A j \in (i + 2)..n : j # kept + 1 /\ j \in 1..n
    BY <1>1
  <2> QED  BY <1>1, <1>3, <2>1, <2>2
<1>9. \A k \in 1..(kept + 1) : t.dets[k] = sorted[longer[k]]
  <2> SUFFICES ASSUME NEW k \in 1..(kept + 1) PROVE t.dets[k] = sorted[longer[k]]
    OBVIOUS
  <2>1. k \in 1..n /\ kept + 1 \in 1..n
    BY <1>1
  <2>2. CASE k = kept + 1
    <3>1. s.dets[i + 1] = sorted[i + 1]
      BY DEF NmsAt
    <3> QED  BY <1>1, <1>3, <1>4, <2>1, <2>2, <3>1
  <2>3. CASE k # kept + 1
    <3>1. k \in 1..kept
      BY <1>1, <2>3
    <3>2. s.dets[k] = sorted[order[k]]
      BY <3>1 DEF NmsAt, kept
    <3> QED  BY <1>1, <1>3, <1>4, <2>1, <2>3, <3>1, <3>2
  <2> QED  BY <2>2, <2>3
<1>10. ASSUME NEW j \in 1..n
       PROVE  t.suppressed[j] <=>
                 \E k \in 1..(kept + 1) :
                    longer[k] < j /\ Overlaps(o, sorted, longer[k], j)
  <2>1. t.suppressed[j] <=> \/ s.suppressed[j]
                            \/ j > i + 1 /\ Overlaps(o, sorted, i + 1, j)
    BY <1>3, SuppressFlags
  <2>2. s.suppressed[j] <=>
           \E k \in 1..kept : order[k] < j /\ Overlaps(o, sorted, order[k], j)
    BY DEF NmsAt, kept
  <2>3. \A k : k \in 1..(kept + 1) <=> k \in 1..kept \/ k = kept + 1
    BY <1>1
  <2> QED  BY <1>4, <2>1, <2>2, <2>3
<1>11. DOMAIN t.dets = 1..n /\ DOMAIN t.suppressed = 1..n
  <2>1. DOMAIN t.suppressed = 1..n
    BY <1>1, <1>3 DEF Suppress
  <2> QED  BY <1>1, <1>3, <2>1
<1>12. t.kept \in 0..(i + 1)
  BY <1>1, <1>3
<1>13. NmsAt(o, sorted, n, t, i + 1, longer)
  BY <1>3, <1>4, <1>7, <1>8, <1>9, <1>10, <1>11, <1>12 DEF NmsAt
<1> QED  BY <1>13 DEF t

\* The loop of apply(), iteration by iteration.
LEMMA NmsLoop ==
  ASSUME NEW o, o.max_detections \in Nat, NEW D, NEW sorted \in Seq(D),
         Candidates(o, sorted) \in 0..Len(sorted)
  PROVE  LET n == Candidates(o, sorted)
         IN \E order : NmsAt(o, sorted, n, Pass(o, sorted)[n], n, order)
<1> DEFINE n == Candidates(o, sorted)
           P == Pass(o, sorted)
           S == {i \in 0..n : \E order : NmsAt(o, sorted, n, P[i], i, order)}
<1>1. n \in Nat
  OBVIOUS
<1>2. P = [i \in 0..n |-> IF i = 0 THEN NmsStart(sorted, n) ELSE Iterate(o, P[i - 1], i)]
  BY <1>1, PassUnfolds
<1> HIDE DEF n, P
<1>3. 0 \in S
  <2>1. P[0] = NmsStart(sorted, n) /\ 0 \in 0..n
    BY <1>1, <1>2
  <2>2. \E order : NmsAt(o, sorted, n, NmsStart(sorted, n), 0, order)
    BY NmsBegins DEF n
  <2> QED  BY <2>1, <2>2
<1>4. ASSUME NEW i \in 0..(n - 1), i \in S PROVE i + 1 \in S
  <2>1. PICK order : NmsAt(o, sorted, n, P[i], i, order)
    BY <1>4
  <2>2. i + 1 \in 0..n /\ i + 1 # 0 /\ (i + 1) - 1 = i
    BY <1>1
  <2>3. P[i + 1] = Iterate(o, P[i], i + 1)
    BY <1>2, <2>2
  <2> DEFINE s == P[i]
  <2> HIDE DEF s
  <2>4. CASE s.kept >= o.max_detections \/ s.suppressed[i + 1]
    <3>1. Iterate(o, s, i + 1) = s
      BY <2>4 DEF Iterate
    <3>2. NmsAt(o, sorted, n, s, i + 1, order)
      BY <1>1, <2>1, <2>4, NmsSkips DEF s
    <3> QED  BY <2>2, <2>3, <3>1, <3>2 DEF s
  <2>5. CASE ~(s.kept >= o.max_detections) /\ ~s.suppressed[i + 1]
    <3>1. \E longer : NmsAt(o, sorted, n, Iterate(o, s, i + 1), i + 1, longer)
      BY <1>1, <2>1, <2>5, NmsKeeps DEF s
    <3> QED  BY <2>2, <2>3, <3>1 DEF s
  <2> QED  BY <2>4, <2>5
<1>5. n \in S
  <2> HIDE DEF S
  <2>1. \A i \in 0..n : i \in S
    BY <1>1, <1>3, <1>4, InductionUpTo
  <2> QED  BY <1>1, <2>1
<1> QED  BY <1>5 DEF n, P

\* The record of an Nms.
NmsRecord(r) ==
    r = [options |-> r.options, suppressed |-> r.suppressed, sorted |-> r.sorted,
         out |-> r.out, busy |-> r.busy]

NmsState == NmsRecord(nm) /\ nm.options \in NmsOptions /\ NmsGreedy

\* The number of candidates.
LEMMA CandidatesBound ==
  ASSUME NEW o \in NmsOptions, NEW D, NEW sorted \in Seq(D)
  PROVE  /\ o.max_detections \in Nat
         /\ Candidates(o, sorted) \in 0..Len(sorted)
<1>1. o.max_detections \in Nat /\ o.max_candidates \in Nat /\ Len(sorted) \in Nat
  BY NmsAssumption
<1>2. Candidates(o, sorted) = IF Len(sorted) <= o.max_candidates THEN Len(sorted)
                                                                 ELSE o.max_candidates
  BY <1>1, MinOfTwo DEF Candidates
<1> QED  BY <1>1, <1>2

\* Nothing is a greedy choice from nothing.
LEMMA NothingToChoose ==
  ASSUME NEW o \in NmsOptions
  PROVE  \E order \in [1..Len(<<>>) -> 1..Candidates(o, <<>>)] :
            /\ <<>> = [k \in 1..Len(<<>>) |-> <<>>[order[k]]]
            /\ GreedyChoice(o, <<>>, order, Candidates(o, <<>>))
<1>1. o.max_detections \in Nat /\ Candidates(o, <<>>) \in 0..Len(<<>>)
  <2>1. <<>> \in Seq({})
    OBVIOUS
  <2> QED  BY <2>1, CandidatesBound
<1>2. Candidates(o, <<>>) = 0 /\ Len(<<>>) = 0
  BY <1>1
<1> DEFINE order == [k \in 1..0 |-> 0]
<1>3. order \in [1..0 -> 1..0] /\ Len(order) = 0 /\ DOMAIN order = {}
  BY LengthOfFunction
<1>4. <<>> = [k \in 1..0 |-> <<>>[order[k]]]
  OBVIOUS
<1> HIDE DEF order
<1>5. GreedyChoice(o, <<>>, order, 0)
  BY <1>1, <1>3 DEF GreedyChoice
<1> QED  BY <1>2, <1>3, <1>4, <1>5

\* apply() on any sorted vector.
LEMMA ApplyIsGreedy ==
  ASSUME NEW o \in NmsOptions, NEW D, NEW sorted \in Seq(D)
  PROVE  LET n == Candidates(o, sorted)
             p == Pass(o, sorted)[n]
             out == SubSeq(p.dets, 1, p.kept)
         IN \E order \in [1..Len(out) -> 1..n] :
               /\ out = [k \in 1..Len(out) |-> sorted[order[k]]]
               /\ GreedyChoice(o, sorted, order, n)
<1> DEFINE n == Candidates(o, sorted)
           p == Pass(o, sorted)[n]
           out == SubSeq(p.dets, 1, p.kept)
<1>1. o.max_detections \in Nat /\ n \in 0..Len(sorted) /\ n \in Nat
  BY CandidatesBound
<1>2. PICK order : NmsAt(o, sorted, n, p, n, order)
  BY <1>1, NmsLoop
<1> HIDE DEF n, p
<1>3. /\ p.kept \in 0..n /\ order \in [1..p.kept -> 1..n] /\ DOMAIN p.dets = 1..n
      /\ \A k \in 1..p.kept : p.dets[k] = sorted[order[k]]
      /\ GreedyChoice(o, sorted, order, n)
  BY <1>2 DEF NmsAt
<1>4. out = [k \in 1..p.kept |-> p.dets[k]]
  BY <1>1, <1>3
<1>5. out = [k \in 1..p.kept |-> sorted[order[k]]]
  BY <1>3, <1>4
<1>6. Len(out) = p.kept
  BY <1>1, <1>3, <1>4
<1> HIDE DEF out
<1> QED  BY <1>3, <1>5, <1>6 DEF n, p, out

\* Suppression keeps a greedy choice of the detections of each frame, whatever
\* the sizes, the options and the frames before it.
THEOREM NmsGreedyHolds == Spec => []NmsGreedy
<1>1. Init => NmsState
  <2> SUFFICES ASSUME Init PROVE NmsState
    OBVIOUS
  <2>1. PICK o \in NmsOptions :
          nm = [options |-> o, suppressed |-> <<>>, sorted |-> <<>>, out |-> <<>>,
                busy |-> FALSE]
    BY DEF Init, Init_nm
  <2>2. nm.options = o /\ nm.sorted = <<>> /\ nm.out = <<>> /\ NmsRecord(nm)
    BY <2>1 DEF NmsRecord
  <2>3. NmsGreedy
    BY <2>2, NothingToChoose DEF NmsGreedy
  <2> QED  BY <2>2, <2>3 DEF NmsState
<1>2. NmsState /\ [Next]_vars => NmsState'
  <2> SUFFICES ASSUME NmsState, Next_nm \/ UNCHANGED nm PROVE NmsState'
    BY DEF Next, vars
  <2> DEFINE o == nm.options
  <2>o. o \in NmsOptions
    BY DEF NmsState
  <2>1. CASE apply
    <3>1. PICK sorted \in BoundedSeq(NmsDetection, MaxIn) :
            LET p == Pass(o, sorted)[Candidates(o, sorted)]
            IN nm' = [nm EXCEPT !.suppressed = p.suppressed, !.sorted = sorted,
                                !.out = SubSeq(p.dets, 1, p.kept), !.busy = TRUE]
      BY <2>1 DEF apply
    <3>2. sorted \in Seq(NmsDetection)
      <4>1. PICK k \in 0..MaxIn : sorted \in [1..k -> NmsDetection]
        BY DEF BoundedSeq, SeqOf
      <4>2. k \in Nat
        BY NmsAssumption
      <4> QED  BY <4>1, <4>2
    <3> DEFINE n == Candidates(o, sorted)
               p == Pass(o, sorted)[n]
               out == SubSeq(p.dets, 1, p.kept)
    <3> HIDE DEF p
    <3>3. nm'.options = o /\ nm'.sorted = sorted /\ nm'.out = out /\ NmsRecord(nm')
      <4>1. nm' = [nm EXCEPT !.suppressed = p.suppressed, !.sorted = sorted, !.out = out,
                             !.busy = TRUE]
        BY <3>1 DEF p
      <4> HIDE DEF out, n
      <4>2. NmsRecord(nm)
        BY DEF NmsState
      <4>3. nm' = [options |-> o, suppressed |-> p.suppressed, sorted |-> sorted,
                   out |-> out, busy |-> TRUE]
        BY <4>1, <4>2 DEF NmsRecord
      <4> QED  BY <4>3 DEF NmsRecord
    <3>4. \E order \in [1..Len(out) -> 1..n] :
             /\ out = [k \in 1..Len(out) |-> sorted[order[k]]]
             /\ GreedyChoice(o, sorted, order, n)
      BY <2>o, <3>2, ApplyIsGreedy DEF p
    <3> HIDE DEF out
    <3>5. NmsGreedy'
      BY <3>3, <3>4 DEF NmsGreedy
    <3> QED  BY <2>o, <3>3, <3>5 DEF NmsState, NmsRecord
  <2>2. CASE FrameLeaves
    <3>1. nm'.options = o /\ nm'.sorted = <<>> /\ nm'.out = <<>> /\ NmsRecord(nm')
      BY <2>2 DEF FrameLeaves, NmsState, NmsRecord
    <3>2. NmsGreedy'
      BY <2>o, <3>1, NothingToChoose DEF NmsGreedy
    <3> QED  BY <2>o, <3>1, <3>2 DEF NmsState, NmsRecord
  <2>3. CASE UNCHANGED nm
    BY <2>3 DEF NmsState, NmsGreedy, NmsRecord
  <2> QED  BY <2>1, <2>2, <2>3 DEF Next_nm
<1>3. NmsState => NmsGreedy
  BY DEF NmsState
<1> QED  BY <1>1, <1>2, <1>3, PTL DEF Spec

-----------------------------------------------------------------------------
(* Letterboxing.                                                             *)

\* Positions are ordered as pairs are: a' * M + b' comes before a * M + b.
LEMMA PairOrder ==
  ASSUME NEW M \in Nat \ {0}, NEW a \in Int, NEW b \in 0..(M - 1),
         NEW c \in Int, NEW d \in 0..M
  PROVE  c * M + d <= a * M + b <=> (c < a \/ (c = a /\ d <= b))
<1>1. CASE c < a
  <2>1. M * (c + 1) <= M * a
    BY <1>1, ProductMonotone
  <2>2. M * (c + 1) = c * M + M /\ M * a = a * M /\ c * M \in Int /\ a * M \in Int
    OBVIOUS
  <2> QED  BY <1>1, <2>1, <2>2
<1>2. CASE c = a
  <2>1. a * M \in Int
    OBVIOUS
  <2> QED  BY <1>2, <2>1
<1>3. CASE a < c
  <2>1. M * (a + 1) <= M * c
    BY <1>3, ProductMonotone
  <2>2. M * (a + 1) = a * M + M /\ M * c = c * M /\ c * M \in Int /\ a * M \in Int
    OBVIOUS
  <2> QED  BY <1>3, <2>1, <2>2
<1> QED  BY <1>1, <1>2, <1>3

Plane == TargetWidth * TargetHeight

\* An index of the tensor and the start of a range, compared by plane, row and
\* column.
LEMMA TensorOrder ==
  ASSUME NEW p \in Int, NEW row \in 0..(TargetHeight - 1), NEW col \in 0..(TargetWidth - 1),
         NEW q \in Int, NEW r \in 0..TargetHeight, NEW c \in 0..TargetWidth,
         r = TargetHeight => c = 0
  PROVE  q * Plane + r * TargetWidth + c <= p * Plane + row * TargetWidth + col
         <=> (q < p \/ (q = p /\ (r < row \/ (r = row /\ c <= col))))
<1>1. TargetWidth \in Nat \ {0} /\ TargetHeight \in Nat \ {0}
  BY LetterboxerAssumption
<1>2. Plane \in Nat \ {0}
  BY <1>1 DEF Plane
<1> DEFINE b == row * TargetWidth + col
           d == r * TargetWidth + c
<1>3. b \in 0..(Plane - 1)
  <2>1. TargetWidth * row <= TargetWidth * (TargetHeight - 1)
    BY <1>1, ProductMonotone
  <2>2. /\ TargetWidth * row = row * TargetWidth /\ row * TargetWidth \in Nat
        /\ TargetWidth * (TargetHeight - 1) = Plane - TargetWidth
    BY <1>1 DEF Plane
  <2> QED  BY <1>1, <1>2, <2>1, <2>2
<1>4. d \in 0..Plane
  <2>1. CASE r = TargetHeight
    <3>1. d = Plane
      BY <1>1, <2>1 DEF Plane
    <3> QED  BY <1>2, <3>1
  <2>2. CASE r # TargetHeight
    <3>1. TargetWidth * r <= TargetWidth * (TargetHeight - 1)
      BY <1>1, <2>2, ProductMonotone
    <3>2. /\ TargetWidth * r = r * TargetWidth /\ r * TargetWidth \in Nat
          /\ TargetWidth * (TargetHeight - 1) = Plane - TargetWidth
      BY <1>1 DEF Plane
    <3> QED  BY <1>1, <1>2, <3>1, <3>2
  <2> QED  BY <2>1, <2>2
<1>5. d <= b <=> (r < row \/ (r = row /\ c <= col))
  BY <1>1, PairOrder
<1>6. b \in Int /\ d \in Int /\ p * Plane \in Int /\ q * Plane \in Int
      /\ row * TargetWidth \in Int /\ r * TargetWidth \in Int
  BY <1>1, <1>2, <1>3, <1>4
<1>7. /\ q * Plane + d = q * Plane + r * TargetWidth + c
      /\ p * Plane + b = p * Plane + row * TargetWidth + col
  BY <1>6
<1> HIDE DEF b, d
<1>8. q * Plane + d <= p * Plane + b <=> (q < p \/ (q = p /\ d <= b))
  BY <1>2, <1>3, <1>4, PairOrder
<1> QED  BY <1>5, <1>7, <1>8

\* lround gives an integer within half a unit, on either side of a tie.
LEMMA RoundingError ==
  ASSUME NEW num \in Nat, NEW den \in Nat \ {0}, NEW w \in lround(num, den)
  PROVE  /\ w \in Nat
         /\ 2 * num <= 2 * (den * w) + den
         /\ 2 * (den * w) <= 2 * num + den
<1> DEFINE M == 2 * den
           a == 2 * num + den
           up == a \div M
<1>1. M \in Nat \ {0} /\ a \in Nat
  OBVIOUS
<1>2. /\ up \in Int /\ a % M \in 0..(M - 1) /\ M * up <= a /\ a < M * up + M
      /\ a = M * up + (a % M)
  <2> HIDE DEF M, a
  <2> QED  BY <1>1, Division
<1>3. M * up = 2 * (den * up) /\ den * up \in Int
  BY <1>2
<1>4. w = up \/ (a % M = 0 /\ w = up - 1)
  BY DEF lround
<1> HIDE DEF up
<1>5. CASE w = up
  <2>1. w >= 0
    <3>1. M * 0 < M * w + M
      BY <1>1, <1>2, <1>5
    <3> QED  BY <1>1, <1>2, <1>5, <3>1, ProductCancels
  <2> QED  BY <1>2, <1>3, <1>5, <2>1
<1>6. CASE a % M = 0 /\ w = up - 1
  <2>1. den * w = den * up - den
    BY <1>2, <1>6
  <2>2. 2 * (den * w) = a - 2 * den
    BY <1>2, <1>3, <1>6, <2>1
  <2>3. w >= 0
    <3>1. M * w = a - M
      BY <1>2, <1>6
    <3>2. M * 0 < M * w + M
      BY <1>1, <3>1
    <3> QED  BY <1>1, <1>2, <1>6, <3>2, ProductCancels
  <2> QED  BY <1>2, <1>6, <2>2, <2>3
<1> QED  BY <1>4, <1>5, <1>6

\* Rounding a fraction that is at most an integer does not exceed it.
LEMMA RoundingFits ==
  ASSUME NEW num \in Nat, NEW den \in Nat \ {0}, NEW w \in lround(num, den),
         NEW target \in Nat, num <= den * target
  PROVE  w <= target
<1>1. w \in Nat /\ 2 * (den * w) <= 2 * num + den
  BY RoundingError
<1>2. den * w \in Int /\ den * target \in Int
  BY <1>1
<1>3. den * w < den * target + den
  BY <1>1, <1>2
<1> QED  BY <1>1, <1>3, ProductCancels

\* The padding on the left leaves room for the image, and more than half of
\* what is left.
LEMMA PadFits ==
  ASSUME NEW room \in Nat
  PROVE  PadOf(room) \in Nat /\ 2 * PadOf(room) <= room
<1>1. PadOf(room) \in Int /\ 10 * PadOf(room) <= 5 * room + 4
      /\ 5 * room + 4 < 10 * PadOf(room) + 10
  BY Division DEF PadOf
<1> QED  BY <1>1

\* One axis of a letterbox: the scaled size fits the target, is rounded by at
\* most half a pixel, and is padded on the left by at most half of the rest.
AxisFits(t, size, resized, pad, target) ==
    /\ size \in Nat \ {0} /\ t.num \in Nat \ {0} /\ t.den \in Nat \ {0}
    /\ resized \in Nat /\ resized <= target
    /\ pad \in Nat /\ 2 * pad <= target - resized
    /\ size * t.num <= t.den * target
    /\ 2 * (size * t.num) <= 2 * (t.den * resized) + t.den
    /\ 2 * (t.den * resized) <= 2 * (size * t.num) + t.den

Fits(t) ==
    /\ AxisFits(t, t.source_width, t.resized_width, t.pad_x, TargetWidth)
    /\ AxisFits(t, t.source_height, t.resized_height, t.pad_y, TargetHeight)

\* The resized image and its padding lie within the target, whatever the
\* rounding chose.
LEMMA LetterboxFits ==
  ASSUME NEW source, source.width \in Nat \ {0}, source.height \in Nat \ {0},
         NEW t \in compute_letterbox(source)
  PROVE  Fits(t) /\ t.source_width = source.width /\ t.source_height = source.height
<1> DEFINE sw == source.width
           sh == source.height
           tall == TargetHeight * sw <= TargetWidth * sh
           num == IF tall THEN TargetHeight ELSE TargetWidth
           den == IF tall THEN sh ELSE sw
<1>0. TargetWidth \in Nat \ {0} /\ TargetHeight \in Nat \ {0}
  BY LetterboxerAssumption
<1>1. PICK w \in lround(sw * num, den), h \in lround(sh * num, den) :
         t = [num |-> num, den |-> den, source_width |-> sw, source_height |-> sh,
              resized_width |-> w, resized_height |-> h,
              pad_x |-> PadOf(TargetWidth - w), pad_y |-> PadOf(TargetHeight - h)]
  BY DEF compute_letterbox
<1>2. num \in Nat \ {0} /\ den \in Nat \ {0}
  BY <1>0
<1>3. /\ TargetHeight * sw \in Nat /\ TargetWidth * sh \in Nat
      /\ TargetHeight * sw = sw * TargetHeight /\ TargetWidth * sh = sh * TargetWidth
      /\ TargetWidth * sw = sw * TargetWidth /\ TargetHeight * sh = sh * TargetHeight
      /\ sw * num \in Nat /\ sh * num \in Nat
  BY <1>0, <1>2
<1>4. sw * num <= den * TargetWidth
  BY <1>3
<1>5. sh * num <= den * TargetHeight
  BY <1>3
<1> HIDE DEF num, den
<1>6. /\ w \in Nat /\ 2 * (sw * num) <= 2 * (den * w) + den
      /\ 2 * (den * w) <= 2 * (sw * num) + den
  BY <1>2, <1>3, RoundingError
<1>7. /\ h \in Nat /\ 2 * (sh * num) <= 2 * (den * h) + den
      /\ 2 * (den * h) <= 2 * (sh * num) + den
  BY <1>2, <1>3, RoundingError
<1>8. w <= TargetWidth
  BY <1>0, <1>2, <1>3, <1>4, RoundingFits
<1>9. h <= TargetHeight
  BY <1>0, <1>2, <1>3, <1>5, RoundingFits
<1>10. PadOf(TargetWidth - w) \in Nat /\ 2 * PadOf(TargetWidth - w) <= TargetWidth - w
  BY <1>0, <1>6, <1>8, PadFits
<1>11. PadOf(TargetHeight - h) \in Nat /\ 2 * PadOf(TargetHeight - h) <= TargetHeight - h
  BY <1>0, <1>7, <1>9, PadFits
<1>12. AxisFits(t, sw, w, PadOf(TargetWidth - w), TargetWidth)
  BY <1>1, <1>2, <1>4, <1>6, <1>8, <1>10 DEF AxisFits
<1>13. AxisFits(t, sh, h, PadOf(TargetHeight - h), TargetHeight)
  BY <1>1, <1>2, <1>5, <1>7, <1>9, <1>11 DEF AxisFits
<1>14. /\ t.source_width = sw /\ t.source_height = sh
       /\ t.resized_width = w /\ t.resized_height = h
       /\ t.pad_x = PadOf(TargetWidth - w) /\ t.pad_y = PadOf(TargetHeight - h)
  BY <1>1
<1> QED  BY <1>12, <1>13, <1>14 DEF Fits

\* The ranges that run() writes, by kind, plane and row.
AboveImage(t, p) == <<p * Plane, p * Plane + t.pad_y * TargetWidth, "above">>

BelowImage(t, p) == <<p * Plane + (t.pad_y + t.resized_height) * TargetWidth, (p + 1) * Plane, "below">>

RowStart(t, p, dy) == p * Plane + (t.pad_y + dy) * TargetWidth

LeftOfImage(t, p, dy) == <<RowStart(t, p, dy), RowStart(t, p, dy) + t.pad_x, "left">>

ImageRow(t, p, dy) ==
    <<RowStart(t, p, dy) + t.pad_x, RowStart(t, p, dy) + t.pad_x + t.resized_width, "image">>

RightOfImage(t, p, dy) ==
    <<RowStart(t, p, dy) + t.pad_x + t.resized_width, RowStart(t, p, dy) + TargetWidth, "right">>

\* The ranges that one call writes, by the part of the target they fill.
LEMMA WritesAre ==
  ASSUME NEW t
  PROVE  \A w : w \in Writes(t) <=>
            \E p \in 0..2 :
               \/ w = AboveImage(t, p) \/ w = BelowImage(t, p)
               \/ \E dy \in 0..(t.resized_height - 1) :
                     w = LeftOfImage(t, p, dy) \/ w = ImageRow(t, p, dy) \/ w = RightOfImage(t, p, dy)
BY DEF Writes, AboveImage, BelowImage, LeftOfImage, ImageRow, RightOfImage, RowStart, Plane

Within(w, k) == w[1] <= k /\ k < w[2]

\* Which ranges hold the index of a plane, a row and a column.
LEMMA RangesOf ==
  ASSUME NEW t, Fits(t),
         NEW p \in 0..2, NEW row \in 0..(TargetHeight - 1), NEW col \in 0..(TargetWidth - 1),
         NEW q \in 0..2
  PROVE  LET k == p * Plane + row * TargetWidth + col
         IN /\ Within(AboveImage(t, q), k) <=> (q = p /\ row < t.pad_y)
            /\ Within(BelowImage(t, q), k) <=> (q = p /\ row >= t.pad_y + t.resized_height)
            /\ \A dy \in 0..(t.resized_height - 1) :
                  /\ Within(LeftOfImage(t, q, dy), k)
                     <=> (q = p /\ row = t.pad_y + dy /\ col < t.pad_x)
                  /\ Within(ImageRow(t, q, dy), k)
                     <=> (q = p /\ row = t.pad_y + dy /\ t.pad_x <= col
                          /\ col < t.pad_x + t.resized_width)
                  /\ Within(RightOfImage(t, q, dy), k)
                     <=> (q = p /\ row = t.pad_y + dy /\ t.pad_x + t.resized_width <= col)
<1> DEFINE k == p * Plane + row * TargetWidth + col
           At(pl, r, c) == pl * Plane + r * TargetWidth + c
           LexAt(pl, r, c) == pl < p \/ (pl = p /\ (r < row \/ (r = row /\ c <= col)))
<1>0. TargetWidth \in Nat \ {0} /\ TargetHeight \in Nat \ {0} /\ Plane \in Nat
  BY LetterboxerAssumption DEF Plane
<1>1. /\ t.pad_x \in Nat /\ t.pad_y \in Nat /\ t.resized_width \in Nat
      /\ t.resized_height \in Nat /\ t.pad_x + t.resized_width <= TargetWidth
      /\ t.pad_y + t.resized_height <= TargetHeight
  BY <1>0 DEF Fits, AxisFits
<1>2. \A r \in 0..TargetHeight, c \in 0..TargetWidth, pl \in {q, q + 1} :
         (r = TargetHeight => c = 0)
         => (At(pl, r, c) <= k <=> LexAt(pl, r, c)) /\ At(pl, r, c) \in Int
  <2> SUFFICES ASSUME NEW r \in 0..TargetHeight, NEW c \in 0..TargetWidth,
                      NEW pl \in {q, q + 1}, r = TargetHeight => c = 0
               PROVE  (At(pl, r, c) <= k <=> LexAt(pl, r, c)) /\ At(pl, r, c) \in Int
    OBVIOUS
  <2>1. pl \in Int
    OBVIOUS
  <2>2. At(pl, r, c) <= k <=> LexAt(pl, r, c)
    BY <2>1, TensorOrder
  <2> QED  BY <2>1, <2>2, <1>0
<1>k. k \in Int
  BY <1>0
<1> HIDE DEF At, k
<1>3. Within(AboveImage(t, q), k) <=> (q = p /\ row < t.pad_y)
  <2>1. /\ AboveImage(t, q)[1] = At(q, 0, 0) /\ AboveImage(t, q)[2] = At(q, t.pad_y, 0)
    BY <1>0, <1>1 DEF AboveImage, At
  <2>2. /\ At(q, 0, 0) <= k <=> LexAt(q, 0, 0)
        /\ At(q, t.pad_y, 0) <= k <=> LexAt(q, t.pad_y, 0)
        /\ At(q, 0, 0) \in Int /\ At(q, t.pad_y, 0) \in Int
    <3>1. 0 \in 0..TargetHeight /\ t.pad_y \in 0..TargetHeight /\ 0 \in 0..TargetWidth
      BY <1>0, <1>1
    <3> QED  BY <1>2, <3>1
  <2> QED  BY <1>1, <1>k, <1>0, <2>1, <2>2 DEF Within
<1>4. Within(BelowImage(t, q), k) <=> (q = p /\ row >= t.pad_y + t.resized_height)
  <2> DEFINE e == t.pad_y + t.resized_height
  <2>1. BelowImage(t, q)[1] = At(q, e, 0) /\ BelowImage(t, q)[2] = At(q + 1, 0, 0)
    BY <1>0, <1>1 DEF BelowImage, At
  <2>2. /\ At(q, e, 0) <= k <=> LexAt(q, e, 0)
        /\ At(q + 1, 0, 0) <= k <=> LexAt(q + 1, 0, 0)
        /\ At(q, e, 0) \in Int /\ At(q + 1, 0, 0) \in Int
    <3>1. 0 \in 0..TargetHeight /\ e \in 0..TargetHeight /\ 0 \in 0..TargetWidth
      BY <1>0, <1>1
    <3> QED  BY <1>2, <3>1
  <2> QED  BY <1>1, <1>k, <1>0, <2>1, <2>2 DEF Within
<1>5. ASSUME NEW dy \in 0..(t.resized_height - 1)
      PROVE  /\ Within(LeftOfImage(t, q, dy), k)
                <=> (q = p /\ row = t.pad_y + dy /\ col < t.pad_x)
             /\ Within(ImageRow(t, q, dy), k)
                <=> (q = p /\ row = t.pad_y + dy /\ t.pad_x <= col
                     /\ col < t.pad_x + t.resized_width)
             /\ Within(RightOfImage(t, q, dy), k)
                <=> (q = p /\ row = t.pad_y + dy /\ t.pad_x + t.resized_width <= col)
  <2> DEFINE r == t.pad_y + dy
             e == t.pad_x + t.resized_width
  <2>0. /\ r \in 0..(TargetHeight - 1) /\ t.pad_x \in 0..TargetWidth /\ e \in 0..TargetWidth
        /\ TargetWidth \in 0..TargetWidth /\ 0 \in 0..TargetWidth
    BY <1>0, <1>1
  <2>1. /\ LeftOfImage(t, q, dy)[1] = At(q, r, 0) /\ LeftOfImage(t, q, dy)[2] = At(q, r, t.pad_x)
        /\ ImageRow(t, q, dy)[1] = At(q, r, t.pad_x) /\ ImageRow(t, q, dy)[2] = At(q, r, e)
        /\ RightOfImage(t, q, dy)[1] = At(q, r, e) /\ RightOfImage(t, q, dy)[2] = At(q, r, TargetWidth)
    <3>1. q * Plane + r * TargetWidth \in Int
      BY <1>0, <2>0
    <3>2. RowStart(t, q, dy) = q * Plane + r * TargetWidth
      BY DEF RowStart
    <3> QED  BY <1>1, <3>1, <3>2 DEF LeftOfImage, ImageRow, RightOfImage, At
  <2>2. \A c \in 0..TargetWidth : (At(q, r, c) <= k <=> LexAt(q, r, c)) /\ At(q, r, c) \in Int
    <3>1. r \in 0..TargetHeight /\ r # TargetHeight
      BY <1>0, <2>0
    <3> HIDE DEF r
    <3> QED  BY <1>2, <3>1
  <2>3. /\ At(q, r, 0) <= k <=> LexAt(q, r, 0)
        /\ At(q, r, t.pad_x) <= k <=> LexAt(q, r, t.pad_x)
        /\ At(q, r, e) <= k <=> LexAt(q, r, e)
        /\ At(q, r, TargetWidth) <= k <=> LexAt(q, r, TargetWidth)
        /\ At(q, r, 0) \in Int /\ At(q, r, t.pad_x) \in Int /\ At(q, r, e) \in Int
        /\ At(q, r, TargetWidth) \in Int
    BY <2>0, <2>2
  <2>4. Within(LeftOfImage(t, q, dy), k) <=> (q = p /\ row = r /\ col < t.pad_x)
    BY <1>1, <1>k, <2>0, <1>0, <2>1, <2>3 DEF Within
  <2>5. Within(ImageRow(t, q, dy), k) <=> (q = p /\ row = r /\ t.pad_x <= col /\ col < e)
    BY <1>1, <1>k, <2>0, <1>0, <2>1, <2>3 DEF Within
  <2>6. Within(RightOfImage(t, q, dy), k) <=> (q = p /\ row = r /\ e <= col)
    BY <1>1, <1>k, <2>0, <1>0, <2>1, <2>3 DEF Within
  <2> QED  BY <2>4, <2>5, <2>6
<1> QED  BY <1>3, <1>4, <1>5 DEF k

\* No range leaves the tensor.
LEMMA RangesInside ==
  ASSUME NEW t, Fits(t), NEW w \in Writes(t)
  PROVE  /\ w[1] \in Int /\ w[2] \in Int
         /\ 0 <= w[1] /\ w[1] <= w[2] /\ w[2] <= tensor_size
<1>0. /\ TargetWidth \in Nat \ {0} /\ TargetHeight \in Nat \ {0} /\ Plane \in Nat
      /\ tensor_size = 3 * Plane /\ TargetWidth * TargetHeight = Plane
  BY LetterboxerAssumption DEF Plane, tensor_size
<1>1. /\ t.pad_x \in Nat /\ t.pad_y \in Nat /\ t.resized_width \in Nat
      /\ t.resized_height \in Nat /\ t.pad_x + t.resized_width <= TargetWidth
      /\ t.pad_y + t.resized_height <= TargetHeight
  BY <1>0 DEF Fits, AxisFits
<1>2. PICK p \in 0..2 :
         \/ w = AboveImage(t, p) \/ w = BelowImage(t, p)
         \/ \E dy \in 0..(t.resized_height - 1) :
               w = LeftOfImage(t, p, dy) \/ w = ImageRow(t, p, dy) \/ w = RightOfImage(t, p, dy)
  BY WritesAre
<1> DEFINE start == p * Plane
<1>3. start \in Nat /\ start + Plane <= tensor_size /\ (p + 1) * Plane = start + Plane
  <2>1. p = 0 \/ p = 1 \/ p = 2
    OBVIOUS
  <2> QED  BY <1>0, <2>1
<1>4. ASSUME NEW r \in 0..TargetHeight
      PROVE  r * TargetWidth \in Nat /\ r * TargetWidth <= Plane
  <2>1. TargetWidth * r <= TargetWidth * TargetHeight
    BY <1>0, ProductMonotone
  <2> QED  BY <1>0, <2>1
<1> HIDE DEF start
<1>5. CASE w = AboveImage(t, p)
  <2>1. t.pad_y * TargetWidth \in Nat /\ t.pad_y * TargetWidth <= Plane
    BY <1>0, <1>1, <1>4
  <2>2. w[1] = start /\ w[2] = start + t.pad_y * TargetWidth
    BY <1>5 DEF AboveImage, start
  <2> QED  BY <1>0, <1>3, <2>1, <2>2
<1>6. CASE w = BelowImage(t, p)
  <2> DEFINE e == t.pad_y + t.resized_height
  <2>1. e * TargetWidth \in Nat /\ e * TargetWidth <= Plane
    BY <1>0, <1>1, <1>4
  <2>2. w[1] = start + e * TargetWidth /\ w[2] = start + Plane
    BY <1>3, <1>6 DEF BelowImage, start
  <2> QED  BY <1>0, <1>3, <2>1, <2>2
<1>7. ASSUME NEW dy \in 0..(t.resized_height - 1),
             w = LeftOfImage(t, p, dy) \/ w = ImageRow(t, p, dy) \/ w = RightOfImage(t, p, dy)
      PROVE  /\ w[1] \in Int /\ w[2] \in Int
             /\ 0 <= w[1] /\ w[1] <= w[2] /\ w[2] <= tensor_size
  <2> DEFINE r == t.pad_y + dy
             at == RowStart(t, p, dy)
  <2>1. /\ (r + 1) * TargetWidth \in Nat /\ (r + 1) * TargetWidth <= Plane
        /\ r * TargetWidth \in Nat
    BY <1>0, <1>1, <1>4
  <2>2. (r + 1) * TargetWidth = r * TargetWidth + TargetWidth
    BY <1>0, <1>1
  <2>3. at = start + r * TargetWidth
    BY DEF RowStart, start
  <2>4. at \in Nat /\ at + TargetWidth <= tensor_size
    <3> HIDE DEF at, r
    <3> QED  BY <1>0, <1>3, <2>1, <2>2, <2>3
  <2> HIDE DEF at, r
  <2>5. /\ w[1] = at \/ w[1] = at + t.pad_x \/ w[1] = at + t.pad_x + t.resized_width
        /\ \/ w[1] = at /\ w[2] = at + t.pad_x
           \/ w[1] = at + t.pad_x /\ w[2] = at + t.pad_x + t.resized_width
           \/ w[1] = at + t.pad_x + t.resized_width /\ w[2] = at + TargetWidth
    BY <1>7 DEF LeftOfImage, ImageRow, RightOfImage, at
  <2> QED  BY <1>0, <1>1, <2>4, <2>5
<1> QED  BY <1>2, <1>5, <1>6, <1>7

\* Every index of the tensor has a plane, a row and a column.
LEMMA IndexSplits ==
  ASSUME NEW k \in 0..(tensor_size - 1)
  PROVE  \E p \in 0..2, row \in 0..(TargetHeight - 1), col \in 0..(TargetWidth - 1) :
            k = p * Plane + row * TargetWidth + col
<1>0. /\ TargetWidth \in Nat \ {0} /\ TargetHeight \in Nat \ {0} /\ Plane \in Nat \ {0}
      /\ tensor_size = 3 * Plane /\ TargetWidth * TargetHeight = Plane
  BY LetterboxerAssumption DEF Plane, tensor_size
<1> DEFINE p == k \div Plane
           q == k % Plane
<1>1. /\ p \in Int /\ q \in 0..(Plane - 1) /\ k = Plane * p + q /\ k \in Int
      /\ Plane * p <= k /\ k < Plane * p + Plane
  BY <1>0, Division
<1> HIDE DEF p, q
<1>2. p \in 0..2
  <2>1. Plane * 0 < Plane * p + Plane
    BY <1>0, <1>1
  <2>2. Plane * p < Plane * 2 + Plane
    BY <1>0, <1>1
  <2>3. 0 <= p /\ p <= 2
    BY <1>0, <1>1, <2>1, <2>2, ProductCancels
  <2> QED  BY <1>1, <2>3
<1> DEFINE row == q \div TargetWidth
           col == q % TargetWidth
<1>3. /\ row \in Int /\ col \in 0..(TargetWidth - 1) /\ q = TargetWidth * row + col
      /\ TargetWidth * row <= q /\ q < TargetWidth * row + TargetWidth
  <2>1. q \in Int
    BY <1>0, <1>1
  <2> QED  BY <1>0, <2>1, Division
<1> HIDE DEF row, col
<1>4. row \in 0..(TargetHeight - 1)
  <2>1. TargetWidth * 0 < TargetWidth * row + TargetWidth
    BY <1>0, <1>1, <1>3
  <2>2. TargetWidth * row < TargetWidth * (TargetHeight - 1) + TargetWidth
    <3>1. TargetWidth * (TargetHeight - 1) = Plane - TargetWidth
      BY <1>0
    <3>2. TargetWidth * row \in Int
      BY <1>0, <1>3
    <3> QED  BY <1>0, <1>1, <1>3, <3>1, <3>2
  <2>3. 0 <= row /\ row <= TargetHeight - 1
    BY <1>0, <1>3, <2>1, <2>2, ProductCancels
  <2> QED  BY <1>0, <1>3, <2>3
<1>5. Plane * p = p * Plane /\ TargetWidth * row = row * TargetWidth
      /\ p * Plane \in Int /\ row * TargetWidth \in Int
  BY <1>0, <1>1, <1>3
<1>6. k = p * Plane + row * TargetWidth + col
  BY <1>1, <1>3, <1>5
<1> QED  BY <1>2, <1>3, <1>4, <1>6

\* run() writes every element of the tensor once and nothing outside it.
LEMMA WrittenOnce ==
  ASSUME NEW t, Fits(t), NEW k \in -1..tensor_size
  PROVE  Cardinality({w \in Writes(t) : w[1] <= k /\ k < w[2]})
            = (IF k \in 0..(tensor_size - 1) THEN 1 ELSE 0)
<1> DEFINE hit == {w \in Writes(t) : w[1] <= k /\ k < w[2]}
<1>0. /\ TargetWidth \in Nat \ {0} /\ TargetHeight \in Nat \ {0} /\ tensor_size \in Nat
  BY LetterboxerAssumption DEF tensor_size
<1>e. Cardinality({}) = 0
  BY FS_EmptySet
<1>1. CASE k \notin 0..(tensor_size - 1)
  <2>1. k = -1 \/ k = tensor_size
    BY <1>0, <1>1
  <2>2. hit = {}
    BY <1>0, <2>1, RangesInside
  <2> HIDE DEF hit
  <2>3. Cardinality(hit) = 0
    BY <1>e, <2>2
  <2> QED  BY <1>1, <2>3 DEF hit
<1>2. CASE k \in 0..(tensor_size - 1)
  <2>1. PICK p \in 0..2, row \in 0..(TargetHeight - 1), col \in 0..(TargetWidth - 1) :
           k = p * Plane + row * TargetWidth + col
    BY <1>2, IndexSplits
  <2>2. /\ t.pad_x \in Nat /\ t.pad_y \in Nat /\ t.resized_width \in Nat
        /\ t.resized_height \in Nat
    BY DEF Fits, AxisFits
  <2>3. \A q \in 0..2 :
           /\ Within(AboveImage(t, q), k) <=> (q = p /\ row < t.pad_y)
           /\ Within(BelowImage(t, q), k) <=> (q = p /\ row >= t.pad_y + t.resized_height)
           /\ \A dy \in 0..(t.resized_height - 1) :
                 /\ Within(LeftOfImage(t, q, dy), k)
                    <=> (q = p /\ row = t.pad_y + dy /\ col < t.pad_x)
                 /\ Within(ImageRow(t, q, dy), k)
                    <=> (q = p /\ row = t.pad_y + dy /\ t.pad_x <= col
                         /\ col < t.pad_x + t.resized_width)
                 /\ Within(RightOfImage(t, q, dy), k)
                    <=> (q = p /\ row = t.pad_y + dy /\ t.pad_x + t.resized_width <= col)
    BY <2>1, RangesOf
  <2>4. hit = {w \in Writes(t) : Within(w, k)}
    BY DEF Within
  <2> DEFINE y == row - t.pad_y
             rows == 0..(t.resized_height - 1)
             One == IF row < t.pad_y THEN AboveImage(t, p)
                    ELSE IF row >= t.pad_y + t.resized_height THEN BelowImage(t, p)
                    ELSE IF col < t.pad_x THEN LeftOfImage(t, p, y)
                    ELSE IF col < t.pad_x + t.resized_width THEN ImageRow(t, p, y)
                    ELSE RightOfImage(t, p, y)
  <2>5. y \in rows \/ row < t.pad_y \/ row >= t.pad_y + t.resized_height
    BY <1>0, <2>2
  <2>6. One \in Writes(t) /\ Within(One, k)
    <3>1. CASE row < t.pad_y
      BY <2>3, <3>1, WritesAre
    <3>2. CASE ~(row < t.pad_y) /\ row >= t.pad_y + t.resized_height
      BY <2>3, <3>2, WritesAre
    <3>3. CASE ~(row < t.pad_y) /\ ~(row >= t.pad_y + t.resized_height)
      <4>1. y \in rows /\ row = t.pad_y + y
        BY <1>0, <2>2, <2>5, <3>3
      <4> HIDE DEF y
      <4>2. CASE col < t.pad_x
        BY <2>3, <3>3, <4>1, <4>2, WritesAre
      <4>3. CASE ~(col < t.pad_x) /\ col < t.pad_x + t.resized_width
        <5>1. t.pad_x <= col
          BY <1>0, <2>2, <4>3
        <5> QED  BY <2>3, <3>3, <4>1, <4>3, <5>1, WritesAre
      <4>4. CASE ~(col < t.pad_x) /\ ~(col < t.pad_x + t.resized_width)
        <5>1. t.pad_x + t.resized_width <= col
          BY <1>0, <2>2, <4>4
        <5> QED  BY <2>3, <3>3, <4>1, <4>4, <5>1, WritesAre
      <4> QED  BY <4>2, <4>3, <4>4
    <3> QED  BY <3>1, <3>2, <3>3
  <2>7. ASSUME NEW w \in Writes(t), Within(w, k) PROVE w = One
    <3>1. PICK q \in 0..2 :
             \/ w = AboveImage(t, q) \/ w = BelowImage(t, q)
             \/ \E dy \in rows :
                   w = LeftOfImage(t, q, dy) \/ w = ImageRow(t, q, dy) \/ w = RightOfImage(t, q, dy)
      BY WritesAre
    <3>2. CASE w = AboveImage(t, q)
      BY <2>3, <2>7, <3>2
    <3>3. CASE w = BelowImage(t, q)
      <4>1. q = p /\ row >= t.pad_y + t.resized_height
        BY <2>3, <2>7, <3>3
      <4>2. ~(row < t.pad_y)
        BY <1>0, <2>2, <4>1
      <4> QED  BY <3>3, <4>1, <4>2
    <3>4. ASSUME NEW dy \in rows,
                 w = LeftOfImage(t, q, dy) \/ w = ImageRow(t, q, dy) \/ w = RightOfImage(t, q, dy)
          PROVE  w = One
      <4>1. q = p /\ row = t.pad_y + dy
        BY <2>3, <2>7, <3>4
      <4>2. dy = y /\ ~(row < t.pad_y) /\ ~(row >= t.pad_y + t.resized_height)
        BY <1>0, <2>2, <4>1
      <4>3. CASE w = LeftOfImage(t, q, dy)
        <5>1. col < t.pad_x
          BY <2>3, <2>7, <4>3
        <5> QED  BY <4>1, <4>2, <4>3, <5>1
      <4>4. CASE w = ImageRow(t, q, dy)
        <5>1. t.pad_x <= col /\ col < t.pad_x + t.resized_width
          BY <2>3, <2>7, <4>4
        <5>2. ~(col < t.pad_x)
          BY <1>0, <2>2, <5>1
        <5> QED  BY <4>1, <4>2, <4>4, <5>1, <5>2
      <4>5. CASE w = RightOfImage(t, q, dy)
        <5>1. t.pad_x + t.resized_width <= col
          BY <2>3, <2>7, <4>5
        <5>2. ~(col < t.pad_x) /\ ~(col < t.pad_x + t.resized_width)
          BY <1>0, <2>2, <5>1
        <5> QED  BY <4>1, <4>2, <4>5, <5>2
      <4> QED  BY <3>4, <4>3, <4>4, <4>5
    <3> QED  BY <3>1, <3>2, <3>3, <3>4
  <2> HIDE DEF One, hit
  <2>8. hit = {One}
    BY <2>4, <2>6, <2>7
  <2>9. Cardinality({One}) = 1
    BY FS_Singleton
  <2>10. Cardinality(hit) = 1
    BY <2>8, <2>9
  <2> QED  BY <1>2, <2>10 DEF hit
<1> QED  BY <1>1, <1>2

\* What is known of the two source indices that resized index d blends: they
\* are indices of the source, and with f the floor of the position in the
\* source, or one less where the position is an integer, they enclose f and
\* f + 1 unless the border cuts them off.
Blends(e, size, resized, d) ==
    /\ e[1] \in 0..(size - 1) /\ e[2] \in 0..(size - 1)
    /\ \E f \in Int :
          /\ 2 * (resized * f) <= (2 * d + 1) * size - resized
          /\ (2 * d + 1) * size - resized <= 2 * (resized * f) + 2 * resized
          /\ e[1] = 0 \/ e[1] <= f
          /\ e[2] = size - 1 \/ e[2] >= f + 1

\* An entry of an axis table blends the two pixels around its position.
LEMMA AxisBlends ==
  ASSUME NEW size \in Nat \ {0}, NEW resized \in Nat, NEW d \in 0..(resized - 1),
         NEW below \in BOOLEAN
  PROVE  Blends(AxisEntry(size, resized, d, below), size, resized, d)
<1> DEFINE num == (2 * d + 1) * size - resized
           den == 2 * resized
           floor == IF below /\ num % den = 0 THEN num \div den - 1 ELSE num \div den
           lo == IF floor < 0 THEN 0 ELSE floor
           e == AxisEntry(size, resized, d, below)
<1>1. num \in Int /\ den \in Nat \ {0} /\ resized \in Nat \ {0}
  OBVIOUS
<1>2. e = IF lo >= size - 1 THEN <<size - 1, size - 1>> ELSE <<lo, lo + 1>>
  BY DEF AxisEntry
<1> HIDE DEF num, den, e
<1>3. /\ num \div den \in Int /\ num % den \in 0..(den - 1)
      /\ den * (num \div den) <= num /\ num < den * (num \div den) + den
      /\ num = den * (num \div den) + (num % den)
  BY <1>1, Division
<1>4. floor \in Int /\ den * floor <= num /\ num <= den * floor + den
  <2>1. CASE below /\ num % den = 0
    <3>1. floor = num \div den - 1
      BY <2>1
    <3>2. den * floor = den * (num \div den) - den
      BY <1>1, <1>3, <3>1
    <3>3. den * (num \div den) \in Int
      BY <1>1, <1>3
    <3> HIDE DEF floor
    <3> QED  BY <1>1, <1>3, <2>1, <3>1, <3>2, <3>3
  <2>2. CASE ~(below /\ num % den = 0)
    <3>1. floor = num \div den
      BY <2>2
    <3>3. den * (num \div den) \in Int
      BY <1>1, <1>3
    <3> HIDE DEF floor
    <3> QED  BY <1>1, <1>3, <3>1, <3>3
  <2> QED  BY <2>1, <2>2
<1> HIDE DEF floor
<1>5. den * floor = 2 * (resized * floor)
  BY <1>1, <1>4 DEF den
<1>6. /\ e[1] \in 0..(size - 1) /\ e[2] \in 0..(size - 1)
      /\ e[1] = 0 \/ e[1] <= floor
      /\ e[2] = size - 1 \/ e[2] >= floor + 1
  <2>1. lo \in Nat /\ lo >= floor /\ (lo = 0 \/ lo = floor)
    BY <1>4
  <2> HIDE DEF lo
  <2>2. CASE lo >= size - 1
    <3>1. e[1] = size - 1 /\ e[2] = size - 1
      BY <1>2, <2>2
    <3>2. size - 1 = 0 \/ size - 1 <= floor
      BY <1>4, <2>1, <2>2
    <3> QED  BY <3>1, <3>2
  <2>3. CASE ~(lo >= size - 1)
    <3>1. e[1] = lo /\ e[2] = lo + 1
      BY <1>2, <2>3
    <3> QED  BY <1>4, <2>1, <2>3, <3>1
  <2> QED  BY <2>2, <2>3
<1>7. num = (2 * d + 1) * size - resized /\ den = 2 * resized
  BY DEF num, den
<1>8. /\ 2 * (resized * floor) <= (2 * d + 1) * size - resized
      /\ (2 * d + 1) * size - resized <= 2 * (resized * floor) + 2 * resized
  BY <1>4, <1>5, <1>7
<1> QED  BY <1>4, <1>6, <1>8 DEF Blends, e

\* The tables of prepare(): every entry blends indices of the source.
AxisTable(table, size, resized) ==
    /\ DOMAIN table = 0..(resized - 1)
    /\ \A d \in 0..(resized - 1) : Blends(table[d], size, resized, d)

\* So does every entry of a table.
LEMMA TableBlends ==
  ASSUME NEW size \in Nat \ {0}, NEW resized \in Nat,
         NEW table \in build_axis(size, resized)
  PROVE  AxisTable(table, size, resized)
<1>1. PICK below \in [0..(resized - 1) -> BOOLEAN] :
        table = [d \in 0..(resized - 1) |-> AxisEntry(size, resized, d, below[d])]
  BY DEF build_axis
<1>2. ASSUME NEW d \in 0..(resized - 1) PROVE Blends(table[d], size, resized, d)
  <2>1. below[d] \in BOOLEAN /\ table[d] = AxisEntry(size, resized, d, below[d])
    BY <1>1
  <2> QED  BY <2>1, AxisBlends
<1> QED  BY <1>1, <1>2 DEF AxisTable

-----------------------------------------------------------------------------
\* What a Letterboxer holds once it is prepared for an image.
Prepared(r) ==
    /\ r.prepared \in ImageView /\ r.prepared.width > 0 /\ r.prepared.height > 0
    /\ r.transform \in compute_letterbox(r.prepared)
    /\ \E x \in build_axis(r.prepared.width, r.transform.resized_width) :
          r.x = ByteOffsets(x, channel_count(r.prepared.format))
    /\ r.y \in build_axis(r.prepared.height, r.transform.resized_height)

LetterboxRecord(r) ==
    r = [prepared |-> r.prepared, transform |-> r.transform, x |-> r.x, y |-> r.y,
         source |-> r.source, writes |-> r.writes, reads |-> r.reads]

\* The inductive invariant: the tables are those of the image they were built
\* for, and what the last run() wrote and read follows from them and from an
\* image of the same size and format.
LetterboxInv ==
    /\ LetterboxRecord(lb)
    /\ lb.prepared.width = -1 \/ Prepared(lb)
    /\ HasRun => /\ Prepared(lb) /\ lb.source = lb.prepared
                 /\ lb.writes = Writes(lb.transform) /\ lb.reads = Reads(lb, lb.source)

\* Nothing is written before the first call.
LEMMA LetterboxInit == Init => LetterboxInv
BY DEF Init, Init_lb, LetterboxInv, LetterboxRecord, HasRun

\* Every step of the letterboxer keeps its invariant.
LEMMA LetterboxStep == LetterboxInv /\ [Next]_vars => LetterboxInv'
<1> SUFFICES ASSUME LetterboxInv, Next_lb \/ UNCHANGED lb PROVE LetterboxInv'
  BY DEF Next, vars
<1>1. CASE run_lb
  <2>1. PICK source \in ImageView :
          /\ source.width > 0 /\ source.height > 0
          /\ \E ready \in prepare(source) :
               lb' = [ready EXCEPT !.source = source, !.writes = Writes(ready.transform),
                                   !.reads = Reads(ready, source)]
    BY <1>1 DEF run_lb
  <2>2. PICK ready \in prepare(source) :
           lb' = [ready EXCEPT !.source = source, !.writes = Writes(ready.transform),
                               !.reads = Reads(ready, source)]
    BY <2>1
  <2>3. LetterboxRecord(ready) /\ Prepared(ready) /\ ready.prepared = source
    <3>1. CASE PreparedFor(source)
      <4>1. ready = lb
        BY <3>1 DEF prepare
      <4>2. lb.prepared.width = source.width /\ lb.prepared.height = source.height
            /\ lb.prepared.format = source.format
        BY <3>1 DEF PreparedFor
      <4>3. Prepared(lb)
        <5>1. source.width # -1
          BY <2>1, LetterboxerAssumption DEF ImageView
        <5> QED  BY <4>2, <5>1 DEF LetterboxInv
      <4>4. lb.prepared = source
        BY <4>2, <4>3 DEF Prepared, ImageView
      <4> QED  BY <4>1, <4>3, <4>4 DEF LetterboxInv
    <3>2. CASE ~PreparedFor(source)
      <4> DEFINE ch == channel_count(source.format)
      <4>1. PICK t \in compute_letterbox(source) :
              ready \in { Rebuilt(source, t, x, y) : x \in build_axis(source.width, t.resized_width),
                                         y \in build_axis(source.height, t.resized_height) }
        BY <3>2 DEF prepare
      <4>2. PICK x \in build_axis(source.width, t.resized_width),
                 y \in build_axis(source.height, t.resized_height) :
              ready = Rebuilt(source, t, x, y)
        BY <4>1
      <4>3. ready = [lb EXCEPT !.prepared = source, !.transform = t,
                               !.x = ByteOffsets(x, ch), !.y = y]
        BY <4>2 DEF Rebuilt
      <4> HIDE DEF ch
      <4>4. ready = [prepared |-> source, transform |-> t, x |-> ByteOffsets(x, ch), y |-> y,
                     source |-> lb.source, writes |-> lb.writes, reads |-> lb.reads]
        BY <4>3 DEF LetterboxInv, LetterboxRecord
      <4>5. /\ ready.prepared = source /\ ready.transform = t /\ ready.x = ByteOffsets(x, ch)
            /\ ready.y = y /\ LetterboxRecord(ready)
        BY <4>4 DEF LetterboxRecord
      <4> QED  BY <2>1, <4>1, <4>2, <4>5 DEF Prepared, ch
    <3> QED  BY <3>1, <3>2
  <2>4. lb' = [prepared |-> ready.prepared, transform |-> ready.transform, x |-> ready.x,
               y |-> ready.y, source |-> source, writes |-> Writes(ready.transform),
               reads |-> Reads(ready, source)]
    BY <2>2, <2>3 DEF LetterboxRecord
  <2>5. /\ LetterboxRecord(lb') /\ lb'.prepared = ready.prepared
        /\ lb'.transform = ready.transform /\ lb'.x = ready.x /\ lb'.y = ready.y
        /\ lb'.source = source /\ lb'.writes = Writes(ready.transform)
        /\ lb'.reads = Reads(ready, source)
    BY <2>4 DEF LetterboxRecord
  <2>6. Prepared(lb')
    BY <2>3, <2>5 DEF Prepared
  <2>7. Reads(lb', source) = Reads(ready, source)
    BY <2>5 DEF Reads
  <2>8. lb'.source = lb'.prepared /\ lb'.writes = Writes(lb'.transform)
        /\ lb'.reads = Reads(lb', lb'.source)
    BY <2>3, <2>5, <2>7
  <2> QED  BY <2>5, <2>6, <2>8 DEF LetterboxInv, HasRun, Prepared, LetterboxRecord
<1>2. CASE UNCHANGED lb
  BY <1>2 DEF LetterboxInv, HasRun, Prepared, LetterboxRecord
<1> QED  BY <1>1, <1>2 DEF Next_lb, run_lb_throws

\* What the invariant says of a Letterboxer that has run.
LEMMA HasRunFacts ==
  ASSUME LetterboxInv, HasRun
  PROVE  LET s == lb.source
             t == lb.transform
             ch == channel_count(s.format)
         IN /\ s.width \in Nat \ {0} /\ s.height \in Nat \ {0} /\ s.format \in PixelFormat
            /\ ch \in {1, 3}
            /\ Fits(t) /\ t.source_width = s.width /\ t.source_height = s.height
            /\ AxisTable(lb.y, s.height, t.resized_height)
            /\ \E x : AxisTable(x, s.width, t.resized_width) /\ lb.x = ByteOffsets(x, ch)
            /\ lb.writes = Writes(t) /\ lb.reads = Reads(lb, s)
<1> DEFINE s == lb.source
           t == lb.transform
           ch == channel_count(s.format)
<1>1. /\ Prepared(lb) /\ s = lb.prepared
      /\ lb.writes = Writes(t) /\ lb.reads = Reads(lb, s)
  BY DEF LetterboxInv
<1>2. s.width \in Nat \ {0} /\ s.height \in Nat \ {0} /\ s.format \in PixelFormat
  <2>1. s \in ImageView /\ s.width > 0 /\ s.height > 0
    BY <1>1 DEF Prepared
  <2>2. s.width \in SourceSizes /\ s.height \in SourceSizes /\ s.format \in PixelFormat
    BY <2>1 DEF ImageView
  <2>3. s.width \in Nat /\ s.height \in Nat
    BY <2>2, LetterboxerAssumption
  <2> QED  BY <2>1, <2>2, <2>3
<1>3. ch \in {1, 3}
  BY DEF channel_count
<1>4. t \in compute_letterbox(s)
  BY <1>1 DEF Prepared
<1>5. Fits(t) /\ t.source_width = s.width /\ t.source_height = s.height
  BY <1>2, <1>4, LetterboxFits
<1>6. t.resized_width \in Nat /\ t.resized_height \in Nat
  BY <1>5 DEF Fits, AxisFits
<1>7. PICK x \in build_axis(s.width, t.resized_width) : lb.x = ByteOffsets(x, ch)
  BY <1>1 DEF Prepared
<1>8. lb.y \in build_axis(s.height, t.resized_height)
  BY <1>1 DEF Prepared
<1>9. AxisTable(x, s.width, t.resized_width)
  BY <1>2, <1>6, TableBlends
<1>10. AxisTable(lb.y, s.height, t.resized_height)
  BY <1>2, <1>6, <1>8, TableBlends
<1> QED  BY <1>1, <1>2, <1>3, <1>5, <1>7, <1>9, <1>10

\* Entries of the columns' table.
LEMMA OffsetsOf ==
  ASSUME NEW size \in Nat \ {0}, NEW resized \in Nat, NEW x, AxisTable(x, size, resized),
         NEW ch \in {1, 3}, NEW d \in 0..(resized - 1)
  PROVE  /\ d \in DOMAIN ByteOffsets(x, ch) /\ Blends(x[d], size, resized, d)
         /\ x[d][1] \in 0..(size - 1) /\ x[d][2] \in 0..(size - 1)
         /\ ByteOffsets(x, ch)[d][1] = x[d][1] * ch /\ ByteOffsets(x, ch)[d][2] = x[d][2] * ch
<1>1. d \in DOMAIN x /\ Blends(x[d], size, resized, d)
  BY DEF AxisTable
<1>2. x[d][1] \in 0..(size - 1) /\ x[d][2] \in 0..(size - 1)
  BY <1>1 DEF Blends
<1>3. ByteOffsets(x, ch)[d] = <<x[d][1] * ch, x[d][2] * ch>>
  BY <1>1 DEF ByteOffsets
<1>4. d \in DOMAIN ByteOffsets(x, ch)
  BY <1>1 DEF ByteOffsets
<1> QED  BY <1>1, <1>2, <1>3, <1>4

\* The ranges of the invariant cover every index of the tensor once.
LEMMA ExactlyOnce == LetterboxInv => LetterboxExact
<1> SUFFICES ASSUME LetterboxInv, HasRun
             PROVE  /\ \A k \in -1..tensor_size :
                          Cardinality({w \in lb.writes : w[1] <= k /\ k < w[2]})
                             = (IF k \in 0..(tensor_size - 1) THEN 1 ELSE 0)
                    /\ \A w \in lb.writes : 0 <= w[1] /\ w[1] <= w[2] /\ w[2] <= tensor_size
                    /\ \A r \in lb.reads :
                          /\ r[1] \in 0..(lb.source.height - 1)
                          /\ r[2] \in 0..(lb.source.width
                                          * channel_count(lb.source.format) - 1)
  BY DEF LetterboxExact
<1> DEFINE s == lb.source
           t == lb.transform
           ch == channel_count(s.format)
<1>1. /\ s.width \in Nat \ {0} /\ s.height \in Nat \ {0} /\ s.format \in PixelFormat
      /\ ch \in {1, 3} /\ Fits(t) /\ AxisTable(lb.y, s.height, t.resized_height)
      /\ \E x : AxisTable(x, s.width, t.resized_width) /\ lb.x = ByteOffsets(x, ch)
      /\ lb.writes = Writes(t) /\ lb.reads = Reads(lb, s)
  BY HasRunFacts
<1>2. PICK x : AxisTable(x, s.width, t.resized_width) /\ lb.x = ByteOffsets(x, ch)
  BY <1>1
<1>3. \A k \in -1..tensor_size :
         Cardinality({w \in Writes(t) : w[1] <= k /\ k < w[2]})
            = (IF k \in 0..(tensor_size - 1) THEN 1 ELSE 0)
  BY <1>1, WrittenOnce
<1>4. \A w \in Writes(t) : 0 <= w[1] /\ w[1] <= w[2] /\ w[2] <= tensor_size
  BY <1>1, RangesInside
<1>5. t.resized_width \in Nat /\ t.resized_height \in Nat
  BY <1>1 DEF Fits, AxisFits
<1>6. ASSUME NEW r \in Reads(lb, s)
      PROVE  r[1] \in 0..(s.height - 1) /\ r[2] \in 0..(s.width * ch - 1)
  <2>1. PICK dy \in 0..(t.resized_height - 1), dx \in 0..(t.resized_width - 1),
             i \in 1..2, j \in 1..2, p \in 1..3 :
           r = <<lb.y[dy][i], lb.x[dx][j] + ChannelOfPlane(s.format)[p]>>
    BY DEF Reads
  <2>2. r[1] = lb.y[dy][i] /\ r[2] = lb.x[dx][j] + ChannelOfPlane(s.format)[p]
    BY <2>1
  <2>3. (i = 1 \/ i = 2) /\ (j = 1 \/ j = 2) /\ (p = 1 \/ p = 2 \/ p = 3)
    OBVIOUS
  <2>4. lb.y[dy][i] \in 0..(s.height - 1)
    <3>1. lb.y[dy][1] \in 0..(s.height - 1) /\ lb.y[dy][2] \in 0..(s.height - 1)
      BY <1>1 DEF AxisTable, Blends
    <3> QED  BY <2>3, <3>1
  <2>5. /\ x[dx][1] \in 0..(s.width - 1) /\ x[dx][2] \in 0..(s.width - 1)
        /\ lb.x[dx][1] = x[dx][1] * ch /\ lb.x[dx][2] = x[dx][2] * ch
    BY <1>1, <1>2, <1>5, OffsetsOf
  <2>6. PICK e \in 0..(s.width - 1) : lb.x[dx][j] = e * ch
    BY <2>3, <2>5
  <2>7. PICK c \in Nat : c = ChannelOfPlane(s.format)[p] /\ c < ch
    <3>1. CASE s.format = "bgr8"
      BY <2>3, <3>1 DEF ChannelOfPlane, channel_count
    <3>2. CASE s.format = "rgb8"
      BY <2>3, <3>2 DEF ChannelOfPlane, channel_count
    <3>3. CASE s.format = "gray8"
      BY <2>3, <3>3 DEF ChannelOfPlane, channel_count
    <3> QED  BY <1>1, <3>1, <3>2, <3>3 DEF PixelFormat
  <2> HIDE DEF ch
  <2>8. e * ch + c \in 0..(s.width * ch - 1)
    <3>1. CASE ch = 1
      BY <1>1, <2>7, <3>1
    <3>2. CASE ch = 3
      BY <1>1, <2>7, <3>2
    <3> QED  BY <1>1, <3>1, <3>2
  <2> QED  BY <2>2, <2>4, <2>6, <2>7, <2>8
<1> QED  BY <1>1, <1>3, <1>4, <1>6

\* Each run() writes every element of the tensor exactly once and nothing
\* outside it, and reads only bytes of its own image, for every size of the
\* tensor and every sequence of images.
THEOREM LetterboxExactHolds == Spec => []LetterboxExact
<1> QED  BY LetterboxInit, LetterboxStep, ExactlyOnce, PTL DEF Spec

-----------------------------------------------------------------------------
\* The centre of resized index d, taken back to the source, is within half a
\* model pixel of what was blended into it.
LEMMA CentreMapsBack ==
  ASSUME NEW t, NEW size, NEW resized, NEW pad, NEW target \in Nat,
         AxisFits(t, size, resized, pad, target), NEW d \in 0..(resized - 1),
         NEW e, Blends(e, size, resized, d)
  PROVE  LET back == to_source(t, (2 * (pad + d) + 1) * t.den, 2 * pad, 2 * size)
         IN /\ back >= 2 * t.num * e[1] - t.den
            /\ back <= 2 * t.num * (e[2] + 1) + t.den
<1> DEFINE num == t.num
           den == t.den
           A == 2 * d + 1
           back == to_source(t, (2 * (pad + d) + 1) * t.den, 2 * pad, 2 * size)
           SN == size * num
           RD == den * resized
<1>1. /\ size \in Nat \ {0} /\ num \in Nat \ {0} /\ den \in Nat \ {0} /\ pad \in Nat
      /\ resized \in Nat \ {0} /\ SN \in Nat /\ RD \in Nat
      /\ 2 * SN <= 2 * RD + den /\ 2 * RD <= 2 * SN + den
  BY DEF AxisFits
<1>2. A \in Nat /\ A <= 2 * resized - 1
  BY <1>1
<1>3. /\ e[1] \in 0..(size - 1) /\ e[2] \in 0..(size - 1)
  BY DEF Blends
<1>4. PICK f \in Int :
          /\ 2 * (resized * f) <= A * size - resized
          /\ A * size - resized <= 2 * (resized * f) + 2 * resized
          /\ e[1] = 0 \/ e[1] <= f
          /\ e[2] = size - 1 \/ e[2] >= f + 1
  BY DEF Blends
<1>5. back = Clamp(A * den, 0, 2 * SN)
  <2>1. (2 * (pad + d) + 1) * den - 2 * pad * den = A * den
    BY <1>1
  <2>2. 2 * size * num = 2 * SN
    BY <1>1
  <2> QED  BY <2>1, <2>2 DEF to_source
<1>6. A * den \in Nat
  BY <1>1, <1>2
<1> HIDE DEF back, A, SN, RD
<1>7. back \in Nat /\ back <= 2 * SN /\ back <= A * den /\ (back = 2 * SN \/ back = A * den)
  BY <1>1, <1>5, <1>6 DEF Clamp
\* Products with the scale, as one term each.
<1>8. /\ A * SN \in Int /\ A * RD \in Int /\ A * den \in Int /\ resized * num \in Nat
      /\ resized * den \in Int /\ resized * den = RD /\ num * f \in Int
      /\ resized * (A * den) = A * RD /\ num * (A * size) = A * SN
      /\ num * (resized * f) = resized * (num * f)
      /\ num * resized = resized * num /\ A * size \in Int /\ resized * f \in Int
  BY <1>1, <1>2 DEF SN, RD
<1>9. 2 * (resized * (num * f)) <= A * SN - resized * num
  <2>1. num * (2 * (resized * f)) <= num * (A * size - resized)
    BY <1>1, <1>4, <1>8, ProductMonotone
  <2>2. num * (A * size - resized) = num * (A * size) - num * resized
    BY <1>1, <1>8
  <2>3. num * (2 * (resized * f)) = 2 * (num * (resized * f))
    BY <1>1, <1>8
  <2> QED  BY <1>8, <2>1, <2>2, <2>3
<1>10. A * SN - resized * num <= 2 * (resized * (num * f)) + 2 * (resized * num)
  <2>1. num * (A * size - resized) <= num * (2 * (resized * f) + 2 * resized)
    BY <1>1, <1>4, <1>8, ProductMonotone
  <2>2. num * (A * size - resized) = num * (A * size) - num * resized
    BY <1>1, <1>8
  <2>3. num * (2 * (resized * f) + 2 * resized) = 2 * (num * (resized * f)) + 2 * (num * resized)
    BY <1>1, <1>8
  <2> QED  BY <1>8, <2>1, <2>2, <2>3
<1>11. A * den <= 2 * RD - den
  <2>1. den * A <= den * (2 * resized - 1)
    BY <1>1, <1>2, ProductMonotone
  <2>2. den * (2 * resized - 1) = 2 * RD - den /\ den * A = A * den
    BY <1>1, <1>2 DEF RD
  <2> QED  BY <2>1, <2>2
<1>12. 2 * (A * SN) <= 2 * (A * RD) + A * den /\ 2 * (A * RD) <= 2 * (A * SN) + A * den
  <2>1. A * (2 * SN) <= A * (2 * RD + den) /\ A * (2 * RD) <= A * (2 * SN + den)
    BY <1>1, <1>2, ProductMonotone
  <2>2. /\ A * (2 * SN) = 2 * (A * SN) /\ A * (2 * RD) = 2 * (A * RD)
        /\ A * (2 * RD + den) = 2 * (A * RD) + A * den
        /\ A * (2 * SN + den) = 2 * (A * SN) + A * den
    BY <1>1, <1>2
  <2> QED  BY <2>1, <2>2
<1>13. 2 * (num * f) <= A * den + den
  <2> DEFINE L == 2 * (num * f)
             H == A * den + den
  <2>1. resized * L = 2 * (resized * (num * f)) /\ resized * H = A * RD + RD
    BY <1>1, <1>8
  <2>2. resized * (num * f) \in Int
    BY <1>1, <1>8
  <2>3. 2 * (resized * L) <= 2 * (resized * H)
    BY <1>1, <1>8, <1>9, <1>11, <1>12, <2>1, <2>2
  <2>4. L \in Int /\ H \in Int /\ resized * L \in Int /\ resized * H \in Int
    BY <1>1, <1>8
  <2> HIDE DEF L, H
  <2>5. resized * L < resized * H + resized
    BY <1>1, <2>3, <2>4
  <2>6. L <= H
    BY <1>1, <2>4, <2>5, ProductCancels
  <2> QED  BY <2>6 DEF L, H
<1>14. A * den <= 2 * (num * f) + 4 * num + den
  <2> DEFINE L == A * den
             H == 2 * (num * f) + 4 * num + den
  <2>1. resized * L = A * RD
        /\ resized * H = 2 * (resized * (num * f)) + 4 * (resized * num) + RD
    BY <1>1, <1>8
  <2>2. resized * (num * f) \in Int
    BY <1>1, <1>8
  <2>3. 2 * (resized * L) <= 2 * (resized * H)
    BY <1>1, <1>8, <1>10, <1>11, <1>12, <2>1, <2>2
  <2>4. L \in Int /\ H \in Int /\ resized * L \in Int /\ resized * H \in Int
    BY <1>1, <1>8
  <2> HIDE DEF L, H
  <2>5. resized * L < resized * H + resized
    BY <1>1, <2>3, <2>4
  <2>6. L <= H
    BY <1>1, <2>4, <2>5, ProductCancels
  <2> QED  BY <2>6 DEF L, H
<1>15. back >= 2 * num * e[1] - den
  <2>1. CASE back = 2 * SN
    <3>1. num * e[1] <= num * size /\ num * e[1] \in Int
      BY <1>1, <1>3, ProductMonotone
    <3>2. num * size = SN /\ 2 * num * e[1] = 2 * (num * e[1])
      BY <1>1, <1>3 DEF SN
    <3> QED  BY <1>1, <2>1, <3>1, <3>2
  <2>2. CASE e[1] = 0
    BY <1>1, <1>7, <2>2
  <2>3. CASE back = A * den /\ e[1] <= f
    <3>1. num * e[1] <= num * f /\ num * e[1] \in Int
      BY <1>1, <1>3, <2>3, ProductMonotone
    <3>2. 2 * num * e[1] = 2 * (num * e[1])
      BY <1>1, <1>3
    <3> QED  BY <1>1, <1>8, <1>13, <2>3, <3>1, <3>2
  <2> QED  BY <1>4, <1>7, <2>1, <2>2, <2>3
<1>16. back <= 2 * num * (e[2] + 1) + den
  <2>0. 2 * num * (e[2] + 1) = 2 * (num * (e[2] + 1)) /\ num * (e[2] + 1) \in Int
    BY <1>1, <1>3
  <2>1. CASE e[2] = size - 1
    <3>1. num * (e[2] + 1) = SN
      BY <1>1, <2>1 DEF SN
    <3> QED  BY <1>1, <1>7, <2>0, <3>1
  <2>2. CASE e[2] >= f + 1
    <3>1. num * (f + 2) <= num * (e[2] + 1)
      BY <1>1, <1>3, <2>2, ProductMonotone
    <3>2. num * (f + 2) = num * f + 2 * num
      BY <1>1
    <3> QED  BY <1>1, <1>7, <1>8, <1>14, <2>0, <3>1, <3>2
  <2> QED  BY <1>4, <2>1, <2>2
<1> QED  BY <1>15, <1>16 DEF back

\* A coordinate of the source goes into the tensor and comes back.
LEMMA BoxReturns ==
  ASSUME NEW t, NEW size, NEW resized, NEW pad, NEW target \in Nat,
         AxisFits(t, size, resized, pad, target), NEW x \in 0..size
  PROVE  /\ to_source(t, to_model(t, x, pad), pad, size) = x * t.num
         /\ to_model(t, x, pad) \in 0..(target * t.den)
<1> DEFINE num == t.num
           den == t.den
           XN == x * num
           PD == pad * den
           SN == size * num
           RD == den * resized
           TD == target * den
<1>1. /\ size \in Nat \ {0} /\ num \in Nat \ {0} /\ den \in Nat \ {0} /\ pad \in Nat
      /\ resized \in Nat /\ resized <= target /\ 2 * pad <= target - resized
      /\ size * num <= den * target /\ 2 * SN <= 2 * RD + den
  BY DEF AxisFits
<1>2. /\ XN \in Nat /\ PD \in Nat /\ SN \in Nat /\ RD \in Nat /\ TD \in Nat
      /\ XN = num * x /\ SN = num * size /\ TD = den * target /\ PD = den * pad
  BY <1>1
<1>3. XN <= SN
  BY <1>1, <1>2, ProductMonotone
<1>4. to_model(t, x, pad) = XN + PD
  BY DEF to_model
<1>5. SN + PD <= TD
  <2>1. CASE resized = target
    <3>1. pad = 0
      BY <1>1, <2>1
    <3>2. PD = 0
      BY <1>1, <3>1
    <3> QED  BY <1>1, <1>2, <3>2
  <2>2. CASE resized # target
    <3>1. resized + pad + 1 <= target
      BY <1>1, <2>2
    <3>2. den * (resized + pad + 1) <= den * target
      BY <1>1, <3>1, ProductMonotone
    <3>3. den * (resized + pad + 1) = RD + PD + den
      BY <1>1
    <3> HIDE DEF SN, RD, PD, TD
    <3> QED  BY <1>1, <1>2, <3>2, <3>3
  <2> QED  BY <2>1, <2>2
<1>6. to_source(t, XN + PD, pad, size) = Clamp(XN + PD - PD, 0, SN)
  BY <1>1, <1>2 DEF to_source, Clamp
<1> HIDE DEF XN, PD, SN, RD, TD
<1>7. Clamp(XN + PD - PD, 0, SN) = XN
  BY <1>2, <1>3 DEF Clamp
<1>8. XN + PD \in 0..TD
  BY <1>2, <1>3, <1>5
<1> QED  BY <1>4, <1>6, <1>7, <1>8 DEF XN, TD

\* Geometry that fits maps the pixels of the target back.
LEMMA MapsBack == LetterboxInv => PixelsMapBack
<1> SUFFICES ASSUME LetterboxInv, HasRun PROVE PixelsMapBack
  BY DEF PixelsMapBack
<1> DEFINE s == lb.source
           t == lb.transform
           ch == channel_count(s.format)
<1>1. /\ s.width \in Nat \ {0} /\ s.height \in Nat \ {0} /\ ch \in {1, 3} /\ Fits(t)
      /\ t.source_width = s.width /\ t.source_height = s.height
      /\ AxisTable(lb.y, s.height, t.resized_height)
      /\ \E x : AxisTable(x, s.width, t.resized_width) /\ lb.x = ByteOffsets(x, ch)
  BY HasRunFacts
<1>2. PICK x : AxisTable(x, s.width, t.resized_width) /\ lb.x = ByteOffsets(x, ch)
  BY <1>1
<1>3. /\ AxisFits(t, s.width, t.resized_width, t.pad_x, TargetWidth)
      /\ AxisFits(t, s.height, t.resized_height, t.pad_y, TargetHeight)
      /\ TargetWidth \in Nat /\ TargetHeight \in Nat
      /\ t.resized_width \in Nat /\ t.resized_height \in Nat
  BY <1>1, LetterboxerAssumption DEF Fits, AxisFits
<1> DEFINE Back(d, pad, size) == to_source(t, (2 * (pad + d) + 1) * t.den, 2 * pad, 2 * size)
           Close(d, lo, hi, pad, size) ==
              /\ Back(d, pad, size) >= 2 * t.num * lo - t.den
              /\ Back(d, pad, size) <= 2 * t.num * (hi + 1) + t.den
           Returns(z, pad, size, target) ==
              /\ to_source(t, to_model(t, z, pad), pad, size) = z * t.num
              /\ to_model(t, z, pad) \in 0..(target * t.den)
<1>4. ASSUME NEW d \in DOMAIN lb.x
      PROVE  Close(d, lb.x[d][1] \div ch, lb.x[d][2] \div ch, t.pad_x, s.width)
  <2>1. d \in 0..(t.resized_width - 1)
    <3>1. DOMAIN lb.x = DOMAIN x
      BY <1>2 DEF ByteOffsets
    <3> QED  BY <1>2, <3>1 DEF AxisTable
  <2>2. /\ Blends(x[d], s.width, t.resized_width, d)
        /\ x[d][1] \in 0..(s.width - 1) /\ x[d][2] \in 0..(s.width - 1)
        /\ lb.x[d][1] = x[d][1] * ch /\ lb.x[d][2] = x[d][2] * ch
    BY <1>1, <1>2, <1>3, <2>1, OffsetsOf
  <2>3. lb.x[d][1] \div ch = x[d][1] /\ lb.x[d][2] \div ch = x[d][2]
    <3> HIDE DEF ch
    <3>1. CASE ch = 1
      BY <1>1, <2>2, <3>1
    <3>2. CASE ch = 3
      BY <1>1, <2>2, <3>2
    <3> QED  BY <1>1, <3>1, <3>2
  <2>4. Close(d, x[d][1], x[d][2], t.pad_x, s.width)
    BY <1>3, <2>1, <2>2, CentreMapsBack
  <2> QED  BY <2>3, <2>4
<1>5. ASSUME NEW d \in DOMAIN lb.y
      PROVE  Close(d, lb.y[d][1], lb.y[d][2], t.pad_y, s.height)
  <2>1. d \in 0..(t.resized_height - 1) /\ Blends(lb.y[d], s.height, t.resized_height, d)
    BY <1>1 DEF AxisTable
  <2> QED  BY <1>3, <2>1, CentreMapsBack
<1>6. \A z \in 0..s.width : Returns(z, t.pad_x, s.width, TargetWidth)
  BY <1>3, BoxReturns
<1>7. \A z \in 0..s.height : Returns(z, t.pad_y, s.height, TargetHeight)
  BY <1>3, BoxReturns
<1> HIDE DEF ch
<1> QED  BY <1>4, <1>5, <1>6, <1>7 DEF PixelsMapBack, ch

\* The centre of every model pixel goes back to within half a model pixel of
\* the source pixels it was made of, and every coordinate of the image goes
\* into the tensor and comes back unchanged, for all sizes.
THEOREM PixelsMapBackHolds == Spec => []PixelsMapBack
<1> QED  BY LetterboxInit, LetterboxStep, MapsBack, PTL DEF Spec

-----------------------------------------------------------------------------
(* Decoding.                                                                 *)

\* Indices of a matrix that is stored row by row are within it and distinct.
LEMMA MatrixIndex ==
  ASSUME NEW rows \in Nat, NEW width \in Nat, NEW r \in 0..(rows - 1), NEW c \in 0..(width - 1)
  PROVE  /\ r * width + c \in 0..(rows * width - 1)
         /\ \A q \in 0..(rows - 1), d \in 0..(width - 1) :
               q * width + d = r * width + c => q = r /\ d = c
<1>1. rows \in Nat \ {0} /\ width \in Nat \ {0}
  OBVIOUS
<1>2. width * r <= width * (rows - 1)
  BY <1>1, ProductMonotone
<1>3. /\ width * r = r * width /\ width * (rows - 1) = rows * width - width
      /\ r * width \in Nat /\ rows * width \in Nat
  BY <1>1
<1>4. r * width + c \in 0..(rows * width - 1)
  BY <1>1, <1>2, <1>3
<1>5. ASSUME NEW q \in 0..(rows - 1), NEW d \in 0..(width - 1), q * width + d = r * width + c
      PROVE  q = r /\ d = c
  <2>1. q * width + d <= r * width + c <=> (q < r \/ (q = r /\ d <= c))
    BY <1>1, PairOrder
  <2>2. r * width + c <= q * width + d <=> (r < q \/ (r = q /\ c <= d))
    BY <1>1, PairOrder
  <2>3. q * width + d \in Int /\ r * width + c \in Int
    BY <1>1
  <2> QED  BY <1>5, <2>1, <2>2, <2>3
<1> QED  BY <1>4, <1>5

LayoutRecords == [num_anchors : Nat \ {0}, num_classes : Nat \ {0}, channels_first : BOOLEAN]

\* The places of a head's values are distinct indices of the tensor.
LEMMA Places ==
  ASSUME NEW layout \in LayoutRecords,
         NEW k \in 0..(3 + layout.num_classes), NEW a \in 0..(layout.num_anchors - 1)
  PROVE  /\ Place(layout, k, a) \in 0..(HeadSize(layout) - 1)
         /\ \A l \in 0..(3 + layout.num_classes), b \in 0..(layout.num_anchors - 1) :
               Place(layout, l, b) = Place(layout, k, a) => l = k /\ b = a
<1> DEFINE n == layout.num_anchors
           stride == 4 + layout.num_classes
<1>1. n \in Nat /\ stride \in Nat /\ layout.channels_first \in BOOLEAN
      /\ layout.num_classes \in Nat
  BY DEF LayoutRecords
<1>2. k \in 0..(stride - 1) /\ a \in 0..(n - 1)
  BY <1>1
<1>3. HeadSize(layout) = n * stride /\ n * stride = stride * n
  BY <1>1 DEF HeadSize
<1>4. CASE layout.channels_first
  <2>1. \A l, b : Place(layout, l, b) = l * n + b
    BY <1>4 DEF Place
  <2> HIDE DEF n, stride
  <2>2. /\ k * n + a \in 0..(stride * n - 1)
        /\ \A l \in 0..(stride - 1), b \in 0..(n - 1) : l * n + b = k * n + a => l = k /\ b = a
    BY <1>1, <1>2, MatrixIndex
  <2>3. \A l \in 0..(3 + layout.num_classes) : l \in 0..(stride - 1)
    BY <1>1 DEF stride
  <2> QED  BY <1>3, <2>1, <2>2, <2>3 DEF n
<1>5. CASE ~layout.channels_first
  <2>1. \A l, b : Place(layout, l, b) = b * stride + l
    BY <1>5 DEF Place
  <2> HIDE DEF n, stride
  <2>2. /\ a * stride + k \in 0..(n * stride - 1)
        /\ \A b \in 0..(n - 1), l \in 0..(stride - 1) :
              b * stride + l = a * stride + k => b = a /\ l = k
    BY <1>1, <1>2, MatrixIndex
  <2>3. \A l \in 0..(3 + layout.num_classes) : l \in 0..(stride - 1)
    BY <1>1 DEF stride
  <2> QED  BY <1>3, <2>1, <2>2, <2>3 DEF n
<1> QED  BY <1>4, <1>5

\* c is the first class up to m with the largest score of anchor a.
FirstBest(layout, raw, a, c, m) ==
    /\ c \in 0..m
    /\ \A d \in 0..m : raw[Place(layout, 4 + d, a)] <= raw[Place(layout, 4 + c, a)]
    /\ \A d \in 0..(c - 1) : raw[Place(layout, 4 + d, a)] < raw[Place(layout, 4 + c, a)]

BestClass(layout, raw, a, c) == FirstBest(layout, raw, a, c, layout.num_classes - 1)

HeadTensors(layout) == [0..(HeadSize(layout) - 1) -> Nat]

\* The scores of a head are numbers.
LEMMA HeadValues ==
  ASSUME NEW layout \in LayoutRecords, NEW raw \in HeadTensors(layout),
         NEW a \in 0..(layout.num_anchors - 1)
  PROVE  /\ \A k \in 0..(3 + layout.num_classes) : raw[Place(layout, k, a)] \in Nat
         /\ \A d \in 0..(layout.num_classes - 1) : raw[Place(layout, 4 + d, a)] \in Nat
<1>1. \A k \in 0..(3 + layout.num_classes) : Place(layout, k, a) \in 0..(HeadSize(layout) - 1)
  BY Places
<1>2. \A k \in 0..(3 + layout.num_classes) : raw[Place(layout, k, a)] \in Nat
  BY <1>1 DEF HeadTensors
<1>3. layout.num_classes \in Nat
  BY DEF LayoutRecords
<1>4. \A d \in 0..(layout.num_classes - 1) : 4 + d \in 0..(3 + layout.num_classes)
  BY <1>3
<1> QED  BY <1>2, <1>4

\* There is one best class.
LEMMA BestClassUnique ==
  ASSUME NEW layout \in LayoutRecords, NEW raw \in HeadTensors(layout),
         NEW a \in 0..(layout.num_anchors - 1), NEW c, NEW d,
         BestClass(layout, raw, a, c), BestClass(layout, raw, a, d)
  PROVE  c = d
<1> DEFINE S(x) == raw[Place(layout, 4 + x, a)]
           C == 0..(layout.num_classes - 1)
<1>1. c \in C /\ d \in C
  BY DEF BestClass, FirstBest
<1>2. \A x \in C : S(x) \in Nat
  BY HeadValues
<1>3. S(c) <= S(d) /\ S(d) <= S(c)
  BY <1>1 DEF BestClass, FirstBest
<1>4. (\A x \in 0..(c - 1) : S(x) < S(c)) /\ (\A x \in 0..(d - 1) : S(x) < S(d))
  BY DEF BestClass, FirstBest
<1> HIDE DEF S
<1>5. layout.num_classes \in Nat
  BY DEF LayoutRecords
<1>6. CASE c < d
  <2>1. c \in 0..(d - 1)
    BY <1>1, <1>5, <1>6
  <2> QED  BY <1>1, <1>2, <1>3, <1>4, <2>1
<1>7. CASE d < c
  <2>1. d \in 0..(c - 1)
    BY <1>1, <1>5, <1>7
  <2> QED  BY <1>1, <1>2, <1>3, <1>4, <2>1
<1> QED  BY <1>1, <1>5, <1>6, <1>7

\* One more class in the comparison.
LEMMA BestOfMore ==
  ASSUME NEW layout \in LayoutRecords, NEW raw \in HeadTensors(layout),
         NEW a \in 0..(layout.num_anchors - 1), NEW m \in 0..(layout.num_classes - 2),
         NEW c, FirstBest(layout, raw, a, c, m)
  PROVE  LET old == raw[Place(layout, 4 + c, a)]
             new == raw[Place(layout, 4 + (m + 1), a)]
         IN FirstBest(layout, raw, a, IF new > old THEN m + 1 ELSE c, m + 1)
<1> DEFINE S(x) == raw[Place(layout, 4 + x, a)]
<1>1. layout.num_classes \in Nat
  BY DEF LayoutRecords
<1>2. \A x \in 0..(layout.num_classes - 1) : S(x) \in Nat
  BY HeadValues
<1>3. \A x \in 0..(m + 1) : S(x) \in Nat
  <2> HIDE DEF S
  <2>1. \A x \in 0..(m + 1) : x \in 0..(layout.num_classes - 1)
    BY <1>1
  <2> QED  BY <1>2, <2>1
<1>4. /\ c \in 0..m /\ \A d \in 0..m : S(d) <= S(c)
      /\ \A d \in 0..(c - 1) : S(d) < S(c)
  BY DEF FirstBest
<1>5. c \in 0..(m + 1) /\ m + 1 \in 0..(m + 1) /\ m \in Nat
  BY <1>1, <1>4
<1> HIDE DEF S
<1>6. CASE S(m + 1) > S(c)
  <2>1. \A d \in 0..(m + 1) : S(d) <= S(m + 1)
    <3>1. ASSUME NEW d \in 0..(m + 1) PROVE S(d) <= S(m + 1)
      <4>1. CASE d = m + 1
        BY <1>3, <4>1
      <4>2. CASE d \in 0..m
        BY <1>3, <1>4, <1>5, <1>6, <4>2
      <4> QED  BY <1>5, <4>1, <4>2
    <3> QED  BY <3>1
  <2>2. \A d \in 0..m : S(d) < S(m + 1)
    BY <1>3, <1>4, <1>5, <1>6
  <2>3. m + 1 - 1 = m
    BY <1>5
  <2> QED  BY <1>5, <1>6, <2>1, <2>2, <2>3 DEF FirstBest, S
<1>7. CASE ~(S(m + 1) > S(c))
  <2>1. \A d \in 0..(m + 1) : S(d) <= S(c)
    <3>1. ASSUME NEW d \in 0..(m + 1) PROVE S(d) <= S(c)
      <4>1. CASE d = m + 1
        BY <1>3, <1>5, <1>7, <4>1
      <4>2. CASE d \in 0..m
        BY <1>4, <4>2
      <4> QED  BY <1>5, <4>1, <4>2
    <3> QED  BY <3>1
  <2> QED  BY <1>4, <1>5, <1>7, <2>1 DEF FirstBest, S
<1> QED  BY <1>6, <1>7 DEF S

\* Every anchor has a best class.
LEMMA BestClassExists ==
  ASSUME NEW layout \in LayoutRecords, NEW raw \in HeadTensors(layout),
         NEW a \in 0..(layout.num_anchors - 1)
  PROVE  \E c : BestClass(layout, raw, a, c)
<1> DEFINE N == layout.num_classes - 1
           S == {m \in 0..N : \E c : FirstBest(layout, raw, a, c, m)}
<1>1. N \in Nat /\ layout.num_classes \in Nat
  BY DEF LayoutRecords
<1>2. 0 \in S
  <2>1. raw[Place(layout, 4 + 0, a)] \in Nat
    BY <1>1, HeadValues
  <2>2. FirstBest(layout, raw, a, 0, 0)
    BY <2>1 DEF FirstBest
  <2> QED  BY <1>1, <2>2
<1>3. ASSUME NEW m \in 0..(N - 1), m \in S PROVE m + 1 \in S
  <2>1. PICK c : FirstBest(layout, raw, a, c, m)
    BY <1>3
  <2>2. m \in 0..(layout.num_classes - 2)
    BY <1>1
  <2>3. \E d : FirstBest(layout, raw, a, d, m + 1)
    BY <2>1, <2>2, BestOfMore
  <2> QED  BY <1>1, <2>3
<1> HIDE DEF S
<1>4. \A m \in 0..N : m \in S
  BY <1>1, <1>2, <1>3, InductionUpTo
<1> QED  BY <1>1, <1>4 DEF S, BestClass

\* The class-major scan leaves the best class of each anchor and its score in
\* the scratch vectors.
LEMMA ScanFinds ==
  ASSUME NEW dec, dec.layout \in LayoutRecords, dec.layout.channels_first,
         NEW raw \in HeadTensors(dec.layout), NEW a \in 0..(dec.layout.num_anchors - 1)
  PROVE  LET b == ScanClasses(dec, raw)[a]
         IN /\ BestClass(dec.layout, raw, a, b.class)
            /\ b.score = raw[Place(dec.layout, 4 + b.class, a)]
<1> DEFINE layout == dec.layout
           n == layout.num_anchors
           N == layout.num_classes - 1
           anchors == 0..(n - 1)
           Pair == [score : Nat, class : Nat]
           V == [anchors -> Pair]
           R(c, i) == raw[(4 + c) * n + i]
           start == [i \in anchors |-> [score |-> raw[4 * n + i], class |-> 0]]
           Scan(v, c) == [i \in anchors |-> IF R(c, i) > v[i].score
                                            THEN [score |-> R(c, i), class |-> c] ELSE v[i]]
           step == [p \in V \X (1..N) |-> Scan(p[1], p[2])]
           Unfolds(f) ==
              f = [c \in 0..N |->
                     [i \in anchors |->
                        IF c = 0 THEN [score |-> raw[4 * n + i], class |-> 0]
                        ELSE IF raw[(4 + c) * n + i] > f[c - 1][i].score
                        THEN [score |-> raw[(4 + c) * n + i], class |-> c]
                        ELSE f[c - 1][i]]]
<1>1. n \in Nat \ {0} /\ N \in Nat /\ layout.num_classes \in Nat
  BY DEF LayoutRecords
<1>2. \A k, i : Place(layout, k, i) = k * n + i
  BY DEF Place
<1>3. ASSUME NEW c \in 0..N, NEW i \in anchors PROVE R(c, i) \in Nat
  <2>1. raw[Place(layout, 4 + c, i)] \in Nat
    BY HeadValues
  <2> QED  BY <1>2, <2>1
<1>4. start \in V
  <2>1. ASSUME NEW i \in anchors PROVE raw[4 * n + i] \in Nat
    <3>1. R(0, i) \in Nat
      BY <1>1, <1>3
    <3> QED  BY <3>1
  <2> QED  BY <2>1
<1> HIDE DEF R
<1>5. ASSUME NEW v \in V, NEW c \in 1..N PROVE Scan(v, c) \in V
  <2>1. ASSUME NEW i \in anchors
        PROVE  (IF R(c, i) > v[i].score THEN [score |-> R(c, i), class |-> c] ELSE v[i]) \in Pair
    <3>1. R(c, i) \in Nat /\ c \in Nat
      BY <1>1, <1>3
    <3>2. v[i] \in Pair
      OBVIOUS
    <3> QED  BY <3>1, <3>2
  <2> HIDE DEF Pair, anchors
  <2> QED  BY <2>1
<1>6. step \in [V \X (1..N) -> V]
  <2> HIDE DEF Scan, V
  <2> QED  BY <1>5
<1>7. ASSUME NEW v \in V, NEW c \in 1..N PROVE step[<<v, c>>] = Scan(v, c)
  <2> HIDE DEF Scan, V
  <2> QED  OBVIOUS
<1> HIDE DEF step
<1>8. PICK f : SolvesUpTo(f, N, V, start, step)
  <2> HIDE DEF V, start
  <2> QED  BY <1>1, <1>4, <1>6, RecursionUpTo
<1>9. /\ f \in [0..N -> V] /\ f[0] = start
      /\ \A c \in 1..N : f[c] = Scan(f[c - 1], c)
  <2>1. f \in [0..N -> V] /\ f[0] = start /\ \A c \in 1..N : f[c] = step[<<f[c - 1], c>>]
    BY <1>8 DEF SolvesUpTo
  <2>2. \A c \in 1..N : f[c - 1] \in V
    <3> HIDE DEF V, start
    <3>1. \A c \in 1..N : c - 1 \in 0..N
      BY <1>1
    <3> QED  BY <2>1, <3>1
  <2> HIDE DEF Scan, V
  <2> QED  BY <1>7, <2>1, <2>2
<1>10. Unfolds(f)
  <2> DEFINE Row(c) == [i \in anchors |->
                        IF c = 0 THEN [score |-> raw[4 * n + i], class |-> 0]
                        ELSE IF raw[(4 + c) * n + i] > f[c - 1][i].score
                        THEN [score |-> raw[(4 + c) * n + i], class |-> c]
                        ELSE f[c - 1][i]]
  <2>1. ASSUME NEW c \in 0..N PROVE f[c] = Row(c)
    <3>1. CASE c = 0
      BY <1>9, <3>1
    <3>2. CASE c # 0
      <4>1. c \in 1..N
        BY <1>1, <3>2
      <4>2. f[c] = Scan(f[c - 1], c)
        BY <1>9, <4>1
      <4> QED  BY <3>2, <4>2 DEF R
    <3> QED  BY <3>1, <3>2
  <2>2. f = [c \in 0..N |-> f[c]]
    BY <1>9
  <2>3. f = [c \in 0..N |-> Row(c)]
    <3> HIDE DEF Row
    <3> QED  BY <2>1, <2>2
  <2> QED  BY <2>3
<1> DEFINE g == CHOOSE h : Unfolds(h)
<1>11. ScanClasses(dec, raw) = g[N]
  BY DEF ScanClasses
<1>12. Unfolds(g)
  <2> HIDE DEF Unfolds
  <2> QED  BY <1>10
<1> HIDE DEF g
<1>13. /\ \A i \in anchors : g[0][i] = [score |-> R(0, i), class |-> 0]
       /\ \A c \in 1..N, i \in anchors :
             g[c][i] = IF R(c, i) > g[c - 1][i].score
                       THEN [score |-> R(c, i), class |-> c] ELSE g[c - 1][i]
  <2>1. ASSUME NEW i \in anchors PROVE g[0][i] = [score |-> R(0, i), class |-> 0]
    <3>1. g[0][i] = [score |-> raw[4 * n + i], class |-> 0]
      BY <1>1, <1>12
    <3>2. (4 + 0) * n + i = 4 * n + i
      BY <1>1
    <3> QED  BY <3>1, <3>2 DEF R
  <2>2. ASSUME NEW c \in 1..N, NEW i \in anchors
        PROVE  g[c][i] = IF R(c, i) > g[c - 1][i].score
                         THEN [score |-> R(c, i), class |-> c] ELSE g[c - 1][i]
    <3>1. c \in 0..N /\ c # 0
      BY <1>1
    <3>2. g[c] = [j \in anchors |->
                    IF raw[(4 + c) * n + j] > g[c - 1][j].score
                    THEN [score |-> raw[(4 + c) * n + j], class |-> c] ELSE g[c - 1][j]]
      BY <1>12, <3>1
    <3> HIDE DEF Unfolds
    <3> QED  BY <3>2 DEF R
  <2> QED  BY <2>1, <2>2
<1> HIDE DEF Unfolds
<1> DEFINE Q(c) == /\ FirstBest(layout, raw, a, g[c][a].class, c)
                   /\ g[c][a].score = raw[Place(layout, 4 + g[c][a].class, a)]
           S == {c \in 0..N : Q(c)}
<1>14. \A c : R(c, a) = raw[Place(layout, 4 + c, a)]
  BY <1>2 DEF R
<1>15. 0 \in S
  <2>1. g[0][a].class = 0 /\ g[0][a].score = R(0, a)
    <3>1. g[0][a] = [score |-> R(0, a), class |-> 0]
      BY <1>13
    <3> QED  BY <3>1
  <2>2. R(0, a) \in Nat
    BY <1>1, <1>3
  <2>3. FirstBest(layout, raw, a, 0, 0)
    BY <1>14, <2>2 DEF FirstBest
  <2> QED  BY <1>1, <1>14, <2>1, <2>3
<1>16. ASSUME NEW c \in 0..(N - 1), c \in S PROVE c + 1 \in S
  <2>1. c + 1 \in 1..N /\ c + 1 - 1 = c /\ c \in 0..(layout.num_classes - 2) /\ c + 1 \in 0..N
    BY <1>1
  <2> DEFINE old == g[c][a]
             new == R(c + 1, a)
  <2>2. g[c + 1][a] = IF new > old.score THEN [score |-> new, class |-> c + 1] ELSE old
    BY <1>13, <2>1
  <2>3. FirstBest(layout, raw, a, old.class, c) /\ old.score = raw[Place(layout, 4 + old.class, a)]
    BY <1>16
  <2>4. new = raw[Place(layout, 4 + (c + 1), a)]
    BY <1>14
  <2> HIDE DEF old, new
  <2>5. FirstBest(layout, raw, a, IF new > old.score THEN c + 1 ELSE old.class, c + 1)
    BY <2>1, <2>3, <2>4, BestOfMore
  <2>6. CASE new > old.score
    BY <2>1, <2>2, <2>4, <2>5, <2>6
  <2>7. CASE ~(new > old.score)
    BY <2>1, <2>2, <2>3, <2>5, <2>7
  <2> QED  BY <2>6, <2>7
<1> HIDE DEF S
<1>17. \A c \in 0..N : c \in S
  BY <1>1, <1>15, <1>16, InductionUpTo
<1>18. Q(N)
  BY <1>1, <1>17 DEF S
<1> QED  BY <1>11, <1>18 DEF BestClass

\* The detection of anchor a whose best class is c.
Decoded(layout, raw, a, c) ==
    [box |-> from_center(raw[Place(layout, 0, a)], raw[Place(layout, 1, a)],
                         raw[Place(layout, 2, a)], raw[Place(layout, 3, a)]),
     score |-> raw[Place(layout, 4 + c, a)], class_id |-> c]

\* Scanning class by class picks the best class of an anchor, the first of
\* equal ones.
LEMMA ScanDecodes ==
  ASSUME NEW dec, dec.layout \in LayoutRecords, dec.layout.channels_first,
         NEW raw \in HeadTensors(dec.layout), NEW a \in 0..(dec.layout.num_anchors - 1)
  PROVE  \E c : /\ BestClass(dec.layout, raw, a, c)
                /\ AnchorFromScan(dec.layout, raw, ScanClasses(dec, raw), a)
                   = Decoded(dec.layout, raw, a, c)
<1> DEFINE n == dec.layout.num_anchors
           b == ScanClasses(dec, raw)[a]
<1>1. BestClass(dec.layout, raw, a, b.class)
      /\ b.score = raw[Place(dec.layout, 4 + b.class, a)]
  BY ScanFinds
<1>2. n \in Nat
  BY DEF LayoutRecords
<1>3. /\ Place(dec.layout, 0, a) = a /\ Place(dec.layout, 1, a) = n + a
      /\ Place(dec.layout, 2, a) = 2 * n + a /\ Place(dec.layout, 3, a) = 3 * n + a
  BY <1>2 DEF Place
<1> HIDE DEF b
<1>4. AnchorFromScan(dec.layout, raw, ScanClasses(dec, raw), a)
      = Decoded(dec.layout, raw, a, b.class)
  BY <1>1, <1>3 DEF AnchorFromScan, Decoded, b
<1> QED  BY <1>1, <1>4

\* Looking through the row of an anchor picks the same one.
LEMMA RowDecodes ==
  ASSUME NEW layout \in LayoutRecords, ~layout.channels_first,
         NEW raw \in HeadTensors(layout), NEW a \in 0..(layout.num_anchors - 1)
  PROVE  \E c : /\ BestClass(layout, raw, a, c)
                /\ AnchorFromRow(layout, raw, a) = Decoded(layout, raw, a, c)
<1> DEFINE stride == 4 + layout.num_classes
           row == [i \in 0..(stride - 1) |-> raw[a * stride + i]]
           First(i) == /\ \A j \in 4..(stride - 1) : row[j] <= row[i]
                       /\ \A j \in 4..(i - 1) : row[j] < row[i]
           best == CHOOSE i \in 4..(stride - 1) : First(i)
<1>1. layout.num_classes \in Nat \ {0}
  BY DEF LayoutRecords
<1>2. \A k : Place(layout, k, a) = a * stride + k
  BY DEF Place
<1>3. \A k \in 0..(stride - 1) : row[k] = raw[Place(layout, k, a)]
  BY <1>2
<1>4. PICK c : BestClass(layout, raw, a, c)
  BY BestClassExists
<1>5. /\ c \in 0..(layout.num_classes - 1)
      /\ \A d \in 0..(layout.num_classes - 1) :
            raw[Place(layout, 4 + d, a)] <= raw[Place(layout, 4 + c, a)]
      /\ \A d \in 0..(c - 1) : raw[Place(layout, 4 + d, a)] < raw[Place(layout, 4 + c, a)]
  BY <1>4 DEF BestClass, FirstBest
<1> HIDE DEF row
<1>6. 4 + c \in 4..(stride - 1) /\ First(4 + c)
  <2>1. 4 + c \in 4..(stride - 1) /\ 4 + c \in 0..(stride - 1)
    BY <1>1, <1>5
  <2>2. ASSUME NEW j \in 4..(stride - 1) PROVE row[j] <= row[4 + c]
    <3>1. j - 4 \in 0..(layout.num_classes - 1) /\ 4 + (j - 4) = j /\ j \in 0..(stride - 1)
      BY <1>1
    <3>2. raw[Place(layout, 4 + (j - 4), a)] <= raw[Place(layout, 4 + c, a)]
      BY <1>5, <3>1
    <3> QED  BY <1>3, <2>1, <3>1, <3>2
  <2>3. ASSUME NEW j \in 4..(4 + c - 1) PROVE row[j] < row[4 + c]
    <3>1. j - 4 \in 0..(c - 1) /\ 4 + (j - 4) = j /\ j \in 0..(stride - 1)
      BY <1>1, <1>5
    <3>2. raw[Place(layout, 4 + (j - 4), a)] < raw[Place(layout, 4 + c, a)]
      BY <1>5, <3>1
    <3> QED  BY <1>3, <2>1, <3>1, <3>2
  <2>4. First(4 + c)
    <3>1. c \in Nat
      BY <1>1, <1>5
    <3> HIDE DEF stride
    <3> QED  BY <2>2, <2>3, <3>1
  <2> HIDE DEF First
  <2> QED  BY <2>1, <2>4
<1>7. best \in 4..(stride - 1) /\ First(best)
  <2> HIDE DEF First
  <2> QED  BY <1>6
<1> HIDE DEF best
<1>8. best - 4 \in 0..(layout.num_classes - 1) /\ 4 + (best - 4) = best
      /\ best \in 0..(stride - 1)
  BY <1>1, <1>7
<1>9. BestClass(layout, raw, a, best - 4)
  <2>1. ASSUME NEW d \in 0..(layout.num_classes - 1)
        PROVE  raw[Place(layout, 4 + d, a)] <= raw[Place(layout, best, a)]
    <3>1. 4 + d \in 4..(stride - 1) /\ 4 + d \in 0..(stride - 1)
      BY <1>1
    <3>2. row[4 + d] <= row[best]
      BY <1>7, <3>1
    <3> QED  BY <1>3, <1>8, <3>1, <3>2
  <2>2. ASSUME NEW d \in 0..(best - 4 - 1)
        PROVE  raw[Place(layout, 4 + d, a)] < raw[Place(layout, best, a)]
    <3>1. 4 + d \in 4..(best - 1) /\ 4 + d \in 0..(stride - 1)
      BY <1>1, <1>7
    <3>2. row[4 + d] < row[best]
      BY <1>7, <3>1
    <3> QED  BY <1>3, <1>8, <3>1, <3>2
  <2> QED  BY <1>8, <2>1, <2>2 DEF BestClass, FirstBest
<1>10. AnchorFromRow(layout, raw, a) =
          [box |-> from_center(row[0], row[1], row[2], row[3]),
           score |-> row[best], class_id |-> best - 4]
  BY DEF AnchorFromRow, MaxElement, row, best
<1>11. /\ row[0] = raw[Place(layout, 0, a)] /\ row[1] = raw[Place(layout, 1, a)]
       /\ row[2] = raw[Place(layout, 2, a)] /\ row[3] = raw[Place(layout, 3, a)]
       /\ row[best] = raw[Place(layout, 4 + (best - 4), a)]
  <2>1. 0 \in 0..(stride - 1) /\ 1 \in 0..(stride - 1) /\ 2 \in 0..(stride - 1)
        /\ 3 \in 0..(stride - 1)
    BY <1>1
  <2> QED  BY <1>3, <1>8, <2>1
<1>12. AnchorFromRow(layout, raw, a) = Decoded(layout, raw, a, best - 4)
  BY <1>10, <1>11 DEF Decoded
<1> QED  BY <1>9, <1>12

-----------------------------------------------------------------------------
\* order lists the positions of s, up to m, whose score exceeds the threshold,
\* and out is what is there.
Picks(s, threshold, m, out, order) ==
    /\ order \in [1..Len(out) -> 1..m]
    /\ \A k, l \in 1..Len(out) : k < l => order[k] < order[l]
    /\ \A i \in 1..m : s[i].score > threshold <=> \E k \in 1..Len(out) : order[k] = i
    /\ \A k \in 1..Len(out) : out[k] = s[order[k]]

\* One more entry is appended to what was picked, or passed over.
LEMMA PicksNext ==
  ASSUME NEW s, NEW threshold, NEW m \in Nat, NEW D, NEW out \in Seq(D), NEW order,
         Picks(s, threshold, m, out, order), s[m + 1] \in D
  PROVE  LET more == IF s[m + 1].score > threshold THEN Append(out, s[m + 1]) ELSE out
         IN \E longer : Picks(s, threshold, m + 1, more, longer)
<1>1. /\ order \in [1..Len(out) -> 1..m]
      /\ \A k, l \in 1..Len(out) : k < l => order[k] < order[l]
      /\ \A i \in 1..m : s[i].score > threshold <=> \E k \in 1..Len(out) : order[k] = i
      /\ \A k \in 1..Len(out) : out[k] = s[order[k]]
  BY DEF Picks
<1>2. \A k \in 1..Len(out) : order[k] \in 1..m
  BY <1>1
<1>3. \A i \in 1..(m + 1) : i \in 1..m \/ i = m + 1
  OBVIOUS
<1>4. CASE ~(s[m + 1].score > threshold)
  <2>1. order \in [1..Len(out) -> 1..(m + 1)]
    BY <1>1
  <2>2. ASSUME NEW i \in 1..(m + 1)
        PROVE  s[i].score > threshold <=> \E k \in 1..Len(out) : order[k] = i
    <3>1. CASE i \in 1..m
      BY <1>1, <3>1
    <3>2. CASE i = m + 1
      <4>1. \A k \in 1..Len(out) : order[k] # m + 1
        BY <1>2
      <4> QED  BY <1>4, <3>2, <4>1
    <3> QED  BY <1>3, <3>1, <3>2
  <2>3. Picks(s, threshold, m + 1, out, order)
    BY <1>1, <2>1, <2>2 DEF Picks
  <2> QED  BY <1>4, <2>3
<1>5. CASE s[m + 1].score > threshold
  <2> DEFINE more == Append(out, s[m + 1])
             L == Len(out)
             longer == [k \in 1..(L + 1) |-> IF k = L + 1 THEN m + 1 ELSE order[k]]
  <2>1. L \in Nat /\ Len(more) = L + 1 /\ more[L + 1] = s[m + 1]
        /\ \A k \in 1..L : more[k] = out[k]
    OBVIOUS
  <2> HIDE DEF more, L
  <2>2. \A k \in 1..L : order[k] \in 1..m
    BY <1>2 DEF L
  <2>3. longer \in [1..(L + 1) -> 1..(m + 1)]
    BY <2>1, <2>2
  <2>4. longer[L + 1] = m + 1 /\ \A k \in 1..L : longer[k] = order[k]
    BY <2>1
  <2> HIDE DEF longer
  <2>5. \A k \in 1..(L + 1) : k \in 1..L \/ k = L + 1
    BY <2>1
  <2>6. ASSUME NEW k \in 1..(L + 1), NEW l \in 1..(L + 1), k < l
        PROVE  longer[k] < longer[l]
    <3>1. k \in 1..L
      BY <2>1, <2>6
    <3>2. CASE l \in 1..L
      BY <1>1, <2>4, <2>6, <3>1, <3>2 DEF L
    <3>3. CASE l = L + 1
      BY <2>2, <2>4, <3>1, <3>3
    <3> QED  BY <2>5, <3>2, <3>3
  <2>7. ASSUME NEW i \in 1..(m + 1)
        PROVE  s[i].score > threshold <=> \E k \in 1..(L + 1) : longer[k] = i
    <3>1. CASE i = m + 1
      <4>1. L + 1 \in 1..(L + 1)
        BY <2>1
      <4> QED  BY <1>5, <2>4, <3>1, <4>1
    <3>2. CASE i \in 1..m
      <4>1. i # m + 1
        BY <3>2
      <4>2. (\E k \in 1..(L + 1) : longer[k] = i) <=> (\E k \in 1..L : order[k] = i)
        <5>1. \A k \in 1..L : k \in 1..(L + 1)
          BY <2>1
        <5> QED  BY <2>4, <2>5, <4>1, <5>1
      <4> QED  BY <1>1, <3>2, <4>2 DEF L
    <3> QED  BY <1>3, <3>1, <3>2
  <2>8. ASSUME NEW k \in 1..(L + 1) PROVE more[k] = s[longer[k]]
    <3>1. CASE k \in 1..L
      BY <1>1, <2>1, <2>4, <3>1 DEF L
    <3>2. CASE k = L + 1
      BY <2>1, <2>4, <3>2
    <3> QED  BY <2>5, <3>1, <3>2
  <2>9. Picks(s, threshold, m + 1, more, longer)
    BY <2>1, <2>3, <2>6, <2>7, <2>8 DEF Picks
  <2> QED  BY <1>5, <2>9 DEF more
<1> QED  BY <1>4, <1>5

\* The loop pushes back the anchors above the threshold, in order.
LEMMA PushPicks ==
  ASSUME NEW D, NEW s \in Seq(D), NEW threshold
  PROVE  /\ PushConfident(s, threshold) \in Seq(D)
         /\ \E order : Picks(s, threshold, Len(s), PushConfident(s, threshold), order)
<1> DEFINE N == Len(s)
           Push(out, i) == IF s[i].score > threshold THEN Append(out, s[i]) ELSE out
           V == Seq(D)
           step == [p \in V \X (1..N) |-> Push(p[1], p[2])]
           Unfolds(f) ==
              f = [i \in 0..N |->
                     IF i = 0 THEN <<>>
                     ELSE IF s[i].score > threshold THEN Append(f[i - 1], s[i]) ELSE f[i - 1]]
<1>1. N \in Nat /\ <<>> \in V /\ \A i \in 1..N : s[i] \in D
  OBVIOUS
<1>2. ASSUME NEW out \in V, NEW i \in 1..N PROVE Push(out, i) \in V
  BY <1>1
<1>3. step \in [V \X (1..N) -> V]
  <2> HIDE DEF Push, V, N
  <2> QED  BY <1>2
<1>4. ASSUME NEW out \in V, NEW i \in 1..N PROVE step[<<out, i>>] = Push(out, i)
  <2> HIDE DEF Push, V, N
  <2> QED  OBVIOUS
<1> HIDE DEF step
<1>5. PICK f : SolvesUpTo(f, N, V, <<>>, step)
  <2> HIDE DEF V, N
  <2> QED  BY <1>1, <1>3, RecursionUpTo
<1>6. /\ f \in [0..N -> V] /\ f[0] = <<>>
      /\ \A i \in 1..N : f[i] = Push(f[i - 1], i)
  <2> HIDE DEF V, N
  <2>1. f \in [0..N -> V] /\ f[0] = <<>> /\ \A i \in 1..N : f[i] = step[<<f[i - 1], i>>]
    BY <1>5 DEF SolvesUpTo
  <2>2. \A i \in 1..N : f[i - 1] \in V
    <3>1. \A i \in 1..N : i - 1 \in 0..N
      BY <1>1
    <3> QED  BY <2>1, <3>1
  <2> HIDE DEF Push
  <2> QED  BY <1>4, <2>1, <2>2
<1>7. Unfolds(f)
  <2> HIDE DEF V, N
  <2>1. f = [i \in 0..N |-> f[i]]
    BY <1>6
  <2>2. ASSUME NEW i \in 0..N
        PROVE  f[i] = IF i = 0 THEN <<>>
                      ELSE IF s[i].score > threshold THEN Append(f[i - 1], s[i]) ELSE f[i - 1]
    <3>1. CASE i = 0
      BY <1>6, <3>1
    <3>2. CASE i # 0
      <4>1. i \in 1..N
        BY <1>1, <3>2
      <4> QED  BY <1>6, <3>2, <4>1
    <3> QED  BY <3>1, <3>2
  <2> QED  BY <2>1, <2>2
<1> DEFINE g == CHOOSE h : Unfolds(h)
<1>8. PushConfident(s, threshold) = g[N]
  BY DEF PushConfident
<1>9. Unfolds(g)
  <2> HIDE DEF Unfolds
  <2> QED  BY <1>7
<1> HIDE DEF g
<1>10. g[0] = <<>> /\ \A i \in 1..N : g[i] = Push(g[i - 1], i)
  <2> HIDE DEF V, N
  <2>1. g[0] = <<>>
    BY <1>1, <1>9
  <2>2. ASSUME NEW i \in 1..N PROVE g[i] = Push(g[i - 1], i)
    <3>1. i \in 0..N /\ i # 0
      BY <1>1
    <3> QED  BY <1>9, <3>1
  <2> QED  BY <2>1, <2>2
<1> HIDE DEF Unfolds
<1> DEFINE Q(i) == g[i] \in V /\ \E order : Picks(s, threshold, i, g[i], order)
           S == {i \in 0..N : Q(i)}
<1>11. 0 \in S
  <2> DEFINE none == [k \in 1..0 |-> 0]
  <2>1. none \in [1..0 -> 1..0] /\ Len(<<>>) = 0
    OBVIOUS
  <2>2. Picks(s, threshold, 0, <<>>, none)
    BY <2>1 DEF Picks
  <2>3. Q(0)
    <3> HIDE DEF none, V
    <3> QED  BY <1>1, <1>10, <2>2
  <2> HIDE DEF Q
  <2> QED  BY <1>1, <2>3
<1>12. ASSUME NEW i \in 0..(N - 1), i \in S PROVE i + 1 \in S
  <2>1. i + 1 \in 1..N /\ i + 1 - 1 = i /\ i \in Nat /\ i + 1 \in 0..N
    BY <1>1
  <2>2. PICK order : Picks(s, threshold, i, g[i], order)
    BY <1>12
  <2>3. g[i] \in V
    BY <1>12
  <2>4. g[i + 1] = Push(g[i], i + 1) /\ s[i + 1] \in D
    BY <1>1, <1>10, <2>1
  <2>5. \E longer : Picks(s, threshold, i + 1, g[i + 1], longer)
    BY <2>1, <2>2, <2>3, <2>4, PicksNext
  <2>6. g[i + 1] \in V
    BY <1>2, <2>1, <2>3, <2>4
  <2> QED  BY <2>1, <2>5, <2>6
<1> HIDE DEF S
<1>13. \A i \in 0..N : i \in S
  BY <1>1, <1>11, <1>12, InductionUpTo
<1>14. Q(N)
  BY <1>1, <1>13 DEF S
<1> QED  BY <1>8, <1>14

-----------------------------------------------------------------------------
DecoderRecord(d) == d = [layout |-> d.layout, best |-> d.best, out |-> d.out]

\* out holds the detections of the anchors that order lists, which are those
\* whose score in their best class exceeds the threshold.
DecodedRight(layout, raw, threshold, out, class, order) ==
    LET anchors == 0..(layout.num_anchors - 1)
    IN /\ \A a \in anchors : BestClass(layout, raw, a, class[a])
       /\ order \in [1..Len(out) -> anchors]
       /\ \A k, l \in 1..Len(out) : k < l => order[k] < order[l]
       /\ \A a \in anchors : raw[Place(layout, 4 + class[a], a)] > threshold
                             <=> \E k \in 1..Len(out) : order[k] = a
       /\ \A k \in 1..Len(out) : out[k] = Decoded(layout, raw, order[k], class[order[k]])

\* decode() on any head.
LEMMA DecodeResult ==
  ASSUME NEW dec, DecoderRecord(dec), dec.layout \in LayoutRecords,
         NEW raw \in HeadTensors(dec.layout), NEW threshold
  PROVE  LET new == decode(dec, raw, threshold)
         IN /\ DecoderRecord(new) /\ new.layout = dec.layout
            /\ \E class, order : DecodedRight(dec.layout, raw, threshold, new.out, class, order)
<1> DEFINE layout == dec.layout
           n == layout.num_anchors
           anchors == 0..(n - 1)
           scan == ScanClasses(dec, raw)
           Anchor(a) == IF layout.channels_first THEN AnchorFromScan(layout, raw, scan, a)
                                                 ELSE AnchorFromRow(layout, raw, a)
           s == [i \in 1..n |-> Anchor(i - 1)]
           best == IF layout.channels_first THEN scan ELSE dec.best
           out == PushConfident(s, threshold)
           new == decode(dec, raw, threshold)
           class == [a \in anchors |-> CHOOSE c : BestClass(layout, raw, a, c)]
<1>0. n \in Nat /\ n > 0
  BY DEF LayoutRecords
<1>1. ASSUME NEW a \in anchors
      PROVE  BestClass(layout, raw, a, class[a]) /\ Anchor(a) = Decoded(layout, raw, a, class[a])
  <2>1. PICK c : BestClass(layout, raw, a, c) /\ Anchor(a) = Decoded(layout, raw, a, c)
    <3>1. CASE layout.channels_first
      BY <3>1, ScanDecodes
    <3>2. CASE ~layout.channels_first
      BY <3>2, RowDecodes
    <3> QED  BY <3>1, <3>2
  <2>2. BestClass(layout, raw, a, class[a])
    BY <2>1
  <2>3. class[a] = c
    <3> HIDE DEF class
    <3> QED  BY <2>1, <2>2, BestClassUnique
  <2> QED  BY <2>1, <2>3
<1>2. new = [dec EXCEPT !.best = best, !.out = out]
  BY DEF decode
<1> HIDE DEF Anchor, best, class
<1> DEFINE D == {Anchor(a) : a \in anchors}
<1>3. s \in Seq(D) /\ Len(s) = n
  <2>1. \A i \in 1..n : i - 1 \in anchors
    BY <1>0
  <2>2. s \in [1..n -> D]
    BY <2>1
  <2> HIDE DEF s
  <2> QED  BY <1>0, <2>2, LengthOfFunction
<1>4. \A i \in 1..n : s[i] = Anchor(i - 1)
  OBVIOUS
<1> HIDE DEF s, D
<1>5. out \in Seq(D) /\ \E order : Picks(s, threshold, n, out, order)
  BY <1>3, PushPicks
<1> HIDE DEF out, new
<1>6. new = [layout |-> layout, best |-> best, out |-> out]
  BY <1>2 DEF DecoderRecord
<1>7. DecoderRecord(new) /\ new.layout = layout /\ new.out = out
  BY <1>6 DEF DecoderRecord
<1>8. PICK from1 : Picks(s, threshold, n, out, from1)
  BY <1>5
<1> DEFINE L == Len(out)
           order == [k \in 1..L |-> from1[k] - 1]
<1>9. /\ from1 \in [1..L -> 1..n]
      /\ \A k, l \in 1..L : k < l => from1[k] < from1[l]
      /\ \A i \in 1..n : s[i].score > threshold <=> \E k \in 1..L : from1[k] = i
      /\ \A k \in 1..L : out[k] = s[from1[k]]
  BY <1>8 DEF Picks
<1> HIDE DEF L
<1>10. \A k \in 1..L : from1[k] \in 1..n /\ from1[k] - 1 \in anchors /\ order[k] = from1[k] - 1
  BY <1>0, <1>9
<1>11. order \in [1..L -> anchors]
  BY <1>10
<1> HIDE DEF order
<1>12. \A k, l \in 1..L : k < l => order[k] < order[l]
  BY <1>9, <1>10
<1>13. \A a \in anchors : s[a + 1] = Decoded(layout, raw, a, class[a]) /\ a + 1 \in 1..n
  <2>1. \A a \in anchors : a + 1 \in 1..n /\ a + 1 - 1 = a
    BY <1>0
  <2> QED  BY <1>1, <1>4, <2>1
<1>14. ASSUME NEW a \in anchors
       PROVE  raw[Place(layout, 4 + class[a], a)] > threshold <=> \E k \in 1..L : order[k] = a
  <2>1. s[a + 1].score = raw[Place(layout, 4 + class[a], a)]
    <3>1. s[a + 1] = Decoded(layout, raw, a, class[a])
      BY <1>13
    <3>2. Decoded(layout, raw, a, class[a]).score = raw[Place(layout, 4 + class[a], a)]
      BY DEF Decoded
    <3> QED  BY <3>1, <3>2
  <2>2. s[a + 1].score > threshold <=> \E k \in 1..L : from1[k] = a + 1
    BY <1>9, <1>13
  <2>3. \A k \in 1..L : from1[k] = a + 1 <=> order[k] = a
    BY <1>0, <1>10
  <2> QED  BY <2>1, <2>2, <2>3
<1>15. ASSUME NEW k \in 1..L
       PROVE  out[k] = Decoded(layout, raw, order[k], class[order[k]])
  <2>1. order[k] \in anchors /\ order[k] + 1 = from1[k]
    BY <1>0, <1>10
  <2>2. out[k] = s[from1[k]]
    BY <1>9
  <2> QED  BY <1>13, <2>1, <2>2
<1>16. DecodedRight(layout, raw, threshold, out, class, order)
  BY <1>1, <1>11, <1>12, <1>14, <1>15 DEF DecodedRight, L
<1> QED  BY <1>7, <1>16 DEF new

\* The values of a head that was made from scores.
LEMMA YoloHeadValues ==
  ASSUME NEW layout \in LayoutRecords,
         NEW scores \in [(0..(layout.num_anchors - 1)) \X (0..(layout.num_classes - 1)) -> Nat]
  PROVE  LET raw == YoloHead(layout, scores)
         IN /\ raw \in HeadTensors(layout)
            /\ \A a \in 0..(layout.num_anchors - 1) :
                  /\ \A c \in 0..(layout.num_classes - 1) :
                        raw[Place(layout, 4 + c, a)] = scores[<<a, c>>]
                  /\ \A k \in 0..3 : raw[Place(layout, k, a)] = Place(layout, k, a) + 1
<1> DEFINE anchors == 0..(layout.num_anchors - 1)
           classes == 0..(layout.num_classes - 1)
           ks == 0..(3 + layout.num_classes)
           Score(i) == \E a \in anchors, c \in classes : i = Place(layout, 4 + c, a)
           At(i) == CHOOSE p \in DOMAIN scores : i = Place(layout, 4 + p[2], p[1])
           raw == YoloHead(layout, scores)
           places == 0..(HeadSize(layout) - 1)
<1>0. layout.num_anchors \in Nat \ {0} /\ layout.num_classes \in Nat \ {0}
      /\ HeadSize(layout) \in Nat
  BY DEF LayoutRecords, HeadSize
<1>1. raw = [i \in places |-> IF Score(i) THEN scores[At(i)] ELSE i + 1]
  BY DEF YoloHead
<1>2. \A c \in classes : 4 + c \in ks
  BY <1>0
<1>3. \A k \in ks, a \in anchors : Place(layout, k, a) \in places
  BY Places
<1>4. \A k \in ks, a \in anchors, l \in ks, b \in anchors :
         Place(layout, l, b) = Place(layout, k, a) => l = k /\ b = a
  BY Places
<1> HIDE DEF raw
<1>5. ASSUME NEW a \in anchors, NEW c \in classes
      PROVE  /\ Score(Place(layout, 4 + c, a)) /\ At(Place(layout, 4 + c, a)) = <<a, c>>
             /\ raw[Place(layout, 4 + c, a)] = scores[<<a, c>>]
  <2> DEFINE i == Place(layout, 4 + c, a)
             Hit(p) == i = Place(layout, 4 + p[2], p[1])
             at == CHOOSE p \in DOMAIN scores : Hit(p)
  <2>1. <<a, c>> \in DOMAIN scores /\ Hit(<<a, c>>)
    OBVIOUS
  <2>2. at \in DOMAIN scores /\ Hit(at)
    <3> HIDE DEF Hit
    <3> QED  BY <2>1
  <2>3. at[1] \in anchors /\ at[2] \in classes /\ at = <<at[1], at[2]>>
    <3> HIDE DEF at
    <3> QED  BY <2>2
  <2>4. at[1] = a /\ at[2] = c
    <3> HIDE DEF at
    <3>1. 4 + at[2] = 4 + c /\ at[1] = a
      BY <1>2, <1>4, <2>2, <2>3
    <3> QED  BY <1>0, <2>3, <3>1
  <2>5. at = <<a, c>>
    BY <2>3, <2>4
  <2>6. At(i) = <<a, c>>
    BY <2>5
  <2>7. Score(i) /\ i \in places
    BY <1>2, <1>3
  <2> HIDE DEF i, At, Score
  <2>8. raw[i] = scores[<<a, c>>]
    BY <1>1, <2>6, <2>7
  <2> QED  BY <2>6, <2>7, <2>8 DEF i
<1>6. ASSUME NEW a \in anchors, NEW k \in 0..3
      PROVE  raw[Place(layout, k, a)] = Place(layout, k, a) + 1
  <2>1. k \in ks
    BY <1>0
  <2>2. ~Score(Place(layout, k, a))
    <3> SUFFICES ASSUME NEW b \in anchors, NEW c \in classes,
                        Place(layout, k, a) = Place(layout, 4 + c, b)
                 PROVE  FALSE
      OBVIOUS
    <3>1. k = 4 + c
      BY <1>2, <1>4, <2>1
    <3> QED  BY <1>0, <3>1
  <2>3. Place(layout, k, a) \in places
    BY <1>3, <2>1
  <2> HIDE DEF Score, At
  <2> QED  BY <1>1, <2>2, <2>3
<1>7. raw \in HeadTensors(layout)
  <2>1. ASSUME NEW i \in places PROVE raw[i] \in Nat
    <3>1. CASE Score(i)
      <4>1. PICK a \in anchors, c \in classes : i = Place(layout, 4 + c, a)
        BY <3>1
      <4>2. raw[i] = scores[<<a, c>>]
        BY <1>5, <4>1
      <4> QED  BY <4>2
    <3>2. CASE ~Score(i)
      <4> HIDE DEF Score, At
      <4>1. raw[i] = i + 1
        BY <1>1, <3>2
      <4> QED  BY <1>0, <4>1
    <3> QED  BY <3>1, <3>2
  <2>2. raw = [i \in places |-> raw[i]]
    <3> HIDE DEF Score, At
    <3> QED  BY <1>1
  <2> QED  BY <2>1, <2>2 DEF HeadTensors
<1> QED  BY <1>5, <1>6, <1>7 DEF raw

DecoderInv ==
    /\ DecoderRecord(yd.dec) /\ yd.dec.layout \in Layouts
    /\ DecodeExact

\* A step of the decoder: whatever the decoder held, the detections are those of
\* the scores.
LEMMA DecodeStep ==
  ASSUME NEW dec, DecoderRecord(dec), dec.layout \in Layouts, NEW threshold,
         NEW scores \in [(0..(dec.layout.num_anchors - 1)) \X (0..(dec.layout.num_classes - 1))
                         -> Scores],
         yd' = [dec |-> decode(dec, YoloHead(dec.layout, scores), threshold),
                scores |-> scores, threshold |-> threshold]
  PROVE  DecoderInv'
<1> DEFINE layout == dec.layout
           anchors == 0..(layout.num_anchors - 1)
           classes == 0..(layout.num_classes - 1)
           raw == YoloHead(layout, scores)
           new == decode(dec, raw, threshold)
           out == new.out
           Sc(a, c) == scores[<<a, c>>]
           IsBest(a, c) == /\ \A d \in classes : Sc(a, d) <= Sc(a, c)
                           /\ \A d \in classes : Sc(a, d) = Sc(a, c) => c <= d
           BestOf(a) == CHOOSE c \in classes : IsBest(a, c)
           Val(k, a) == Place(layout, k, a) + 1
           Expected(a) == [box |-> from_center(Val(0, a), Val(1, a), Val(2, a), Val(3, a)),
                           score |-> Sc(a, BestOf(a)), class_id |-> BestOf(a)]
<1>0. layout \in LayoutRecords /\ layout.num_classes \in Nat \ {0}
  BY YoloDecoderAssumption DEF LayoutRecords
<1>1. scores \in [anchors \X classes -> Nat]
  BY YoloDecoderAssumption
<1>2. /\ raw \in HeadTensors(layout)
      /\ \A a \in anchors :
            /\ \A c \in classes : raw[Place(layout, 4 + c, a)] = Sc(a, c)
            /\ \A k \in 0..3 : raw[Place(layout, k, a)] = Val(k, a)
  BY <1>0, <1>1, YoloHeadValues
<1>3. \A a \in anchors, c \in classes : Sc(a, c) \in Nat
  BY <1>1
<1> HIDE DEF raw
<1>4. /\ DecoderRecord(new) /\ new.layout = layout
      /\ \E class, order : DecodedRight(layout, raw, threshold, out, class, order)
  BY <1>0, <1>2, DecodeResult
<1>5. yd'.dec = new /\ yd'.scores = scores /\ yd'.threshold = threshold
  BY DEF raw
<1> HIDE DEF new
<1>6. PICK class, order : DecodedRight(layout, raw, threshold, out, class, order)
  BY <1>4
<1>7. /\ \A a \in anchors : BestClass(layout, raw, a, class[a])
      /\ order \in [1..Len(out) -> anchors]
      /\ \A k, l \in 1..Len(out) : k < l => order[k] < order[l]
      /\ \A a \in anchors : raw[Place(layout, 4 + class[a], a)] > threshold
                            <=> \E k \in 1..Len(out) : order[k] = a
      /\ \A k \in 1..Len(out) : out[k] = Decoded(layout, raw, order[k], class[order[k]])
  BY <1>6 DEF DecodedRight
<1> HIDE DEF out, Sc
<1>8. ASSUME NEW a \in anchors
      PROVE  class[a] = BestOf(a) /\ class[a] \in classes
  <2>1. /\ class[a] \in classes
        /\ \A d \in classes : Sc(a, d) <= Sc(a, class[a])
        /\ \A d \in 0..(class[a] - 1) : Sc(a, d) < Sc(a, class[a])
    <3>1. /\ class[a] \in classes
          /\ \A d \in classes :
                raw[Place(layout, 4 + d, a)] <= raw[Place(layout, 4 + class[a], a)]
          /\ \A d \in 0..(class[a] - 1) :
                raw[Place(layout, 4 + d, a)] < raw[Place(layout, 4 + class[a], a)]
      BY <1>7 DEF BestClass, FirstBest
    <3>2. \A d \in 0..(class[a] - 1) : d \in classes
      BY <1>0, <3>1
    <3> QED  BY <1>2, <3>1, <3>2
  <2>2. IsBest(a, class[a])
    <3>1. ASSUME NEW d \in classes, Sc(a, d) = Sc(a, class[a]) PROVE class[a] <= d
      <4> SUFFICES ASSUME d < class[a] PROVE FALSE
        BY <1>0, <2>1
      <4>1. d \in 0..(class[a] - 1)
        BY <1>0, <2>1
      <4>2. Sc(a, d) < Sc(a, class[a]) /\ Sc(a, d) \in Nat
        BY <1>3, <2>1, <4>1
      <4> QED  BY <3>1, <4>2
    <3> QED  BY <2>1, <3>1
  <2>3. BestOf(a) \in classes /\ IsBest(a, BestOf(a))
    <3> HIDE DEF IsBest
    <3> QED  BY <2>1, <2>2
  <2> HIDE DEF BestOf
  <2>4. Sc(a, BestOf(a)) = Sc(a, class[a])
    BY <1>3, <2>1, <2>2, <2>3
  <2>5. class[a] <= BestOf(a) /\ BestOf(a) <= class[a]
    BY <2>1, <2>2, <2>3, <2>4
  <2> QED  BY <1>0, <2>1, <2>3, <2>5
<1> HIDE DEF BestOf
<1>9. ASSUME NEW a \in anchors
      PROVE  /\ raw[Place(layout, 4 + class[a], a)] = Expected(a).score
             /\ Decoded(layout, raw, a, class[a]) = Expected(a)
  <2>1. raw[Place(layout, 4 + class[a], a)] = Sc(a, BestOf(a))
    BY <1>2, <1>8
  <2>2. /\ raw[Place(layout, 0, a)] = Val(0, a) /\ raw[Place(layout, 1, a)] = Val(1, a)
        /\ raw[Place(layout, 2, a)] = Val(2, a) /\ raw[Place(layout, 3, a)] = Val(3, a)
    BY <1>2
  <2> HIDE DEF Val
  <2> QED  BY <1>8, <2>1, <2>2 DEF Decoded
<1> HIDE DEF Expected
<1>10. \E ord \in [1..Len(out) -> anchors] :
          /\ \A k, l \in 1..Len(out) : k < l => ord[k] < ord[l]
          /\ \A a \in anchors : Expected(a).score > threshold
                                 <=> \E k \in 1..Len(out) : ord[k] = a
          /\ \A k \in 1..Len(out) : out[k] = Expected(ord[k])
  <2>1. ASSUME NEW a \in anchors
        PROVE  Expected(a).score > threshold <=> \E k \in 1..Len(out) : order[k] = a
    BY <1>7, <1>9
  <2>2. ASSUME NEW k \in 1..Len(out) PROVE out[k] = Expected(order[k])
    <3>1. order[k] \in anchors
      BY <1>7
    <3> QED  BY <1>7, <1>9, <3>1
  <2> QED  BY <1>7, <2>1, <2>2
<1>11. DecodeExact'
  <2>1. yd'.dec.layout = layout /\ yd'.dec.out = out
    BY <1>4, <1>5 DEF out
  <2>2. DetectionsOf(layout, scores, threshold, out)
    BY <1>10, Zenon DEF DetectionsOf, Expected, BestOf, Sc
  <2> QED  BY <1>5, <2>1, <2>2 DEF DecodeExact
<1> QED  BY <1>4, <1>5, <1>11 DEF DecoderInv, DecoderRecord

\* Decoding yields exactly the anchors above the threshold, each with its own
\* box, its best score and the first class that has it, for every layout, every
\* set of scores and whatever earlier frames left in the scratch vectors.
THEOREM DecodeExactHolds == Spec => []DecodeExact
<1>1. Init => DecoderInv
  <2> SUFFICES ASSUME Init PROVE DecoderInv
    OBVIOUS
  <2>1. PICK layout \in Layouts :
          yd = [dec |-> NewDecoder(layout), scores |-> <<>>, threshold |-> 0]
    BY DEF Init, Init_yd
  <2>2. yd.dec = NewDecoder(layout) /\ yd.scores = <<>>
    BY <2>1
  <2>3. NewDecoder(layout).layout = layout /\ DecoderRecord(NewDecoder(layout))
    BY DEF NewDecoder, DecoderRecord
  <2>4. DecodeExact
    BY <2>2 DEF DecodeExact
  <2> QED  BY <2>2, <2>3, <2>4 DEF DecoderInv
<1>2. DecoderInv /\ [Next]_vars => DecoderInv'
  <2> SUFFICES ASSUME DecoderInv, decode_yd \/ UNCHANGED yd PROVE DecoderInv'
    BY DEF Next, vars
  <2>1. CASE decode_yd
    <3> DEFINE layout == yd.dec.layout
               places == (0..(layout.num_anchors - 1)) \X (0..(layout.num_classes - 1))
    <3>1. PICK scores \in [places -> Scores], threshold \in Scores :
             yd' = [dec |-> decode(yd.dec, YoloHead(layout, scores), threshold),
                    scores |-> scores, threshold |-> threshold]
      BY <2>1 DEF decode_yd
    <3>2. DecoderRecord(yd.dec) /\ layout \in Layouts
      BY DEF DecoderInv
    <3> QED  BY <3>1, <3>2, DecodeStep
  <2>2. CASE UNCHANGED yd
    BY <2>2 DEF DecoderInv, DecodeExact, DecoderRecord
  <2> QED  BY <2>1, <2>2
<1>3. DecoderInv => DecodeExact
  BY DEF DecoderInv
<1> QED  BY <1>1, <1>2, <1>3, PTL DEF Spec

-----------------------------------------------------------------------------
(* Models.                                                                   *)

\* The product of a shape, dimension by dimension.
LEMMA ProductUnfolds ==
  ASSUME NEW shape \in Seq(Int)
  PROVE  \E P : /\ Product(shape) = P[Len(shape)] /\ P[0] = 1
                /\ \A i \in 1..Len(shape) : P[i] = shape[i] * P[i - 1]
<1> DEFINE N == Len(shape)
           step == [p \in Int \X (1..N) |-> shape[p[2]] * p[1]]
           Unfolds(f) == f = [i \in 0..N |-> IF i = 0 THEN 1 ELSE shape[i] * f[i - 1]]
<1>1. N \in Nat /\ \A i \in 1..N : shape[i] \in Int
  OBVIOUS
<1> HIDE DEF N
<1>2. step \in [Int \X (1..N) -> Int]
  <2>1. ASSUME NEW p \in Int \X (1..N) PROVE shape[p[2]] * p[1] \in Int
    <3>1. p[1] \in Int /\ p[2] \in 1..N
      OBVIOUS
    <3>2. shape[p[2]] \in Int
      BY <1>1, <3>1
    <3> QED  BY <3>1, <3>2
  <2> QED  BY <2>1
<1>3. ASSUME NEW v \in Int, NEW i \in 1..N PROVE step[<<v, i>>] = shape[i] * v
  OBVIOUS
<1> HIDE DEF step
<1>4. PICK f : SolvesUpTo(f, N, Int, 1, step)
  <2> DEFINE V == Int
  <2>1. 1 \in V /\ step \in [V \X (1..N) -> V]
    BY <1>2
  <2> HIDE DEF V
  <2>2. \E f : SolvesUpTo(f, N, V, 1, step)
    BY <1>1, <2>1, RecursionUpTo
  <2> QED  BY <2>2 DEF V
<1>5. f \in [0..N -> Int] /\ f[0] = 1 /\ \A i \in 1..N : f[i] = shape[i] * f[i - 1]
  <2>1. f \in [0..N -> Int] /\ f[0] = 1 /\ \A i \in 1..N : f[i] = step[<<f[i - 1], i>>]
    BY <1>4 DEF SolvesUpTo
  <2>2. \A i \in 1..N : i - 1 \in 0..N
    BY <1>1
  <2> QED  BY <1>3, <2>1, <2>2
<1>6. Unfolds(f)
  <2>1. ASSUME NEW i \in 0..N PROVE f[i] = IF i = 0 THEN 1 ELSE shape[i] * f[i - 1]
    <3>1. CASE i = 0
      BY <1>5, <3>1
    <3>2. CASE i # 0
      <4>1. i \in 1..N
        BY <1>1, <3>2
      <4> QED  BY <1>5, <3>2, <4>1
    <3> QED  BY <3>1, <3>2
  <2>2. f = [i \in 0..N |-> f[i]]
    BY <1>5
  <2> QED  BY <2>1, <2>2
<1> DEFINE g == CHOOSE h : Unfolds(h)
<1>7. Product(shape) = g[N]
  BY DEF Product, N
<1>8. Unfolds(g)
  <2> HIDE DEF Unfolds
  <2> QED  BY <1>6
<1> HIDE DEF g
<1>9. g[0] = 1 /\ \A i \in 1..N : g[i] = shape[i] * g[i - 1]
  <2>1. g[0] = 1
    BY <1>1, <1>8
  <2>2. ASSUME NEW i \in 1..N PROVE g[i] = shape[i] * g[i - 1]
    <3>1. i \in 0..N /\ i # 0
      BY <1>1
    <3> QED  BY <1>8, <3>1
  <2> QED  BY <2>1, <2>2
<1> HIDE DEF Unfolds
<1> QED  BY <1>7, <1>9 DEF N

\* Products of the lengths that occur.
LEMMA ProductsOf ==
  ASSUME NEW a \in Nat \ {0}, NEW b \in Nat \ {0}, NEW c \in Nat \ {0}, NEW d \in Nat \ {0}
  PROVE  /\ Product(<<a, b>>) = b * a
         /\ Product(<<a, b, c>>) = c * (b * a)
         /\ Product(<<a, b, c, d>>) = d * (c * (b * a))
<1>1. Product(<<a, b>>) = b * a
  <2> DEFINE s == <<a, b>>
  <2>1. s \in Seq(Int) /\ Len(s) = 2 /\ s[1] = a /\ s[2] = b
    OBVIOUS
  <2> HIDE DEF s
  <2>2. PICK P : /\ Product(s) = P[Len(s)] /\ P[0] = 1
                 /\ \A i \in 1..Len(s) : P[i] = s[i] * P[i - 1]
    BY <2>1, ProductUnfolds
  <2>3. P[1] = s[1] * P[1 - 1] /\ P[2] = s[2] * P[2 - 1]
    BY <2>1, <2>2
  <2> QED  BY <2>1, <2>2, <2>3 DEF s
<1>2. Product(<<a, b, c>>) = c * (b * a)
  <2> DEFINE s == <<a, b, c>>
  <2>1. s \in Seq(Int) /\ Len(s) = 3 /\ s[1] = a /\ s[2] = b /\ s[3] = c
    OBVIOUS
  <2> HIDE DEF s
  <2>2. PICK P : /\ Product(s) = P[Len(s)] /\ P[0] = 1
                 /\ \A i \in 1..Len(s) : P[i] = s[i] * P[i - 1]
    BY <2>1, ProductUnfolds
  <2>3. P[1] = s[1] * P[1 - 1] /\ P[2] = s[2] * P[2 - 1] /\ P[3] = s[3] * P[3 - 1]
    BY <2>1, <2>2
  <2> QED  BY <2>1, <2>2, <2>3 DEF s
<1>3. Product(<<a, b, c, d>>) = d * (c * (b * a))
  <2> DEFINE s == <<a, b, c, d>>
  <2>1. s \in Seq(Int) /\ Len(s) = 4 /\ s[1] = a /\ s[2] = b /\ s[3] = c /\ s[4] = d
    OBVIOUS
  <2> HIDE DEF s
  <2>2. PICK P : /\ Product(s) = P[Len(s)] /\ P[0] = 1
                 /\ \A i \in 1..Len(s) : P[i] = s[i] * P[i - 1]
    BY <2>1, ProductUnfolds
  <2>3. /\ P[1] = s[1] * P[1 - 1] /\ P[2] = s[2] * P[2 - 1] /\ P[3] = s[3] * P[3 - 1]
        /\ P[4] = s[4] * P[4 - 1]
    BY <2>1, <2>2
  <2> QED  BY <2>1, <2>2, <2>3 DEF s
<1> QED  BY <1>1, <1>2, <1>3

\* A head with at least one anchor and one class.
HeadRight(head) ==
    /\ head.num_anchors \in Nat \ {0} /\ head.num_classes \in Nat \ {0}
    /\ head.channels_first \in BOOLEAN

\* The leading ones of a shape.
LEMMA BatchAxes ==
  ASSUME NEW x \in Nat \ {0}, NEW y \in Nat \ {0}
  PROVE  /\ WithoutBatch(<<x, y>>) = <<x, y>>
         /\ WithoutBatch(<<1, x, y>>) = <<x, y>>
         /\ WithoutBatch(<<1, 1, x, y>>) = <<x, y>>
         /\ WithoutBatch(<<2, x, y>>) = <<2, x, y>>
<1> DEFINE Ones(shape) == { k \in 0..Len(shape) :
                              /\ Len(shape) - k >= 2 \/ k = 0
                              /\ \A i \in 1..k : shape[i] = 1 }
           Top(shape) == CHOOSE k \in Ones(shape) : \A j \in Ones(shape) : j <= k
<1>1. ASSUME NEW shape, NEW k \in Nat, k \in Ones(shape), \A j \in Ones(shape) : j <= k,
             Ones(shape) \subseteq Nat
      PROVE  WithoutBatch(shape) = SubSeq(shape, k + 1, Len(shape))
  <2>1. WithoutBatch(shape) = SubSeq(shape, Top(shape) + 1, Len(shape))
    BY DEF WithoutBatch
  <2>2. Top(shape) = k
    <3> HIDE DEF Ones
    <3>1. Top(shape) \in Ones(shape) /\ \A j \in Ones(shape) : j <= Top(shape)
      BY <1>1
    <3> QED  BY <1>1, <3>1
  <2> QED  BY <2>1, <2>2
<1>2. WithoutBatch(<<x, y>>) = <<x, y>>
  <2> DEFINE s == <<x, y>>
  <2>1. Len(s) = 2
    OBVIOUS
  <2>2. 0 \in Ones(s) /\ Ones(s) \subseteq Nat /\ \A j \in Ones(s) : j <= 0
    BY <2>1
  <2>3. WithoutBatch(s) = SubSeq(s, 0 + 1, Len(s))
    <3> HIDE DEF Ones, s
    <3> QED  BY <1>1, <2>2
  <2> QED  BY <2>3
<1>3. WithoutBatch(<<1, x, y>>) = <<x, y>>
  <2> DEFINE s == <<1, x, y>>
  <2>1. Len(s) = 3 /\ s[1] = 1
    OBVIOUS
  <2>2. 1 \in Ones(s) /\ Ones(s) \subseteq Nat /\ \A j \in Ones(s) : j <= 1
    <3> HIDE DEF s
    <3> QED  BY <2>1
  <2>3. WithoutBatch(s) = SubSeq(s, 1 + 1, Len(s))
    <3> HIDE DEF Ones, s
    <3> QED  BY <1>1, <2>2
  <2> QED  BY <2>3
<1>4. WithoutBatch(<<1, 1, x, y>>) = <<x, y>>
  <2> DEFINE s == <<1, 1, x, y>>
  <2>1. Len(s) = 4 /\ s[1] = 1 /\ s[2] = 1
    OBVIOUS
  <2>2. 2 \in Ones(s) /\ Ones(s) \subseteq Nat /\ \A j \in Ones(s) : j <= 2
    <3> HIDE DEF s
    <3> QED  BY <2>1
  <2>3. WithoutBatch(s) = SubSeq(s, 2 + 1, Len(s))
    <3> HIDE DEF Ones, s
    <3> QED  BY <1>1, <2>2
  <2> QED  BY <2>3
<1>5. WithoutBatch(<<2, x, y>>) = <<2, x, y>>
  <2> DEFINE s == <<2, x, y>>
  <2>1. Len(s) = 3 /\ s[1] = 2
    OBVIOUS
  <2>2. 0 \in Ones(s) /\ Ones(s) \subseteq Nat /\ \A j \in Ones(s) : j <= 0
    <3> HIDE DEF s
    <3> QED  BY <2>1
  <2>3. WithoutBatch(s) = SubSeq(s, 0 + 1, Len(s))
    <3> HIDE DEF Ones, s
    <3> QED  BY <1>1, <2>2
  <2> QED  BY <2>3
<1> QED  BY <1>2, <1>3, <1>4, <1>5

\* The layout inferred from the shape of a head has as many values as the
\* tensor; with more anchors than attributes it is the layout of the head.
LEMMA LayoutInferred ==
  ASSUME NEW head, HeadRight(head), NEW output \in OutputShapes(head),
         yolo_layout_from_shape(output) # Throws
  PROVE  LET layout == yolo_layout_from_shape(output)
         IN /\ layout \in LayoutRecords
            /\ HeadSize(layout) = element_count(output)
            /\ HeadSize(layout) = head.num_anchors * (4 + head.num_classes)
            /\ head.num_anchors > 4 + head.num_classes =>
                  /\ layout.num_anchors = head.num_anchors
                  /\ layout.num_classes = head.num_classes
                  /\ layout.channels_first = head.channels_first
<1> DEFINE n == head.num_anchors
           at == 4 + head.num_classes
           x == IF head.channels_first THEN at ELSE n
           y == IF head.channels_first THEN n ELSE at
           layout == yolo_layout_from_shape(output)
<1>1. n \in Nat \ {0} /\ at \in Nat \ {0} /\ head.num_classes \in Nat \ {0}
      /\ head.channels_first \in BOOLEAN
  BY DEF HeadRight
<1>2. x \in Nat \ {0} /\ y \in Nat \ {0} /\ x * y = n * at /\ y * x = x * y
  BY <1>1
<1>3. output \in {<<x, y>>, <<1, x, y>>, <<1, 1, x, y>>, <<2, x, y>>}
  <2>1. CASE head.channels_first
    BY <2>1 DEF OutputShapes
  <2>2. CASE ~head.channels_first
    BY <2>2 DEF OutputShapes
  <2> QED  BY <2>1, <2>2
<1>x. (x = at /\ y = n /\ head.channels_first) \/ (x = n /\ y = at /\ ~head.channels_first)
  OBVIOUS
<1> HIDE DEF x, y
<1>5. output # <<2, x, y>>
  <2> SUFFICES ASSUME output = <<2, x, y>> PROVE FALSE
    OBVIOUS
  <2>1. WithoutBatch(output) = <<2, x, y>>
    BY <1>2, BatchAxes
  <2>2. Len(<<2, x, y>>) # 2
    OBVIOUS
  <2> QED  BY <2>1, <2>2 DEF yolo_layout_from_shape
<1>6. output = <<x, y>> \/ output = <<1, x, y>> \/ output = <<1, 1, x, y>>
  BY <1>3, <1>5
<1>7. WithoutBatch(output) = <<x, y>>
  BY <1>2, <1>6, BatchAxes
<1>8. element_count(output) = x * y
  <2>1. Product(output) = x * y
    <3>1. CASE output = <<x, y>>
      BY <1>2, <3>1, ProductsOf
    <3>2. CASE output = <<1, x, y>>
      <4>1. Product(<<1, x, y>>) = y * (x * 1)
        <5> DEFINE one == 1
        <5>1. one \in Nat \ {0}
          OBVIOUS
        <5> HIDE DEF one
        <5>2. Product(<<one, x, y>>) = y * (x * one)
          BY <1>2, <5>1, ProductsOf
        <5> QED  BY <5>2 DEF one
      <4> QED  BY <1>2, <3>2, <4>1
    <3>3. CASE output = <<1, 1, x, y>>
      <4>1. Product(<<1, 1, x, y>>) = y * (x * (1 * 1))
        <5> DEFINE one == 1
        <5>1. one \in Nat \ {0}
          OBVIOUS
        <5> HIDE DEF one
        <5>2. Product(<<one, one, x, y>>) = y * (x * (one * one))
          BY <1>2, <5>1, ProductsOf
        <5> QED  BY <5>2 DEF one
      <4>2. y * (x * (1 * 1)) = x * y
        BY <1>2
      <4> QED  BY <3>3, <4>1, <4>2
    <3> QED  BY <1>6, <3>1, <3>2, <3>3
  <2>2. ~has_dynamic_dim(output)
    <3>1. CASE output = <<x, y>>
      BY <1>2, <3>1 DEF has_dynamic_dim
    <3>2. CASE output = <<1, x, y>>
      BY <1>2, <3>2 DEF has_dynamic_dim
    <3>3. CASE output = <<1, 1, x, y>>
      BY <1>2, <3>3 DEF has_dynamic_dim
    <3> QED  BY <1>6, <3>1, <3>2, <3>3
  <2> QED  BY <2>1, <2>2 DEF element_count
<1> DEFINE small == IF x < y THEN x ELSE y
           large == IF x < y THEN y ELSE x
<1>9. /\ small >= 5
      /\ layout = [num_anchors |-> large, num_classes |-> small - 4, channels_first |-> x < y]
  <2>1. /\ Len(<<x, y>>) = 2 /\ <<x, y>>[1] = x /\ <<x, y>>[2] = y
    OBVIOUS
  <2>2. ~(x <= 0) /\ ~(y <= 0)
    BY <1>2
  <2>3. layout = IF small < 5 THEN Throws
                 ELSE [num_anchors |-> large, num_classes |-> small - 4, channels_first |-> x < y]
    BY <1>7, <2>1, <2>2 DEF yolo_layout_from_shape
  <2>4. ~(small < 5)
    <3> HIDE DEF small
    <3> QED  BY <2>3
  <2> QED  BY <1>2, <2>3, <2>4
<1>10. small \in Nat /\ large \in Nat \ {0} /\ small * large = x * y /\ large * small = x * y
  BY <1>2
<1> HIDE DEF small, large, layout
<1>11. /\ layout.num_anchors = large /\ layout.num_classes = small - 4
       /\ layout.channels_first <=> x < y
  BY <1>9
<1>12. layout \in LayoutRecords
  <2>1. small - 4 \in Nat \ {0} /\ (x < y) \in BOOLEAN
    BY <1>9, <1>10
  <2> QED  BY <1>9, <1>10, <2>1 DEF LayoutRecords
<1>13. HeadSize(layout) = x * y
  <2>1. 4 + (small - 4) = small
    BY <1>10
  <2> QED  BY <1>10, <1>11, <2>1 DEF HeadSize
<1>14. ASSUME n > at
       PROVE  /\ layout.num_anchors = n /\ layout.num_classes = head.num_classes
              /\ layout.channels_first = head.channels_first
  <2>1. small = at /\ large = n /\ (x < y <=> head.channels_first)
    BY <1>1, <1>x, <1>14 DEF small, large
  <2>2. small - 4 = head.num_classes
    BY <1>1, <2>1
  <2>3. layout.channels_first \in BOOLEAN
    BY <1>12 DEF LayoutRecords
  <2> QED  BY <1>1, <1>11, <2>1, <2>2, <2>3
<1> QED  BY <1>2, <1>8, <1>12, <1>13, <1>14 DEF layout

\* The anchor of a fake object.
FakeAnchor(anchors, k) == k * (anchors \div num_objects)

\* The fake objects have anchors of their own.
LEMMA FakeAnchors ==
  ASSUME NEW anchors \in Nat \ {0}, anchors >= 3
  PROVE  /\ \A k \in 0..2 : FakeAnchor(anchors, k) \in 0..(anchors - 1)
         /\ \A k, l \in 0..2 : FakeAnchor(anchors, k) = FakeAnchor(anchors, l) => k = l
<1> DEFINE d == anchors \div 3
<1>1. d \in Nat /\ d >= 1 /\ 3 * d <= anchors
  <2>1. d \in Int /\ 3 * d <= anchors /\ anchors < 3 * d + 3
    BY Division
  <2> HIDE DEF d
  <2> QED  BY <2>1
<1> HIDE DEF d
<1>2. \A k : FakeAnchor(anchors, k) = k * d
  BY DEF FakeAnchor, num_objects, d
<1>3. 0 * d = 0 /\ 1 * d = d /\ 2 * d = d + d
  BY <1>1
<1>4. \A k \in 0..2 : k = 0 \/ k = 1 \/ k = 2
  OBVIOUS
<1> QED  BY <1>1, <1>2, <1>3, <1>4

\* What the fake head holds in attribute i of object k.
FakeValue(k, i) == IF i < 4 THEN 10 * (k + 1) + i ELSE 9

\* The values FakeBackend writes.
LEMMA FakeHeadValues ==
  ASSUME NEW layout \in LayoutRecords, layout.channels_first, layout.num_anchors >= 3
  PROVE  LET n == layout.num_anchors
             c == layout.num_classes
             raw == FakeHead(c, n)
         IN /\ raw \in HeadTensors(layout)
            /\ \A k \in 0..2 :
                  /\ \A i \in 0..3 : raw[Place(layout, i, FakeAnchor(n, k))] = 10 * (k + 1) + i
                  /\ raw[Place(layout, 4 + (k % c), FakeAnchor(n, k))] = 9
            /\ \A a \in 0..(n - 1), d \in 0..(c - 1) :
                  \/ raw[Place(layout, 4 + d, a)] = 0
                  \/ \E k \in 0..2 : a = FakeAnchor(n, k) /\ d = k % c
<1> DEFINE n == layout.num_anchors
           c == layout.num_classes
           raw == FakeHead(c, n)
           A(k) == FakeAnchor(n, k)
           Values == UNION { {<<i * n + A(k), 10 * (k + 1) + i>> : i \in 0..3}
                             \cup {<<(4 + (k % c)) * n + A(k), 9>>} : k \in 0..2 }
           Attribute(k, i) == i \in 0..3 \/ i = 4 + (k % c)
           ks == 0..(3 + c)
<1>0. n \in Nat \ {0} /\ c \in Nat \ {0} /\ n >= 3
  BY DEF LayoutRecords
<1>1. \A k \in 0..2 : k % c \in 0..(c - 1)
  BY <1>0
<1>2. \A k \in 0..2 : \A i : Attribute(k, i) => i \in ks
  <2>1. ASSUME NEW k \in 0..2, NEW i, Attribute(k, i) PROVE i \in ks
    <3> DEFINE m == k % c
    <3>1. m \in 0..(c - 1) /\ (i \in 0..3 \/ i = 4 + m)
      BY <1>1, <2>1
    <3> HIDE DEF m
    <3> QED  BY <1>0, <3>1
  <2> QED  BY <2>1
<1>3. \A i, a : Place(layout, i, a) = i * n + a
  BY DEF Place
<1>4. /\ \A k \in 0..2 : A(k) \in 0..(n - 1)
      /\ \A k, l \in 0..2 : A(k) = A(l) => k = l
  BY <1>0, FakeAnchors
<1>5. raw = [j \in 0..((4 + c) * n - 1) |->
               IF \E v \in Values : v[1] = j THEN (CHOOSE v \in Values : v[1] = j)[2] ELSE 0]
  BY DEF FakeHead, num_objects, FakeAnchor
<1>6. \A v \in Values : \E k \in 0..2, i \in ks :
         Attribute(k, i) /\ v = <<Place(layout, i, A(k)), FakeValue(k, i)>>
  <2> SUFFICES ASSUME NEW v \in Values
               PROVE  \E k \in 0..2, i \in ks :
                        Attribute(k, i) /\ v = <<Place(layout, i, A(k)), FakeValue(k, i)>>
    OBVIOUS
  <2>1. PICK k \in 0..2 : v \in {<<i * n + A(k), 10 * (k + 1) + i>> : i \in 0..3}
                                \cup {<<(4 + (k % c)) * n + A(k), 9>>}
    OBVIOUS
  <2>2. CASE \E i \in 0..3 : v = <<i * n + A(k), 10 * (k + 1) + i>>
    <3>1. PICK i \in 0..3 : v = <<i * n + A(k), 10 * (k + 1) + i>>
      BY <2>2
    <3>2. Attribute(k, i) /\ i \in ks
      BY <1>2
    <3>3. FakeValue(k, i) = 10 * (k + 1) + i
      BY DEF FakeValue
    <3> HIDE DEF A, Attribute
    <3> QED  BY <1>3, <3>1, <3>2, <3>3
  <2>3. CASE v = <<(4 + (k % c)) * n + A(k), 9>>
    <3> DEFINE i == 4 + (k % c)
    <3>1. Attribute(k, i) /\ i \in ks
      BY <1>2
    <3>2. ~(i < 4)
      BY <1>0, <1>1
    <3>3. FakeValue(k, i) = 9
      BY <3>2 DEF FakeValue
    <3>4. v = <<i * n + A(k), 9>>
      BY <2>3
    <3> HIDE DEF A, Attribute, i
    <3> QED  BY <1>3, <3>1, <3>3, <3>4
  <2> QED  BY <2>1, <2>2, <2>3
<1>7. \A k \in 0..2, i \in ks : Attribute(k, i) =>
         <<Place(layout, i, A(k)), FakeValue(k, i)>> \in Values
  <2> SUFFICES ASSUME NEW k \in 0..2, NEW i \in ks, Attribute(k, i)
               PROVE  <<Place(layout, i, A(k)), FakeValue(k, i)>> \in Values
    OBVIOUS
  <2>1. CASE i \in 0..3
    <3>1. FakeValue(k, i) = 10 * (k + 1) + i
      BY <2>1 DEF FakeValue
    <3> HIDE DEF A
    <3> QED  BY <1>3, <2>1, <3>1
  <2>2. CASE i = 4 + (k % c)
    <3>1. ~(i < 4)
      BY <1>0, <1>1, <2>2
    <3>2. FakeValue(k, i) = 9
      BY <3>1 DEF FakeValue
    <3> HIDE DEF A
    <3> QED  BY <1>3, <2>2, <3>2
  <2> QED  BY <2>1, <2>2
<1> HIDE DEF A, Values, Attribute, raw
<1>8. \A k, l \in 0..2, i, j \in ks :
         Place(layout, i, A(k)) = Place(layout, j, A(l)) => k = l /\ i = j
  <2> SUFFICES ASSUME NEW k \in 0..2, NEW l \in 0..2, NEW i \in ks, NEW j \in ks,
                      Place(layout, i, A(k)) = Place(layout, j, A(l))
               PROVE  k = l /\ i = j
    OBVIOUS
  <2>1. i = j /\ A(k) = A(l)
    BY <1>4, Places
  <2> QED  BY <1>4, <2>1
<1>9. HeadSize(layout) = (4 + c) * n
  BY <1>0 DEF HeadSize
<1>10. ASSUME NEW k \in 0..2, NEW i \in ks, Attribute(k, i)
       PROVE  raw[Place(layout, i, A(k))] = FakeValue(k, i)
  <2> DEFINE p == Place(layout, i, A(k))
             v == CHOOSE w \in Values : w[1] = p
  <2>1. p \in 0..((4 + c) * n - 1)
    BY <1>4, <1>9, Places
  <2>2. \E w \in Values : w[1] = p
    <3>1. <<p, FakeValue(k, i)>> \in Values /\ <<p, FakeValue(k, i)>>[1] = p
      BY <1>7, <1>10
    <3> QED  BY <3>1
  <2>3. v \in Values /\ v[1] = p
    BY <2>2
  <2>4. raw[p] = v[2]
    BY <1>5, <2>1, <2>2
  <2> HIDE DEF v
  <2>5. PICK l \in 0..2, j \in ks : v = <<Place(layout, j, A(l)), FakeValue(l, j)>>
    BY <1>6, <2>3
  <2>6. Place(layout, j, A(l)) = Place(layout, i, A(k)) /\ v[2] = FakeValue(l, j)
    BY <2>3, <2>5
  <2>7. l = k /\ j = i
    BY <1>8, <2>6
  <2> QED  BY <2>4, <2>6, <2>7
<1>11. ASSUME NEW j \in 0..((4 + c) * n - 1) PROVE raw[j] \in Nat
  <2>1. CASE \E v \in Values : v[1] = j
    <3> DEFINE v == CHOOSE w \in Values : w[1] = j
    <3>1. v \in Values /\ raw[j] = v[2]
      BY <1>5, <2>1
    <3> HIDE DEF v
    <3>2. PICK l \in 0..2, i \in ks : v = <<Place(layout, i, A(l)), FakeValue(l, i)>>
      BY <1>6, <3>1
    <3>3. FakeValue(l, i) \in Nat
      BY <1>0 DEF FakeValue
    <3> QED  BY <3>1, <3>2, <3>3
  <2>2. CASE ~\E v \in Values : v[1] = j
    BY <1>5, <2>2
  <2> QED  BY <2>1, <2>2
<1>12. raw \in HeadTensors(layout)
  <2>1. raw = [j \in 0..((4 + c) * n - 1) |-> raw[j]]
    BY <1>5
  <2>2. raw \in [0..((4 + c) * n - 1) -> Nat]
    BY <1>11, <2>1
  <2> QED  BY <1>9, <2>2 DEF HeadTensors
<1>13. ASSUME NEW k \in 0..2
       PROVE  /\ \A i \in 0..3 : raw[Place(layout, i, A(k))] = 10 * (k + 1) + i
              /\ raw[Place(layout, 4 + (k % c), A(k))] = 9
  <2>1. ASSUME NEW i \in 0..3 PROVE raw[Place(layout, i, A(k))] = 10 * (k + 1) + i
    <3>1. Attribute(k, i)
      BY DEF Attribute
    <3>2. raw[Place(layout, i, A(k))] = FakeValue(k, i)
      BY <1>2, <1>10, <3>1
    <3> QED  BY <3>2 DEF FakeValue
  <2>2. raw[Place(layout, 4 + (k % c), A(k))] = 9
    <3> DEFINE i == 4 + (k % c)
    <3>1. Attribute(k, i) /\ ~(i < 4)
      BY <1>0, <1>1 DEF Attribute
    <3> HIDE DEF i
    <3>2. raw[Place(layout, i, A(k))] = FakeValue(k, i)
      BY <1>2, <1>10, <3>1
    <3> QED  BY <3>1, <3>2 DEF FakeValue, i
  <2> QED  BY <2>1, <2>2
<1>14. ASSUME NEW a \in 0..(n - 1), NEW d \in 0..(c - 1),
              raw[Place(layout, 4 + d, a)] # 0
       PROVE  \E k \in 0..2 : a = A(k) /\ d = k % c
  <2> DEFINE i == 4 + d
             p == Place(layout, i, a)
  <2>0. i \in ks
    BY <1>0
  <2> HIDE DEF i
  <2>1. p \in 0..((4 + c) * n - 1)
    BY <1>9, <2>0, Places
  <2>2. \E v \in Values : v[1] = p
    BY <1>5, <1>14, <2>1 DEF i
  <2>3. PICK v \in Values : v[1] = p
    BY <2>2
  <2>4. PICK k \in 0..2, j \in ks :
           Attribute(k, j) /\ v = <<Place(layout, j, A(k)), FakeValue(k, j)>>
    BY <1>6
  <2>5. Place(layout, j, A(k)) = Place(layout, i, a)
    BY <2>3, <2>4
  <2>6. j = i /\ A(k) = a
    BY <1>4, <2>0, <2>5, Places
  <2>7. i = 4 + (k % c)
    <3>1. ~(i \in 0..3)
      BY <1>0 DEF i
    <3> QED  BY <2>4, <2>6, <3>1 DEF Attribute
  <2>8. d = k % c
    <3> DEFINE m == k % c
    <3>1. m \in Int /\ 4 + d = 4 + m
      BY <1>1, <2>7 DEF i
    <3> HIDE DEF m
    <3>2. d = m
      BY <1>0, <3>1
    <3> QED  BY <3>2 DEF m
  <2> QED  BY <2>6, <2>8
<1> QED  BY <1>12, <1>13, <1>14 DEF raw, A

\* The detections are the three boxes of the fake model with their classes.
FakeBoxes(out, classes) ==
    { <<d.box, d.class_id>> : d \in {out[i] : i \in 1..Len(out)} } =
    { <<from_center(10 * k, 10 * k + 1, 10 * k + 2, 10 * k + 3), (k - 1) % classes>> :
      k \in 1..num_objects }

\* Decoding the fake head in its own layout.
LEMMA FakeDetections ==
  ASSUME NEW dec, DecoderRecord(dec), dec.layout \in LayoutRecords,
         dec.layout.channels_first, dec.layout.num_anchors >= 3
  PROVE  LET raw == FakeHead(dec.layout.num_classes, dec.layout.num_anchors)
         IN FakeBoxes(decode(dec, raw, 2).out, dec.layout.num_classes)
<1> DEFINE layout == dec.layout
           n == layout.num_anchors
           c == layout.num_classes
           raw == FakeHead(c, n)
           A(k) == FakeAnchor(n, k)
           out == decode(dec, raw, 2).out
           anchors == 0..(n - 1)
           BoxOf(k) == from_center(10 * k, 10 * k + 1, 10 * k + 2, 10 * k + 3)
<1>0. n \in Nat \ {0} /\ c \in Nat \ {0} /\ n >= 3
  BY DEF LayoutRecords
<1>1. /\ raw \in HeadTensors(layout)
      /\ \A k \in 0..2 :
            /\ \A i \in 0..3 : raw[Place(layout, i, A(k))] = 10 * (k + 1) + i
            /\ raw[Place(layout, 4 + (k % c), A(k))] = 9
      /\ \A a \in anchors, d \in 0..(c - 1) :
            \/ raw[Place(layout, 4 + d, a)] = 0
            \/ \E k \in 0..2 : a = A(k) /\ d = k % c
  BY FakeHeadValues
<1>2. /\ \A k \in 0..2 : A(k) \in anchors
      /\ \A k, l \in 0..2 : A(k) = A(l) => k = l
  BY <1>0, FakeAnchors
<1>3. \E class, order : DecodedRight(layout, raw, 2, out, class, order)
  BY <1>1, DecodeResult
<1> HIDE DEF raw, A, out
<1>4. PICK class, order : DecodedRight(layout, raw, 2, out, class, order)
  BY <1>3
<1>5. /\ \A a \in anchors : BestClass(layout, raw, a, class[a])
      /\ order \in [1..Len(out) -> anchors]
      /\ \A a \in anchors : raw[Place(layout, 4 + class[a], a)] > 2
                            <=> \E k \in 1..Len(out) : order[k] = a
      /\ \A k \in 1..Len(out) : out[k] = Decoded(layout, raw, order[k], class[order[k]])
  BY <1>4 DEF DecodedRight
<1>6. \A a \in anchors : class[a] \in 0..(c - 1)
  BY <1>5 DEF BestClass, FirstBest
<1>7. ASSUME NEW k \in 0..2 PROVE k % c \in 0..(c - 1)
  BY <1>0
<1>8. ASSUME NEW k \in 0..2
      PROVE  Decoded(layout, raw, A(k), k % c).box = BoxOf(k + 1)
  <2>1. /\ raw[Place(layout, 0, A(k))] = 10 * (k + 1) + 0
        /\ raw[Place(layout, 1, A(k))] = 10 * (k + 1) + 1
        /\ raw[Place(layout, 2, A(k))] = 10 * (k + 1) + 2
        /\ raw[Place(layout, 3, A(k))] = 10 * (k + 1) + 3
    BY <1>1
  <2>2. 10 * (k + 1) + 0 = 10 * (k + 1)
    OBVIOUS
  <2> QED  BY <2>1, <2>2 DEF Decoded
<1>9. ASSUME NEW k \in 0..2
      PROVE  class[A(k)] = k % c /\ \E i \in 1..Len(out) : order[i] = A(k)
  <2> DEFINE a == A(k)
             s == raw[Place(layout, 4 + class[a], a)]
  <2>1. a \in anchors /\ class[a] \in 0..(c - 1)
    BY <1>2, <1>6
  <2>2. raw[Place(layout, 4 + (k % c), a)] <= s
    BY <1>5, <1>7, <2>1 DEF BestClass, FirstBest
  <2>3. 9 <= s
    BY <1>1, <2>2
  <2>4. s # 0 /\ s > 2
    <3>1. s \in Nat
      BY <1>1, <2>1, HeadValues
    <3> HIDE DEF s
    <3> QED  BY <2>3, <3>1
  <2>5. PICK l \in 0..2 : a = A(l) /\ class[a] = l % c
    BY <1>1, <2>1, <2>4
  <2>6. l = k
    BY <1>2, <2>5
  <2> QED  BY <1>5, <2>1, <2>4, <2>5, <2>6
<1>10. ASSUME NEW i \in 1..Len(out)
       PROVE  \E k \in 0..2 : order[i] = A(k) /\ class[order[i]] = k % c
  <2>1. order[i] \in anchors /\ class[order[i]] \in 0..(c - 1)
    BY <1>5, <1>6
  <2>2. raw[Place(layout, 4 + class[order[i]], order[i])] > 2
    BY <1>5, <2>1
  <2>3. raw[Place(layout, 4 + class[order[i]], order[i])] # 0
    BY <2>2
  <2> QED  BY <1>1, <2>1, <2>3
<1> DEFINE Found == { <<d.box, d.class_id>> : d \in {out[i] : i \in 1..Len(out)} }
           Wanted == { <<BoxOf(k), (k - 1) % c>> : k \in 1..3 }
<1> HIDE DEF BoxOf
<1>11. Found \subseteq Wanted
  <2> SUFFICES ASSUME NEW i \in 1..Len(out) PROVE <<out[i].box, out[i].class_id>> \in Wanted
    OBVIOUS
  <2>1. PICK k \in 0..2 : order[i] = A(k) /\ class[order[i]] = k % c
    BY <1>10
  <2>2. out[i] = Decoded(layout, raw, A(k), k % c)
    BY <1>5, <2>1
  <2>3. out[i].box = BoxOf(k + 1) /\ out[i].class_id = k % c
    <3>1. Decoded(layout, raw, A(k), k % c).class_id = k % c
      BY DEF Decoded
    <3> QED  BY <1>8, <2>2, <3>1
  <2>4. k + 1 \in 1..3 /\ (k + 1) - 1 = k
    OBVIOUS
  <2> QED  BY <2>3, <2>4
<1>12. Wanted \subseteq Found
  <2> SUFFICES ASSUME NEW m \in 1..3 PROVE <<BoxOf(m), (m - 1) % c>> \in Found
    OBVIOUS
  <2>1. PICK k \in 0..2 : m = k + 1 /\ m - 1 = k
    <3>1. m - 1 \in 0..2 /\ m = (m - 1) + 1
      OBVIOUS
    <3> QED  BY <3>1
  <2>2. PICK i \in 1..Len(out) : order[i] = A(k)
    BY <1>9
  <2>3. class[A(k)] = k % c
    BY <1>9
  <2>4. out[i] = Decoded(layout, raw, A(k), k % c)
    BY <1>5, <2>2, <2>3
  <2>5. out[i].box = BoxOf(m) /\ out[i].class_id = (m - 1) % c
    <3>1. Decoded(layout, raw, A(k), k % c).class_id = k % c
      BY DEF Decoded
    <3> QED  BY <1>8, <2>1, <2>4, <3>1
  <2> QED  BY <2>5
<1> QED  BY <1>11, <1>12 DEF FakeBoxes, raw, out, num_objects, BoxOf

\* The elements of an input tensor are enough for the planes of the letterbox.
LEMMA InputElements ==
  ASSUME NEW input \in [1..4 -> Nat \ {0}], input[2] = 3
  PROVE  /\ element_count(input) \in Nat
         /\ element_count(input) >= 3 * input[4] * input[3]
<1> DEFINE b == input[1]
           h == input[3]
           w == input[4]
<1>1. input \in Seq(Int) /\ Len(input) = 4
  <2>1. Len(input) = 4
    BY LengthOfFunction
  <2>2. input \in [1..4 -> Int]
    OBVIOUS
  <2>3. \A n \in Nat : [1..n -> Int] \subseteq Seq(Int)
    OBVIOUS
  <2> QED  BY <2>1, <2>2, <2>3
<1>2. PICK P : /\ Product(input) = P[Len(input)] /\ P[0] = 1
               /\ \A i \in 1..Len(input) : P[i] = input[i] * P[i - 1]
  BY <1>1, ProductUnfolds
<1>3. /\ P[1] = input[1] * P[1 - 1] /\ P[2] = input[2] * P[2 - 1]
      /\ P[3] = input[3] * P[3 - 1] /\ P[4] = input[4] * P[4 - 1]
  BY <1>1, <1>2
<1>4. b \in Nat \ {0} /\ h \in Nat \ {0} /\ w \in Nat \ {0} /\ input[2] = 3
  OBVIOUS
<1>5. Product(input) = w * (h * (3 * b))
  BY <1>1, <1>2, <1>3
<1>6. element_count(input) = Product(input)
  BY DEF element_count, has_dynamic_dim
<1> HIDE DEF b, h, w
<1>7. w * (h * (3 * b)) = (3 * (w * h)) * b /\ (3 * w) * h = 3 * (w * h) /\ w * h \in Nat
  BY <1>4
<1> DEFINE M == 3 * (w * h)
<1>8. M \in Nat /\ M * 1 <= M * b
  <2>1. M \in Nat
    BY <1>7
  <2> HIDE DEF M
  <2> QED  BY <1>4, <2>1, ProductMonotone
<1>9. M * b \in Nat /\ M * 1 = M
  <2> HIDE DEF M
  <2> QED  BY <1>4, <1>8
<1> QED  BY <1>5, <1>6, <1>7, <1>8, <1>9 DEF w, h

\* What a backend declares.
Declared(m) ==
    /\ HeadRight(m.head) /\ m.output \in OutputShapes(m.head)
    /\ m.input \in [1..4 -> Nat \ {0}]
    /\ m.fake \in BOOLEAN
    /\ m.fake => m.head.channels_first /\ m.head.num_anchors >= 3

BackendMade(m) ==
    /\ m = [phase |-> "backend", head |-> m.head, input |-> m.input, output |-> m.output,
            fake |-> m.fake]
    /\ Declared(m)

\* What the Pipeline constructor has established, and what holds at the start of
\* each stage of a frame.
PipelineMade(m) ==
    /\ m = [phase |-> m.phase, head |-> m.head, fake |-> m.fake, input |-> m.input,
            output |-> m.output, width |-> m.width, height |-> m.height, dec |-> m.dec,
            frame_input |-> m.frame_input, frame_output |-> m.frame_output, raw |-> m.raw]
    /\ m.phase \in {"preprocess", "infer", "postprocess"}
    /\ Declared(m)
    /\ m.input[2] = 3 /\ m.width = m.input[4] /\ m.height = m.input[3]
    /\ m.frame_input = element_count(m.input) /\ m.frame_output = element_count(m.output)
    /\ yolo_layout_from_shape(m.output) # Throws
    /\ DecoderRecord(m.dec) /\ m.dec.layout = yolo_layout_from_shape(m.output)
    /\ m.phase = "postprocess" /\ m.fake =>
          m.raw = FakeHead(m.head.num_classes, m.head.num_anchors)
    /\ m.dec.out # <<>> /\ m.head.num_anchors > 4 + m.head.num_classes =>
          FakeBoxes(m.dec.out, m.head.num_classes)

ModelInv ==
    \/ md = [phase |-> "start"] \/ md = [phase |-> "rejected"]
    \/ BackendMade(md) \/ PipelineMade(md)

\* A decoder stays a decoder for its layout.
LEMMA DecodeKeepsLayout ==
  ASSUME NEW dec, DecoderRecord(dec), NEW raw, NEW threshold
  PROVE  /\ DecoderRecord(decode(dec, raw, threshold))
         /\ decode(dec, raw, threshold).layout = dec.layout
<1> DEFINE new == decode(dec, raw, threshold)
<1>1. PICK best, out : new = [dec EXCEPT !.best = best, !.out = out]
  BY Zenon DEF decode
<1> HIDE DEF new
<1>2. new = [layout |-> dec.layout, best |-> best, out |-> out]
  BY <1>1 DEF DecoderRecord
<1>3. new.layout = dec.layout /\ new.best = best /\ new.out = out
  BY <1>2
<1> QED  BY <1>2, <1>3 DEF DecoderRecord, new

\* The phase of a made backend or pipeline.
LEMMA ModelPhase ==
  ASSUME ModelInv
  PROVE  /\ md.phase # "failed"
         /\ md.phase = "backend" => BackendMade(md)
         /\ md.phase \in {"preprocess", "infer", "postprocess"} => PipelineMade(md)
<1>1. CASE md = [phase |-> "start"]
  <2>1. md.phase = "start"
    BY <1>1
  <2> QED  BY <2>1
<1>2. CASE md = [phase |-> "rejected"]
  <2>1. md.phase = "rejected"
    BY <1>2
  <2> QED  BY <2>1
<1>3. CASE BackendMade(md)
  <2>1. md.phase = "backend"
    BY <1>3 DEF BackendMade
  <2> QED  BY <1>3, <2>1
<1>4. CASE PipelineMade(md)
  <2>1. md.phase \in {"preprocess", "infer", "postprocess"}
    BY <1>4 DEF PipelineMade
  <2> QED  BY <1>4, <2>1
<1> QED  BY <1>1, <1>2, <1>3, <1>4 DEF ModelInv

\* A backend is made of what it declares.
LEMMA BackendIs ==
  ASSUME NEW head, HeadRight(head), NEW input \in [1..4 -> Nat \ {0}],
         NEW output \in OutputShapes(head), NEW fake \in BOOLEAN,
         fake => head.channels_first /\ head.num_anchors >= 3
  PROVE  BackendMade(Backend(head, input, output, fake))
<1> DEFINE m == Backend(head, input, output, fake)
<1>1. m = [phase |-> "backend", head |-> head, input |-> input, output |-> output,
           fake |-> fake]
  BY DEF Backend
<1> HIDE DEF m
<1>2. m.head = head /\ m.input = input /\ m.output = output /\ m.fake = fake
  BY <1>1
<1>3. Declared(m)
  BY <1>2 DEF Declared
<1>4. m = [phase |-> "backend", head |-> m.head, input |-> m.input, output |-> m.output,
           fake |-> m.fake]
  BY <1>1, <1>2
<1> QED  BY <1>3, <1>4 DEF BackendMade, m

\* A fake backend has the shapes the invariant asks for.
LEMMA FakeMade == ASSUME make_fake PROVE ModelInv'
<1>1. PICK s \in FakeInputs, classes \in FakeClasses :
        LET anchors == (s \div 8) * (s \div 8) + (s \div 16) * (s \div 16)
                       + (s \div 32) * (s \div 32)
            head == [kind |-> "raw", num_anchors |-> anchors, num_classes |-> classes,
                     channels_first |-> TRUE]
        IN md' = IF s <= 0 \/ classes <= 0 \/ anchors <= 0 \/ num_objects > anchors
                 THEN [phase |-> "rejected"]
                 ELSE Backend(head, <<1, 3, s, s>>, <<1, 4 + classes, anchors>>, TRUE)
  BY DEF make_fake
<1> DEFINE anchors == (s \div 8) * (s \div 8) + (s \div 16) * (s \div 16)
                      + (s \div 32) * (s \div 32)
           head == [kind |-> "raw", num_anchors |-> anchors, num_classes |-> classes,
                    channels_first |-> TRUE]
           input == <<1, 3, s, s>>
           output == <<1, 4 + classes, anchors>>
<1>2. s \in Nat /\ classes \in Nat
  BY BackendsAssumption
<1>3. anchors \in Int
  <2>1. s \div 8 \in Int /\ s \div 16 \in Int /\ s \div 32 \in Int
    BY <1>2
  <2> QED  BY <2>1
<1>4. \/ md' = [phase |-> "rejected"]
      \/ /\ ~(s <= 0) /\ ~(classes <= 0) /\ ~(anchors <= 0) /\ ~(3 > anchors)
         /\ md' = Backend(head, input, output, TRUE)
  BY <1>1 DEF num_objects
<1> HIDE DEF anchors
<1>5. CASE /\ ~(s <= 0) /\ ~(classes <= 0) /\ ~(anchors <= 0) /\ ~(3 > anchors)
           /\ md' = Backend(head, input, output, TRUE)
  <2>1. s \in Nat \ {0} /\ classes \in Nat \ {0} /\ anchors \in Nat \ {0} /\ anchors >= 3
    BY <1>2, <1>3, <1>5
  <2>2. head.num_anchors = anchors /\ head.num_classes = classes /\ head.channels_first = TRUE
    OBVIOUS
  <2> HIDE DEF head
  <2>3. HeadRight(head)
    BY <2>1, <2>2 DEF HeadRight
  <2>4. input \in [1..4 -> Nat \ {0}]
    BY <2>1
  <2>5. output \in OutputShapes(head)
    BY <2>2 DEF OutputShapes
  <2> HIDE DEF input, output
  <2>6. BackendMade(Backend(head, input, output, TRUE))
    BY <2>1, <2>2, <2>3, <2>4, <2>5, BackendIs
  <2> QED  BY <1>5, <2>6 DEF ModelInv
<1>6. CASE md' = [phase |-> "rejected"]
  BY <1>6 DEF ModelInv
<1> QED  BY <1>4, <1>5, <1>6

\* An ONNX model has them, or is refused.
LEMMA OnnxMade == ASSUME make_onnx PROVE ModelInv'
<1>1. PICK head \in Heads, declared \in InputShapes :
        \E output \in OutputShapes(head) :
           md' = IF Len(declared) # 4 THEN [phase |-> "rejected"]
                 ELSE Backend(head, Resolved(declared), output, FALSE)
  BY DEF make_onnx
<1>2. PICK output \in OutputShapes(head) :
           md' = IF Len(declared) # 4 THEN [phase |-> "rejected"]
                 ELSE Backend(head, Resolved(declared), output, FALSE)
  BY <1>1
<1>3. CASE Len(declared) # 4
  BY <1>2, <1>3 DEF ModelInv
<1>4. CASE Len(declared) = 4
  <2>1. HeadRight(head)
    <3>1. \/ head \in [kind : {"raw"}, num_anchors : HeadAnchors, num_classes : HeadClasses,
                       channels_first : BOOLEAN]
          \/ head \in [kind : {"end_to_end"}, num_anchors : HeadAnchors, num_classes : {2},
                       channels_first : {FALSE}]
      BY DEF Heads
    <3>2. /\ head.num_anchors \in HeadAnchors
          /\ head.num_classes \in HeadClasses \/ head.num_classes = 2
          /\ head.channels_first \in BOOLEAN
      BY <3>1
    <3>3. head.num_anchors \in Nat \ {0} /\ head.num_classes \in Nat \ {0}
      <4>1. HeadAnchors \subseteq Nat \ {0} /\ HeadClasses \subseteq Nat \ {0}
        BY BackendsAssumption
      <4>2. 2 \in Nat \ {0}
        OBVIOUS
      <4> QED  BY <3>2, <4>1, <4>2
    <3> QED  BY <3>2, <3>3 DEF HeadRight
  <2>2. \A i \in 1..4 : declared[i] \in Int
    <3>1. declared # <<3, InputSide, InputSide>>
      BY <1>4
    <3>2. PICK b \in {Dynamic, 1, 2}, c \in {Dynamic, 1, 3}, h \in {Dynamic, 1},
               w \in {Dynamic, InputSide} : declared = <<b, c, h, w>>
      BY <3>1 DEF InputShapes
    <3>3. b \in Int /\ c \in Int /\ h \in Int /\ w \in Int
      BY BackendsAssumption DEF Dynamic
    <3>4. \A i \in 1..4 : i = 1 \/ i = 2 \/ i = 3 \/ i = 4
      OBVIOUS
    <3>5. declared[1] = b /\ declared[2] = c /\ declared[3] = h /\ declared[4] = w
      BY <3>2
    <3> QED  BY <3>3, <3>4, <3>5
  <2>3. Resolved(declared) \in [1..4 -> Nat \ {0}]
    <3> DEFINE default == <<1, 3, InputSide, InputSide>>
    <3>1. \A i \in 1..4 : default[i] \in Nat \ {0}
      BY BackendsAssumption
    <3> HIDE DEF default
    <3>2. \A i \in 1..4 :
             (IF declared[i] > 0 THEN declared[i] ELSE default[i]) \in Nat \ {0}
      BY <2>2, <3>1
    <3> QED  BY <3>2 DEF Resolved, default
  <2>4. BackendMade(Backend(head, Resolved(declared), output, FALSE))
    BY <2>1, <2>3, BackendIs
  <2> QED  BY <1>2, <1>4, <2>4 DEF ModelInv
<1> QED  BY <1>3, <1>4

\* The constructor of Pipeline accepts only shapes that fit each other.
LEMMA PipelineConstructed == ASSUME ModelInv, new_pipeline PROVE ModelInv'
<1> DEFINE width == input_dimension(md.input, 3)
           height == input_dimension(md.input, 2)
           layout == yolo_layout_from_shape(md.output)
           new == [phase |-> "preprocess", head |-> md.head, fake |-> md.fake,
                   input |-> md.input, output |-> md.output,
                   width |-> width, height |-> height, dec |-> NewDecoder(layout),
                   frame_input |-> element_count(md.input),
                   frame_output |-> element_count(md.output), raw |-> <<>>]
<1>1. BackendMade(md)
  BY ModelPhase DEF new_pipeline
<1>2. \/ md' = [phase |-> "rejected"]
      \/ width # 0 /\ height # 0 /\ layout # Throws /\ md' = new
  BY DEF new_pipeline
<1>3. CASE md' = [phase |-> "rejected"]
  BY <1>3 DEF ModelInv
<1>4. CASE width # 0 /\ height # 0 /\ layout # Throws /\ md' = new
  <2>1. Declared(md)
    BY <1>1 DEF BackendMade
  <2>2. md.input \in [1..4 -> Nat \ {0}] /\ Len(md.input) = 4
    BY <2>1, LengthOfFunction DEF Declared
  <2>3. md.input[2] = 3 /\ width = md.input[4] /\ height = md.input[3]
    BY <1>4, <2>2 DEF input_dimension
  <2> DEFINE dec == NewDecoder(layout)
  <2>4. DecoderRecord(dec) /\ dec.layout = layout /\ dec.out = <<>>
    BY DEF NewDecoder, DecoderRecord
  <2> HIDE DEF width, height, layout, dec
  <2>5. md' = [phase |-> "preprocess", head |-> md.head, fake |-> md.fake,
               input |-> md.input, output |-> md.output,
               width |-> width, height |-> height, dec |-> dec,
               frame_input |-> element_count(md.input),
               frame_output |-> element_count(md.output), raw |-> <<>>]
    BY <1>4 DEF dec
  <2>6. /\ md'.phase = "preprocess" /\ md'.head = md.head /\ md'.fake = md.fake
        /\ md'.input = md.input /\ md'.output = md.output
        /\ md'.width = width /\ md'.height = height /\ md'.dec = dec
        /\ md'.frame_input = element_count(md.input)
        /\ md'.frame_output = element_count(md.output) /\ md'.raw = <<>>
    BY <2>5
  <2>7. Declared(md')
    BY <2>1, <2>6 DEF Declared
  <2>8. yolo_layout_from_shape(md'.output) = layout /\ layout # Throws
    BY <1>4, <2>6 DEF layout
  <2>9. md' = [phase |-> md'.phase, head |-> md'.head, fake |-> md'.fake, input |-> md'.input,
            output |-> md'.output, width |-> md'.width, height |-> md'.height, dec |-> md'.dec,
            frame_input |-> md'.frame_input, frame_output |-> md'.frame_output, raw |-> md'.raw]
    BY <2>5, <2>6
  <2>10. PipelineMade(md')
    BY <2>3, <2>4, <2>6, <2>7, <2>8, <2>9 DEF PipelineMade
  <2> QED  BY <2>10 DEF ModelInv
<1> QED  BY <1>2, <1>3, <1>4

\* A pipeline of which only phase, tensor and decoder change.
LEMMA StageDone ==
  ASSUME NEW m, PipelineMade(m), NEW phase \in {"preprocess", "infer", "postprocess"},
         NEW raw, NEW dec, DecoderRecord(dec), dec.layout = m.dec.layout,
         phase = "postprocess" /\ m.fake =>
            raw = FakeHead(m.head.num_classes, m.head.num_anchors),
         dec.out # <<>> /\ m.head.num_anchors > 4 + m.head.num_classes =>
            FakeBoxes(dec.out, m.head.num_classes)
  PROVE  PipelineMade([m EXCEPT !.phase = phase, !.raw = raw, !.dec = dec])
<1> DEFINE new == [m EXCEPT !.phase = phase, !.raw = raw, !.dec = dec]
<1>1. m = [phase |-> m.phase, head |-> m.head, fake |-> m.fake, input |-> m.input,
            output |-> m.output, width |-> m.width, height |-> m.height, dec |-> m.dec,
            frame_input |-> m.frame_input, frame_output |-> m.frame_output, raw |-> m.raw]
  BY DEF PipelineMade
<1>2. new = [phase |-> phase, head |-> m.head, fake |-> m.fake, input |-> m.input,
            output |-> m.output, width |-> m.width, height |-> m.height, dec |-> dec,
            frame_input |-> m.frame_input, frame_output |-> m.frame_output, raw |-> raw]
  <2> DEFINE p == m.phase
             h == m.head
             f == m.fake
             i == m.input
             o == m.output
             w == m.width
             t == m.height
             d == m.dec
             fi == m.frame_input
             fo == m.frame_output
             r == m.raw
  <2>1. m = [phase |-> p, head |-> h, fake |-> f, input |-> i, output |-> o, width |-> w,
             height |-> t, dec |-> d, frame_input |-> fi, frame_output |-> fo, raw |-> r]
    BY <1>1, Zenon
  <2> HIDE DEF p, h, f, i, o, w, t, d, fi, fo, r
  <2>2. new =
         [phase |-> phase, head |-> h, fake |-> f, input |-> i, output |-> o, width |-> w,
          height |-> t, dec |-> dec, frame_input |-> fi, frame_output |-> fo, raw |-> raw]
    <3> DEFINE Rec(x, y, z) == [phase |-> x, head |-> h, fake |-> f, input |-> i, output |-> o,
                                width |-> w, height |-> t, dec |-> z, frame_input |-> fi,
                                frame_output |-> fo, raw |-> y]
    <3>1. \A x, y, z : [Rec(x, y, z) EXCEPT !.phase = phase] = Rec(phase, y, z)
      OBVIOUS
    <3>2. \A x, y, z : [Rec(x, y, z) EXCEPT !.raw = raw] = Rec(x, raw, z)
      OBVIOUS
    <3>3. \A x, y, z : [Rec(x, y, z) EXCEPT !.dec = dec] = Rec(x, y, dec)
      OBVIOUS
    <3>4. m = Rec(p, r, d)
      BY <2>1, Zenon
    <3>5. [m EXCEPT !.phase = phase, !.raw = raw, !.dec = dec] =
          [[[m EXCEPT !.phase = phase] EXCEPT !.raw = raw] EXCEPT !.dec = dec]
      OBVIOUS
    <3> HIDE DEF Rec
    <3>6. [[[m EXCEPT !.phase = phase] EXCEPT !.raw = raw] EXCEPT !.dec = dec] =
          Rec(phase, raw, dec)
      <4>1. [m EXCEPT !.phase = phase] = Rec(phase, r, d)
        BY <3>1, <3>4
      <4>2. [Rec(phase, r, d) EXCEPT !.raw = raw] = Rec(phase, raw, d)
        BY <3>2
      <4>3. [Rec(phase, raw, d) EXCEPT !.dec = dec] = Rec(phase, raw, dec)
        BY <3>3
      <4> QED  BY <4>1, <4>2, <4>3, Zenon
    <3> QED  BY <3>5, <3>6, Zenon DEF Rec
  <2> QED  BY <2>2, Zenon DEF h, f, i, o, w, t, fi, fo
<1> HIDE DEF new
<1>3. /\ new.phase = phase /\ new.head = m.head /\ new.fake = m.fake
      /\ new.input = m.input /\ new.output = m.output
      /\ new.width = m.width /\ new.height = m.height /\ new.dec = dec
      /\ new.frame_input = m.frame_input /\ new.frame_output = m.frame_output
      /\ new.raw = raw
  BY <1>2
<1>4. new = [phase |-> new.phase, head |-> new.head, fake |-> new.fake, input |-> new.input,
            output |-> new.output, width |-> new.width, height |-> new.height,
            dec |-> new.dec, frame_input |-> new.frame_input,
            frame_output |-> new.frame_output, raw |-> new.raw]
  BY <1>2, <1>3
<1>5. Declared(new)
  BY <1>3 DEF PipelineMade, Declared
<1>6. /\ new.input[2] = 3 /\ new.width = new.input[4] /\ new.height = new.input[3]
      /\ new.frame_input = element_count(new.input)
      /\ new.frame_output = element_count(new.output)
      /\ yolo_layout_from_shape(new.output) # Throws
      /\ new.dec.layout = yolo_layout_from_shape(new.output)
  BY <1>3 DEF PipelineMade
<1> QED  BY <1>3, <1>4, <1>5, <1>6 DEF PipelineMade, new

\* The facts about a pipeline that the checks of a frame rest on.
LEMMA PipelineFits ==
  ASSUME NEW m, PipelineMade(m)
  PROVE  /\ m.frame_input = element_count(m.input) /\ m.frame_output = element_count(m.output)
         /\ m.frame_input \in Nat /\ m.frame_output \in Nat
         /\ ~(m.frame_input < 3 * m.width * m.height)
         /\ m.frame_output = HeadSize(m.dec.layout)
         /\ m.dec.layout \in LayoutRecords
         /\ m.head.num_anchors > 4 + m.head.num_classes =>
               /\ m.dec.layout.num_anchors = m.head.num_anchors
               /\ m.dec.layout.num_classes = m.head.num_classes
               /\ m.dec.layout.channels_first = m.head.channels_first
<1>1. Declared(m)
  BY DEF PipelineMade
<1>2. /\ HeadRight(m.head) /\ m.output \in OutputShapes(m.head)
      /\ m.input \in [1..4 -> Nat \ {0}]
  BY <1>1 DEF Declared
<1>3. /\ m.input[2] = 3 /\ m.width = m.input[4] /\ m.height = m.input[3]
      /\ m.frame_input = element_count(m.input) /\ m.frame_output = element_count(m.output)
      /\ yolo_layout_from_shape(m.output) # Throws
      /\ m.dec.layout = yolo_layout_from_shape(m.output)
  BY DEF PipelineMade
<1>4. m.frame_input \in Nat /\ m.frame_input >= 3 * m.width * m.height
  BY <1>2, <1>3, InputElements
<1>5. 3 * m.width * m.height \in Nat
  <2>1. m.width \in Nat /\ m.height \in Nat
    BY <1>2, <1>3
  <2> QED  BY <2>1
<1>6. /\ m.dec.layout \in LayoutRecords
      /\ HeadSize(m.dec.layout) = m.frame_output
      /\ m.head.num_anchors > 4 + m.head.num_classes =>
               /\ m.dec.layout.num_anchors = m.head.num_anchors
               /\ m.dec.layout.num_classes = m.head.num_classes
               /\ m.dec.layout.channels_first = m.head.channels_first
  BY <1>2, <1>3, LayoutInferred
<1>7. HeadSize(m.dec.layout) \in Nat
  BY <1>6 DEF LayoutRecords, HeadSize
<1>8. ~(m.frame_input < 3 * m.width * m.height)
  <2> DEFINE e == 3 * m.width * m.height
  <2>1. m.frame_input \in Nat /\ e \in Nat /\ m.frame_input >= e
    BY <1>4, <1>5
  <2> HIDE DEF e
  <2>2. ~(m.frame_input < e)
    BY <2>1
  <2> QED  BY <2>2 DEF e
<1> QED  BY <1>3, <1>4, <1>6, <1>7, <1>8

\* The steps of a frame move no shape.
LEMMA FrameSteps ==
  ASSUME ModelInv, preprocess_md \/ infer_md \/ postprocess_md
  PROVE  ModelInv'
<1>1. PipelineMade(md)
  BY ModelPhase DEF preprocess_md, infer_md, postprocess_md
<1>2. /\ md.frame_input = element_count(md.input) /\ md.frame_output = element_count(md.output)
      /\ md.frame_input \in Nat /\ md.frame_output \in Nat
      /\ ~(md.frame_input < 3 * md.width * md.height)
      /\ md.frame_output = HeadSize(md.dec.layout)
      /\ md.dec.layout \in LayoutRecords
      /\ md.head.num_anchors > 4 + md.head.num_classes =>
               /\ md.dec.layout.num_anchors = md.head.num_anchors
               /\ md.dec.layout.num_classes = md.head.num_classes
               /\ md.dec.layout.channels_first = md.head.channels_first
  BY <1>1, PipelineFits
<1>3. md = [phase |-> md.phase, head |-> md.head, fake |-> md.fake, input |-> md.input,
            output |-> md.output, width |-> md.width, height |-> md.height, dec |-> md.dec,
            frame_input |-> md.frame_input, frame_output |-> md.frame_output, raw |-> md.raw]
  BY <1>1 DEF PipelineMade
<1>4. /\ DecoderRecord(md.dec) /\ Declared(md)
      /\ md.phase = "postprocess" /\ md.fake =>
            md.raw = FakeHead(md.head.num_classes, md.head.num_anchors)
      /\ md.dec.out # <<>> /\ md.head.num_anchors > 4 + md.head.num_classes =>
            FakeBoxes(md.dec.out, md.head.num_classes)
  BY <1>1 DEF PipelineMade
<1>5. CASE preprocess_md
  <2>1. md' = [md EXCEPT !.phase = "infer"]
    BY <1>2, <1>5 DEF preprocess_md
  <2>2. md' = [md EXCEPT !.phase = "infer", !.raw = md.raw, !.dec = md.dec]
    BY <1>3, <2>1
  <2>3. PipelineMade(md')
    BY <1>1, <1>4, <2>2, StageDone
  <2> QED  BY <2>3 DEF ModelInv
<1>6. CASE infer_md
  <2> DEFINE raw == IF md.fake THEN FakeHead(md.head.num_classes, md.head.num_anchors)
                    ELSE md.raw
  <2>1. md' = [md EXCEPT !.phase = "postprocess", !.raw = raw]
    <3>1. ~(md.frame_input < md.frame_input) /\ ~(md.frame_output < md.frame_output)
      BY <1>2
    <3> QED  BY <1>2, <1>6, <3>1 DEF infer_md
  <2>2. md.fake => raw = FakeHead(md.head.num_classes, md.head.num_anchors)
    OBVIOUS
  <2> HIDE DEF raw
  <2>3. md' = [md EXCEPT !.phase = "postprocess", !.raw = raw, !.dec = md.dec]
    BY <1>3, <2>1
  <2>4. PipelineMade(md')
    BY <1>1, <1>4, <2>2, <2>3, StageDone
  <2> QED  BY <2>4 DEF ModelInv
<1>7. CASE postprocess_md
  <2> DEFINE dec == IF md.fake THEN decode(md.dec, md.raw, 2) ELSE md.dec
  <2>1. md' = [md EXCEPT !.phase = "preprocess", !.dec = dec]
    <3>1. ~(md.frame_output < md.frame_output)
      BY <1>2
    <3> QED  BY <1>2, <1>7, <3>1 DEF postprocess_md
  <2>2. DecoderRecord(dec) /\ dec.layout = md.dec.layout
    BY <1>4, DecodeKeepsLayout
  <2>3. ASSUME dec.out # <<>>, md.head.num_anchors > 4 + md.head.num_classes
        PROVE  FakeBoxes(dec.out, md.head.num_classes)
    <3>1. CASE md.fake
      <4>1. /\ md.raw = FakeHead(md.dec.layout.num_classes, md.dec.layout.num_anchors)
            /\ md.dec.layout.num_classes = md.head.num_classes
        BY <1>2, <1>4, <1>7, <2>3, <3>1 DEF postprocess_md
      <4>2. md.dec.layout.channels_first /\ md.dec.layout.num_anchors >= 3
        BY <1>2, <1>4, <2>3, <3>1 DEF Declared
      <4>3. FakeBoxes(decode(md.dec, md.raw, 2).out, md.head.num_classes)
        BY <1>2, <1>4, <4>1, <4>2, FakeDetections
      <4> QED  BY <3>1, <4>3
    <3>2. CASE ~md.fake
      BY <1>4, <2>3, <3>2
    <3> QED  BY <3>1, <3>2
  <2> HIDE DEF dec
  <2>4. md' = [md EXCEPT !.phase = "preprocess", !.raw = md.raw, !.dec = dec]
    BY <1>3, <2>1
  <2>5. PipelineMade(md')
    BY <1>1, <1>4, <2>2, <2>3, <2>4, StageDone
  <2> QED  BY <2>5 DEF ModelInv
<1> QED  BY <1>5, <1>6, <1>7

\* A model that backend and pipeline constructors accept passes every size check
\* of every frame, for all fake options and all shapes an exporter may give, and
\* is decoded in its own orientation if it has more anchors than attributes.
THEOREM AcceptedModelFitsHolds == Spec => []AcceptedModelFits
<1>1. Init => ModelInv
  BY DEF Init, Init_md, ModelInv
<1>2. ModelInv /\ [Next]_vars => ModelInv'
  <2> SUFFICES ASSUME ModelInv, Next_md \/ UNCHANGED md PROVE ModelInv'
    BY DEF Next, vars
  <2>1. CASE make_backend_throws
    BY <2>1 DEF make_backend_throws, ModelInv
  <2>2. CASE UNCHANGED md
    BY <2>2 DEF ModelInv
  <2> QED  BY <2>1, <2>2, FakeMade, OnnxMade, PipelineConstructed, FrameSteps DEF Next_md
<1>3. ModelInv => AcceptedModelFits
  <2> SUFFICES ASSUME ModelInv PROVE AcceptedModelFits
    OBVIOUS
  <2>1. md.phase # "failed"
    BY ModelPhase
  <2>2. ASSUME Accepted, md.head.num_anchors > 4 + md.head.num_classes
        PROVE  /\ md.dec.layout.num_anchors = md.head.num_anchors
               /\ md.dec.layout.num_classes = md.head.num_classes
               /\ md.dec.layout.channels_first = md.head.channels_first
               /\ md.dec.out # <<>> => FakeBoxes(md.dec.out, md.head.num_classes)
    <3>1. PipelineMade(md)
      BY <2>2, ModelPhase DEF Accepted
    <3> QED  BY <2>2, <3>1, PipelineFits DEF PipelineMade
  <2> QED  BY <2>1, <2>2 DEF AcceptedModelFits, FakeBoxes
<1> QED  BY <1>1, <1>2, <1>3, PTL DEF Spec

-----------------------------------------------------------------------------
(* The trails of the overlay.                                                *)

LogEntry == [sequence : Nat, ids : SUBSET TrackIds]

Ordered(log) ==
    /\ log \in Seq(LogEntry)
    /\ \A i, j \in 1..Len(log) : i < j => log[i].sequence < log[j].sequence

\* e enumerates the positions of a trail's points: the last trail_length of S.
Enumerates(e, trail, log, S) ==
    /\ trail \in Seq(Nat) /\ Len(trail) <= trail_length
    /\ e \in [1..Len(trail) -> S]
    /\ \A m, n \in 1..Len(trail) : m < n => e[m] < e[n]
    /\ \A n \in 1..Len(trail) : trail[n] = log[e[n]].sequence
    /\ \A i \in S : \/ \E n \in 1..Len(trail) : e[n] = i
                    \/ Len(trail) = trail_length /\ \A n \in 1..Len(trail) : i < e[n]

\* The track was last seen in the frame that last_seen_ tells.
LastSeen(seen, log, id) ==
    \E j \in SightingsOf(log, id) :
        seen = log[j].sequence /\ \A i \in SightingsOf(log, id) : i <= j

TrailsKept(log, trails, seen) ==
    LET alive == {id \in TrackIds : FollowedSince(log, id) # {}}
    IN /\ DOMAIN trails = alive /\ DOMAIN seen = alive
       /\ \A id \in alive :
             /\ \E e : Enumerates(e, trails[id], log, FollowedSince(log, id))
             /\ LastSeen(seen[id], log, id)

\* One more frame, as seen from the positions.
LEMMA SightingsGrow ==
  ASSUME NEW log, Ordered(log), NEW f \in LogEntry, NEW id,
         \A i \in 1..Len(log) : log[i].sequence < f.sequence
  PROVE  LET new == Append(log, f)
             N == Len(log)
         IN /\ Ordered(new) /\ N \in Nat /\ Len(new) = N + 1 /\ new[N + 1] = f
            /\ \A i \in 1..N : new[i] = log[i]
            /\ SightingsOf(new, id) =
                  SightingsOf(log, id) \cup (IF id \in f.ids THEN {N + 1} ELSE {})
<1> DEFINE new == Append(log, f)
           N == Len(log)
<1>1. log \in Seq(LogEntry) /\ \A i, j \in 1..N : i < j => log[i].sequence < log[j].sequence
  BY DEF Ordered
<1>2. /\ N \in Nat /\ new \in Seq(LogEntry) /\ Len(new) = N + 1 /\ new[N + 1] = f
      /\ \A i \in 1..N : new[i] = log[i]
  BY <1>1
<1> HIDE DEF new
<1>3. \A i, j \in 1..Len(new) : i < j => new[i].sequence < new[j].sequence
  <2>1. ASSUME NEW i \in 1..Len(new), NEW j \in 1..Len(new), i < j
        PROVE  new[i].sequence < new[j].sequence
    <3>1. i \in 1..N /\ (j \in 1..N \/ j = N + 1)
      BY <1>2, <2>1
    <3> QED  BY <1>1, <1>2, <2>1, <3>1
  <2> QED  BY <2>1
<1>4. Ordered(new)
  BY <1>2, <1>3 DEF Ordered
<1>5. SightingsOf(new, id) = SightingsOf(log, id) \cup (IF id \in f.ids THEN {N + 1} ELSE {})
  <2>1. \A i : i \in 1..Len(new) <=> i \in 1..N \/ i = N + 1
    BY <1>2
  <2> QED  BY <1>2, <2>1 DEF SightingsOf
<1> QED  BY <1>2, <1>4, <1>5 DEF new

\* The track is in the frame.
LEMMA FollowedSeen ==
  ASSUME NEW log, Ordered(log), NEW f \in LogEntry, NEW id, id \in f.ids,
         \A i \in 1..Len(log) : log[i].sequence < f.sequence
  PROVE  FollowedSince(Append(log, f), id) = FollowedSince(log, id) \cup {Len(log) + 1}
<1> DEFINE new == Append(log, f)
           N == Len(log)
           S == SightingsOf(log, id)
           T == SightingsOf(new, id)
<1>1. /\ Ordered(new) /\ N \in Nat /\ Len(new) = N + 1 /\ new[N + 1] = f
      /\ \A i \in 1..N : new[i] = log[i]
      /\ T = S \cup {N + 1}
  BY SightingsGrow
<1>2. S \subseteq 1..N /\ f.sequence \in Nat
  BY DEF SightingsOf, LogEntry
<1>3. ForgetAfter \in Nat
  BY OverlaySinkAssumption
<1> HIDE DEF new, S, T
<1>4. ASSUME NEW i \in S
      PROVE  /\ i \in FollowedSince(new, id) => i \in FollowedSince(log, id)
             /\ i \in FollowedSince(log, id) => i \in FollowedSince(new, id)
  <2>1. i \in 1..N
    BY <1>2
  <2>2. ASSUME i \in FollowedSince(new, id) PROVE i \in FollowedSince(log, id)
    <3>1. ASSUME NEW k \in i..N
          PROVE  \E j \in S : i <= j /\ j <= k /\ log[k].sequence <= log[j].sequence + ForgetAfter
      <4>1. k \in i..Len(new) /\ k \in 1..N
        BY <1>1, <2>1
      <4>2. PICK j \in T : i <= j /\ j <= k /\ new[k].sequence <= new[j].sequence + ForgetAfter
        BY <2>2, <4>1 DEF FollowedSince, T
      <4>3. j \in S /\ j \in 1..N
        BY <1>1, <1>2, <4>1, <4>2
      <4> QED  BY <1>1, <4>1, <4>2, <4>3
    <3> QED  BY <3>1 DEF FollowedSince, S
  <2>3. ASSUME i \in FollowedSince(log, id) PROVE i \in FollowedSince(new, id)
    <3>1. ASSUME NEW k \in i..(N + 1)
          PROVE  \E j \in T : i <= j /\ j <= k /\ new[k].sequence <= new[j].sequence + ForgetAfter
      <4>1. CASE k = N + 1
        <5>1. N + 1 \in T /\ i <= N + 1 /\ new[k].sequence <= new[N + 1].sequence + ForgetAfter
          BY <1>1, <1>2, <1>3, <2>1, <4>1
        <5> QED  BY <4>1, <5>1
      <4>2. CASE k # N + 1
        <5>1. k \in i..N /\ k \in 1..N
          BY <1>1, <2>1, <4>2
        <5>2. PICK j \in S : i <= j /\ j <= k /\ log[k].sequence <= log[j].sequence + ForgetAfter
          BY <2>3, <5>1 DEF FollowedSince, S
        <5>3. j \in T /\ j \in 1..N
          BY <1>1, <1>2
        <5> QED  BY <1>1, <5>1, <5>2, <5>3
      <4> QED  BY <4>1, <4>2
    <3>2. i \in T
      BY <1>1
    <3> QED  BY <1>1, <3>1, <3>2 DEF FollowedSince, T
  <2> QED  BY <2>2, <2>3
<1>5. N + 1 \in FollowedSince(new, id)
  <2>1. ASSUME NEW k \in (N + 1)..(N + 1)
        PROVE  \E j \in T : N + 1 <= j /\ j <= k /\ new[k].sequence <= new[j].sequence + ForgetAfter
    <3>1. k = N + 1 /\ N + 1 \in T
      BY <1>1
    <3> QED  BY <1>1, <1>2, <1>3, <3>1
  <2> QED  BY <1>1, <2>1 DEF FollowedSince, T
<1>6. FollowedSince(new, id) \subseteq T /\ FollowedSince(log, id) \subseteq S
  BY DEF FollowedSince, S, T
<1> QED  BY <1>1, <1>4, <1>5, <1>6 DEF new

\* The track is not in the frame.
LEMMA FollowedUnseen ==
  ASSUME NEW log, Ordered(log), NEW f \in LogEntry, NEW id, id \notin f.ids,
         \A i \in 1..Len(log) : log[i].sequence < f.sequence
  PROVE  /\ FollowedSince(log, id) = {} => FollowedSince(Append(log, f), id) = {}
         /\ \A last : LastSeen(last, log, id) =>
               FollowedSince(Append(log, f), id) =
                  IF Gone(last, f.sequence) THEN {} ELSE FollowedSince(log, id)
<1> DEFINE new == Append(log, f)
           N == Len(log)
           S == SightingsOf(log, id)
           Near(i) == \E j \in S : i <= j /\ f.sequence <= log[j].sequence + ForgetAfter
<1>1. /\ Ordered(new) /\ N \in Nat /\ Len(new) = N + 1 /\ new[N + 1] = f
      /\ \A i \in 1..N : new[i] = log[i]
      /\ SightingsOf(new, id) = S
  <2>1. /\ Ordered(new) /\ N \in Nat /\ Len(new) = N + 1 /\ new[N + 1] = f
        /\ \A i \in 1..N : new[i] = log[i]
        /\ SightingsOf(new, id) = S \cup (IF id \in f.ids THEN {N + 1} ELSE {})
    BY SightingsGrow
  <2>2. S \cup (IF id \in f.ids THEN {N + 1} ELSE {}) = S
    OBVIOUS
  <2> HIDE DEF S, new
  <2> QED  BY <2>1, <2>2
<1>2. S \subseteq 1..N /\ f.sequence \in Nat
  BY DEF SightingsOf, LogEntry
<1>3. ForgetAfter \in Nat
  BY OverlaySinkAssumption
<1> HIDE DEF new, S
<1>4. ASSUME NEW i \in S
      PROVE  /\ i \in FollowedSince(new, id) => i \in FollowedSince(log, id) /\ Near(i)
             /\ i \in FollowedSince(log, id) /\ Near(i) => i \in FollowedSince(new, id)
  <2>1. i \in 1..N
    BY <1>2
  <2>2. ASSUME i \in FollowedSince(new, id) PROVE i \in FollowedSince(log, id) /\ Near(i)
    <3>1. \A k \in i..(N + 1) : \E j \in S :
             i <= j /\ j <= k /\ new[k].sequence <= new[j].sequence + ForgetAfter
      BY <1>1, <2>2 DEF FollowedSince
    <3>2. ASSUME NEW k \in i..N
          PROVE  \E j \in S : i <= j /\ j <= k /\ log[k].sequence <= log[j].sequence + ForgetAfter
      <4>1. k \in i..(N + 1) /\ k \in 1..N
        BY <1>1, <2>1
      <4>2. PICK j \in S : i <= j /\ j <= k /\ new[k].sequence <= new[j].sequence + ForgetAfter
        BY <3>1, <4>1
      <4> QED  BY <1>1, <1>2, <4>1, <4>2
    <3>3. Near(i)
      <4>1. N + 1 \in i..(N + 1)
        BY <1>1, <2>1
      <4>2. PICK j \in S : i <= j /\ new[N + 1].sequence <= new[j].sequence + ForgetAfter
        BY <3>1, <4>1
      <4> QED  BY <1>1, <1>2, <4>2
    <3> QED  BY <3>2, <3>3 DEF FollowedSince, S
  <2>3. ASSUME i \in FollowedSince(log, id), Near(i) PROVE i \in FollowedSince(new, id)
    <3>1. ASSUME NEW k \in i..(N + 1)
          PROVE  \E j \in S : i <= j /\ j <= k /\ new[k].sequence <= new[j].sequence + ForgetAfter
      <4>1. CASE k = N + 1
        <5>1. PICK j \in S : i <= j /\ f.sequence <= log[j].sequence + ForgetAfter
          BY <2>3
        <5>2. j \in 1..N /\ j <= k
          BY <1>1, <1>2, <4>1
        <5> QED  BY <1>1, <4>1, <5>1, <5>2
      <4>2. CASE k # N + 1
        <5>1. k \in i..N /\ k \in 1..N
          BY <1>1, <2>1, <4>2
        <5>2. PICK j \in S : i <= j /\ j <= k /\ log[k].sequence <= log[j].sequence + ForgetAfter
          BY <2>3, <5>1 DEF FollowedSince, S
        <5> QED  BY <1>1, <1>2, <5>1, <5>2
      <4> QED  BY <4>1, <4>2
    <3> QED  BY <1>1, <3>1 DEF FollowedSince
  <2> QED  BY <2>2, <2>3
<1>5. FollowedSince(new, id) \subseteq S /\ FollowedSince(log, id) \subseteq S
  BY <1>1 DEF FollowedSince, S
<1>6. ASSUME NEW last, LastSeen(last, log, id), NEW i \in S PROVE Near(i) <=> ~Gone(last, f.sequence)
  <2>1. PICK l \in S : last = log[l].sequence /\ \A j \in S : j <= l
    BY <1>6 DEF LastSeen, S
  <2>2. \A j \in S : log[j].sequence \in Nat /\ log[j].sequence <= last
    <3>1. \A j \in S : log[j] \in LogEntry
      BY <1>2 DEF Ordered
    <3>2. \A j \in S : log[j].sequence \in Nat
      BY <3>1 DEF LogEntry
    <3>3. ASSUME NEW j \in S PROVE log[j].sequence <= last
      <4>1. j = l \/ j < l
        BY <1>2, <2>1
      <4> QED  BY <1>2, <2>1, <3>2, <4>1 DEF Ordered
    <3> QED  BY <3>2, <3>3
  <2>3. last \in Nat /\ i <= l
    BY <2>1, <2>2
  <2>4. ASSUME Near(i) PROVE ~Gone(last, f.sequence)
    BY <1>2, <1>3, <2>2, <2>3, <2>4 DEF Gone
  <2>5. ASSUME ~Gone(last, f.sequence) PROVE Near(i)
    BY <1>2, <1>3, <2>1, <2>3, <2>5 DEF Gone
  <2> QED  BY <2>4, <2>5
<1> HIDE DEF Near
<1> QED  BY <1>4, <1>5, <1>6 DEF new

\* A trail that grows keeps the last of the positions.
LEMMA TrailGrows ==
  ASSUME NEW log \in Seq(LogEntry), NEW f \in LogEntry, NEW S \in SUBSET (1..Len(log)),
         NEW trail, NEW e, Enumerates(e, trail, log, S)
  PROVE  \E d : Enumerates(d, Extended(trail, f.sequence), Append(log, f), S \cup {Len(log) + 1})
<1> DEFINE N == Len(log)
           L == trail_length
           m == Len(trail)
           new == Append(log, f)
           longer == Append(trail, f.sequence)
           T == S \cup {N + 1}
           g == [n \in 1..(m + 1) |-> IF n = m + 1 THEN N + 1 ELSE e[n]]
<1>1. N \in Nat /\ new[N + 1] = f /\ \A i \in 1..N : new[i] = log[i]
  OBVIOUS
<1>2. L \in Nat /\ f.sequence \in Nat
  BY OverlaySinkAssumption DEF LogEntry
<1>3. /\ trail \in Seq(Nat) /\ m \in Nat /\ m <= L /\ e \in [1..m -> S]
      /\ \A a, b \in 1..m : a < b => e[a] < e[b]
      /\ \A n \in 1..m : trail[n] = log[e[n]].sequence
      /\ \A i \in S : (\E n \in 1..m : e[n] = i) \/ (m = L /\ \A n \in 1..m : i < e[n])
  BY DEF Enumerates
<1>4. /\ longer \in Seq(Nat) /\ Len(longer) = m + 1 /\ longer[m + 1] = f.sequence
      /\ \A n \in 1..m : longer[n] = trail[n]
  BY <1>2, <1>3
<1>5. /\ g \in [1..(m + 1) -> T] /\ g[m + 1] = N + 1 /\ \A n \in 1..m : g[n] = e[n]
  BY <1>3
<1>6. \A n \in 1..m : e[n] \in 1..N /\ e[n] \in S
  BY <1>3
<1>7. Extended(trail, f.sequence) = IF m + 1 > L THEN SubSeq(longer, (m + 1) - L + 1, m + 1)
                                    ELSE longer
  BY <1>4 DEF Extended
<1> HIDE DEF new, longer, g, m, N, L
<1>8. \A a, b \in 1..(m + 1) : a < b => g[a] < g[b]
  <2>1. ASSUME NEW a \in 1..(m + 1), NEW b \in 1..(m + 1), a < b PROVE g[a] < g[b]
    <3>1. a \in 1..m /\ (b \in 1..m \/ b = m + 1)
      BY <1>3, <2>1
    <3>2. CASE b \in 1..m
      <4>1. g[a] = e[a] /\ g[b] = e[b]
        BY <1>5, <3>1, <3>2
      <4>2. e[a] < e[b]
        BY <1>3, <2>1, <3>1, <3>2
      <4> QED  BY <4>1, <4>2
    <3>3. CASE b = m + 1
      <4>1. g[a] = e[a] /\ g[b] = N + 1 /\ e[a] \in 1..N
        BY <1>5, <1>6, <3>1, <3>3
      <4> QED  BY <1>1, <4>1
    <3> QED  BY <3>1, <3>2, <3>3
  <2> QED  BY <2>1
<1>9. \A n \in 1..(m + 1) : longer[n] = new[g[n]].sequence
  <2>1. ASSUME NEW n \in 1..(m + 1) PROVE longer[n] = new[g[n]].sequence
    <3>1. n \in 1..m \/ n = m + 1
      BY <1>3
    <3> QED  BY <1>1, <1>3, <1>4, <1>5, <1>6, <3>1
  <2> QED  BY <2>1
<1>10. CASE m + 1 <= L
  <2>1. Extended(trail, f.sequence) = longer
    BY <1>2, <1>3, <1>7, <1>10
  <2>2. ASSUME NEW i \in T PROVE \E n \in 1..(m + 1) : g[n] = i
    <3>1. CASE i = N + 1
      BY <1>3, <1>5, <3>1
    <3>2. CASE i \in S
      <4>1. m # L
        BY <1>2, <1>3, <1>10
      <4>2. PICK n \in 1..m : e[n] = i
        BY <1>3, <3>2, <4>1
      <4>3. n \in 1..(m + 1)
        BY <1>3
      <4> QED  BY <1>5, <4>2, <4>3
    <3> QED  BY <3>1, <3>2
  <2>3. Enumerates(g, longer, new, T)
    BY <1>4, <1>5, <1>8, <1>9, <1>10, <2>2 DEF Enumerates, L
  <2> QED  BY <2>1, <2>3 DEF new, N
<1>11. CASE m + 1 > L
  <2> DEFINE short == SubSeq(longer, 2, m + 1)
             d == [n \in 1..m |-> g[n + 1]]
  <2>1. m = L /\ Extended(trail, f.sequence) = short
    <3>1. m = L
      BY <1>2, <1>3, <1>11
    <3>2. (m + 1) - L + 1 = 2
      BY <1>3, <3>1
    <3> QED  BY <1>7, <1>11, <3>1, <3>2
  <2>2. short \in Seq(Nat) /\ Len(short) = m /\ \A n \in 1..m : short[n] = longer[n + 1]
    BY <1>3, <1>4
  <2>3. \A n \in 1..m : n + 1 \in 1..(m + 1) /\ d[n] = g[n + 1]
    BY <1>3
  <2>4. d \in [1..m -> T]
    BY <1>5, <2>3
  <2> HIDE DEF short, d
  <2>5. \A a, b \in 1..m : a < b => d[a] < d[b]
    <3>1. ASSUME NEW a \in 1..m, NEW b \in 1..m, a < b PROVE d[a] < d[b]
      <4>1. a + 1 < b + 1
        BY <3>1
      <4> QED  BY <1>8, <2>3, <4>1
    <3> QED  BY <3>1
  <2>6. \A n \in 1..m : short[n] = new[d[n]].sequence
    BY <1>9, <2>2, <2>3
  <2>7. ASSUME NEW i \in T
        PROVE  (\E n \in 1..m : d[n] = i) \/ (\A n \in 1..m : i < d[n])
    <3>1. CASE i = N + 1
      <4>1. CASE m = 0
        BY <4>1
      <4>2. CASE m # 0
        <5>1. m \in 1..m
          BY <1>3, <4>2
        <5> QED  BY <1>5, <2>3, <3>1, <5>1
      <4> QED  BY <4>1, <4>2
    <3>2. CASE i \in S /\ \E n \in 1..m : e[n] = i
      <4>1. PICK n \in 1..m : e[n] = i
        BY <3>2
      <4>2. CASE n = 1
        <5>1. g[1] = i /\ 1 \in 1..(m + 1)
          BY <1>3, <1>5, <4>1, <4>2
        <5>2. ASSUME NEW k \in 1..m PROVE i < d[k]
          <6>1. 1 < k + 1 /\ k + 1 \in 1..(m + 1)
            BY <1>3
          <6> QED  BY <1>8, <2>3, <5>1, <6>1
        <5> QED  BY <5>2
      <4>3. CASE n # 1
        <5>1. n - 1 \in 1..m /\ (n - 1) + 1 = n
          BY <1>3, <4>3
        <5>2. d[n - 1] = i
          BY <1>5, <2>3, <4>1, <5>1
        <5> QED  BY <5>1, <5>2
      <4> QED  BY <4>2, <4>3
    <3>3. CASE i \in S /\ \A n \in 1..m : i < e[n]
      <4>1. ASSUME NEW k \in 1..m PROVE i < d[k]
        <5>1. d[k] = g[k + 1] /\ (k + 1 \in 1..m \/ k + 1 = m + 1)
          BY <1>3, <2>3
        <5>2. i \in 1..N
          BY <3>3 DEF N
        <5> QED  BY <1>1, <1>5, <3>3, <5>1, <5>2
      <4> QED  BY <4>1
    <3> QED  BY <1>3, <3>1, <3>2, <3>3
  <2>8. Enumerates(d, short, new, T)
    BY <1>3, <2>1, <2>2, <2>4, <2>5, <2>6, <2>7 DEF Enumerates, L
  <2> QED  BY <2>1, <2>8 DEF new, N
<1>12. m + 1 <= L \/ m + 1 > L
  BY <1>2, <1>3
<1> QED  BY <1>10, <1>11, <1>12 DEF N

\* A trail that stays.
LEMMA TrailStays ==
  ASSUME NEW log \in Seq(LogEntry), NEW f, NEW S \in SUBSET (1..Len(log)), NEW trail, NEW e,
         Enumerates(e, trail, log, S)
  PROVE  Enumerates(e, trail, Append(log, f), S)
<1>1. \A i \in 1..Len(log) : Append(log, f)[i] = log[i]
  OBVIOUS
<1>2. \A n \in 1..Len(trail) : e[n] \in 1..Len(log)
  BY DEF Enumerates
<1>3. \A n \in 1..Len(trail) : trail[n] = Append(log, f)[e[n]].sequence
  BY <1>1, <1>2 DEF Enumerates
<1> QED  BY <1>3 DEF Enumerates

\* A track that is seen for the first time.
LEMMA NoTrail ==
  ASSUME NEW log PROVE \E e : Enumerates(e, <<>>, log, {})
<1> DEFINE e == [n \in 1..0 |-> 0]
<1>1. trail_length \in Nat /\ <<>> \in Seq(Nat) /\ Len(<<>>) = 0
  BY OverlaySinkAssumption
<1>2. e \in [1..0 -> {}] /\ \A n \in 1..0 : FALSE
  OBVIOUS
<1> HIDE DEF e
<1>3. Enumerates(e, <<>>, log, {})
  BY <1>1, <1>2 DEF Enumerates
<1> QED  BY <1>3

\* One more frame, as seen from one track's entries of the two maps.
LEMMA OneTrack ==
  ASSUME NEW log, Ordered(log), NEW f \in LogEntry,
         \A i \in 1..Len(log) : log[i].sequence < f.sequence,
         NEW trails, NEW seen, TrailsKept(log, trails, seen), NEW id \in TrackIds
  PROVE  LET new == Append(log, f)
         IN /\ id \in f.ids =>
                  /\ FollowedSince(new, id) # {}
                  /\ ~Gone(f.sequence, f.sequence)
                  /\ \E e : Enumerates(e, Extended(TrailOf(trails, id), f.sequence),
                                       new, FollowedSince(new, id))
                  /\ LastSeen(f.sequence, new, id)
            /\ id \notin f.ids /\ id \notin DOMAIN trails => FollowedSince(new, id) = {}
            /\ id \notin f.ids /\ id \in DOMAIN trails =>
                  /\ FollowedSince(new, id) = {} <=> Gone(seen[id], f.sequence)
                  /\ ~Gone(seen[id], f.sequence) =>
                        /\ \E e : Enumerates(e, trails[id], new, FollowedSince(new, id))
                        /\ LastSeen(seen[id], new, id)
<1> DEFINE new == Append(log, f)
           N == Len(log)
           S == FollowedSince(log, id)
<1>1. /\ N \in Nat /\ new[N + 1] = f /\ \A i \in 1..N : new[i] = log[i]
      /\ SightingsOf(new, id) = SightingsOf(log, id) \cup (IF id \in f.ids THEN {N + 1} ELSE {})
  BY SightingsGrow
<1>2. S \in SUBSET (1..N) /\ SightingsOf(log, id) \subseteq 1..N
  BY DEF FollowedSince, SightingsOf
<1>3. /\ log \in Seq(LogEntry) /\ ForgetAfter \in Nat /\ f.sequence \in Nat
  BY OverlaySinkAssumption DEF Ordered, LogEntry
<1>4. /\ id \in DOMAIN trails <=> S # {}
      /\ id \in DOMAIN trails =>
            /\ \E e : Enumerates(e, trails[id], log, S)
            /\ LastSeen(seen[id], log, id)
  BY DEF TrailsKept
<1>5. ASSUME id \in f.ids
      PROVE  /\ FollowedSince(new, id) # {}
             /\ ~Gone(f.sequence, f.sequence)
             /\ \E e : Enumerates(e, Extended(TrailOf(trails, id), f.sequence),
                                  new, FollowedSince(new, id))
             /\ LastSeen(f.sequence, new, id)
  <2>1. FollowedSince(new, id) = S \cup {N + 1}
    BY <1>5, FollowedSeen
  <2>2. ~Gone(f.sequence, f.sequence)
    BY <1>3 DEF Gone
  <2>3. \E e : Enumerates(e, TrailOf(trails, id), log, S)
    <3>1. CASE id \in DOMAIN trails
      BY <1>4, <3>1 DEF TrailOf
    <3>2. CASE id \notin DOMAIN trails
      <4>1. S = {} /\ TrailOf(trails, id) = <<>>
        BY <1>4, <3>2 DEF TrailOf
      <4>2. \E e : Enumerates(e, <<>>, log, {})
        BY NoTrail
      <4> HIDE DEF S
      <4> QED  BY <4>1, <4>2
    <3> QED  BY <3>1, <3>2
  <2>4. PICK e : Enumerates(e, TrailOf(trails, id), log, S)
    BY <2>3
  <2> HIDE DEF S
  <2>5. \E d : Enumerates(d, Extended(TrailOf(trails, id), f.sequence), new, S \cup {N + 1})
    BY <1>2, <1>3, <2>4, TrailGrows
  <2>6. LastSeen(f.sequence, new, id)
    <3>1. N + 1 \in SightingsOf(new, id) /\ f.sequence = new[N + 1].sequence
      BY <1>1, <1>5
    <3>2. \A i \in SightingsOf(new, id) : i <= N + 1
      BY <1>1, <1>2, <1>5
    <3> HIDE DEF new
    <3> QED  BY <3>1, <3>2 DEF LastSeen
  <2> HIDE DEF new
  <2> QED  BY <2>1, <2>2, <2>5, <2>6
<1>6. ASSUME id \notin f.ids
      PROVE  /\ S = {} => FollowedSince(new, id) = {}
             /\ \A last : LastSeen(last, log, id) =>
                   FollowedSince(new, id) = IF Gone(last, f.sequence) THEN {} ELSE S
  BY <1>6, FollowedUnseen
<1>7. ASSUME id \notin f.ids, id \in DOMAIN trails
      PROVE  /\ FollowedSince(new, id) = {} <=> Gone(seen[id], f.sequence)
             /\ ~Gone(seen[id], f.sequence) =>
                        /\ \E e : Enumerates(e, trails[id], new, FollowedSince(new, id))
                        /\ LastSeen(seen[id], new, id)
  <2>1. /\ FollowedSince(new, id) = IF Gone(seen[id], f.sequence) THEN {} ELSE S
        /\ S # {}
    BY <1>4, <1>6, <1>7
  <2>2. PICK e : Enumerates(e, trails[id], log, S)
    BY <1>4, <1>7
  <2> HIDE DEF S
  <2>3. Enumerates(e, trails[id], new, S)
    BY <1>2, <1>3, <2>2, TrailStays
  <2>4. SightingsOf(new, id) = SightingsOf(log, id)
    <3>1. (IF id \in f.ids THEN {N + 1} ELSE {}) = {}
      BY <1>7
    <3> HIDE DEF new
    <3> QED  BY <1>1, <3>1
  <2> HIDE DEF new
  <2>5. LastSeen(seen[id], new, id)
    <3>1. PICK j \in SightingsOf(log, id) :
             seen[id] = log[j].sequence /\ \A i \in SightingsOf(log, id) : i <= j
      BY <1>4, <1>7 DEF LastSeen
    <3>2. new[j] = log[j]
      BY <1>1, <1>2
    <3> QED  BY <2>4, <3>1, <3>2 DEF LastSeen
  <2> QED  BY <2>1, <2>3, <2>5
<1> HIDE DEF S
<1> QED  BY <1>4, <1>5, <1>6, <1>7

\* The two maps after a frame, as render() computes them.
SeenAfter(trails, last, sequence, ids) ==
    [id \in DOMAIN trails \cup ids |-> IF id \in ids THEN sequence ELSE last[id]]
GrownBy(trails, sequence, ids) ==
    [id \in DOMAIN trails \cup ids |-> IF id \in ids
                                      THEN Extended(TrailOf(trails, id), sequence)
                                      ELSE trails[id]]
KeptAfter(trails, last, sequence, ids) ==
    {id \in DOMAIN trails \cup ids :
       ~Gone(SeenAfter(trails, last, sequence, ids)[id], sequence)}
TrailsAfter(trails, last, sequence, ids) ==
    Restrict(GrownBy(trails, sequence, ids), KeptAfter(trails, last, sequence, ids))
LastSeenAfter(trails, last, sequence, ids) ==
    Restrict(SeenAfter(trails, last, sequence, ids), KeptAfter(trails, last, sequence, ids))

\* A frame keeps them right.
LEMMA FrameStep ==
  ASSUME NEW log, Ordered(log), NEW f \in LogEntry,
         NEW sequence, NEW ids, f.sequence = sequence, f.ids = ids,
         \A i \in 1..Len(log) : log[i].sequence < f.sequence,
         NEW trails, NEW last, TrailsKept(log, trails, last)
  PROVE  TrailsKept(Append(log, f), TrailsAfter(trails, last, sequence, ids),
                    LastSeenAfter(trails, last, sequence, ids))
<1> DEFINE new == Append(log, f)
           known == DOMAIN trails \cup ids
           seen == [id \in known |-> IF id \in ids THEN sequence ELSE last[id]]
           grown == [id \in known |-> IF id \in ids
                                      THEN Extended(TrailOf(trails, id), sequence)
                                      ELSE trails[id]]
           kept == {id \in known : ~Gone(seen[id], sequence)}
           alive == {id \in TrackIds : FollowedSince(new, id) # {}}
<1>1. known \subseteq TrackIds /\ ids \subseteq TrackIds
  BY DEF TrailsKept, LogEntry
<1>2. \A id \in known : /\ id \in ids => seen[id] = sequence
                        /\ id \notin ids => seen[id] = last[id] /\ id \in DOMAIN trails
  OBVIOUS
<1>3. \A id \in known :
         /\ id \in ids => grown[id] = Extended(TrailOf(trails, id), sequence)
         /\ id \notin ids => grown[id] = trails[id]
  OBVIOUS
<1> HIDE DEF new, seen, grown
<1>4. ASSUME NEW id \in TrackIds
      PROVE  /\ id \in kept <=> FollowedSince(new, id) # {}
             /\ id \in kept => /\ \E e : Enumerates(e, grown[id], new, FollowedSince(new, id))
                               /\ LastSeen(seen[id], new, id)
  <2>1. CASE id \in ids
    <3>1. /\ FollowedSince(new, id) # {}
          /\ ~Gone(sequence, sequence)
          /\ \E e : Enumerates(e, Extended(TrailOf(trails, id), sequence),
                               new, FollowedSince(new, id))
          /\ LastSeen(sequence, new, id)
      BY <2>1, OneTrack DEF new
    <3>2. id \in known
      BY <2>1
    <3>3. seen[id] = sequence /\ grown[id] = Extended(TrailOf(trails, id), sequence)
      BY <1>2, <1>3, <2>1, <3>2
    <3> QED  BY <3>1, <3>2, <3>3
  <2>2. CASE id \notin ids /\ id \notin DOMAIN trails
    <3>1. FollowedSince(new, id) = {}
      BY <2>2, OneTrack DEF new
    <3> QED  BY <2>2, <3>1
  <2>3. CASE id \notin ids /\ id \in DOMAIN trails
    <3>1. /\ FollowedSince(new, id) = {} <=> Gone(last[id], sequence)
          /\ ~Gone(last[id], sequence) =>
                /\ \E e : Enumerates(e, trails[id], new, FollowedSince(new, id))
                /\ LastSeen(last[id], new, id)
      BY <2>3, OneTrack DEF new
    <3>2. id \in known
      BY <2>3
    <3>3. seen[id] = last[id] /\ grown[id] = trails[id]
      BY <1>2, <1>3, <2>3, <3>2
    <3> QED  BY <3>1, <3>2, <3>3
  <2> QED  BY <2>1, <2>2, <2>3
<1>5. kept \subseteq TrackIds
  BY <1>1
<1>6. kept = alive
  BY <1>4, <1>5
<1> HIDE DEF kept
<1> DEFINE rt == Restrict(grown, kept)
           rs == Restrict(seen, kept)
<1>7. DOMAIN rt = alive /\ DOMAIN rs = alive
  BY <1>6 DEF Restrict
<1>8. \A id \in alive : rt[id] = grown[id] /\ rs[id] = seen[id]
  BY <1>6 DEF Restrict
<1> HIDE DEF rt, rs
<1>9. \A id \in alive : /\ \E e : Enumerates(e, rt[id], new, FollowedSince(new, id))
                        /\ LastSeen(rs[id], new, id)
  BY <1>4, <1>6, <1>8
<1>10. TrailsKept(new, rt, rs)
  BY <1>7, <1>9 DEF TrailsKept
<1> QED  BY <1>10 DEF new, rt, rs, kept, seen, grown, TrailsAfter, LastSeenAfter, KeptAfter,
                     GrownBy, SeenAfter

\* The positions of a trail are the ones to be shown.
LEMMA ShownAre ==
  ASSUME NEW log, Ordered(log), NEW id, NEW trail, NEW e,
         Enumerates(e, trail, log, FollowedSince(log, id))
  PROVE  OldestFirst(trail, {log[i].sequence : i \in Shown(log, id)})
<1> DEFINE N == Len(log)
           S == FollowedSince(log, id)
           L == trail_length
           m == Len(trail)
           After(i) == {j \in S : j > i}
<1>1. /\ trail \in Seq(Nat) /\ m \in Nat /\ m <= L /\ e \in [1..m -> S]
      /\ \A a, b \in 1..m : a < b => e[a] < e[b]
      /\ \A n \in 1..m : trail[n] = log[e[n]].sequence
      /\ \A i \in S : (\E n \in 1..m : e[n] = i) \/ (m = L /\ \A n \in 1..m : i < e[n])
  BY DEF Enumerates
<1>2. N \in Nat /\ S \subseteq 1..N /\ L \in Nat
  BY OverlaySinkAssumption DEF Ordered, FollowedSince, SightingsOf
<1> HIDE DEF S, N, L, m
<1>3. \A n \in 1..m : e[n] \in S /\ e[n] \in 1..N
  BY <1>1, <1>2
<1>4. \A a, b \in 1..m : e[a] = e[b] => a = b
  <2>1. ASSUME NEW a \in 1..m, NEW b \in 1..m, e[a] = e[b] PROVE a = b
    <3>1. a < b \/ b < a \/ a = b
      BY <1>1
    <3>2. ~(e[a] < e[b]) /\ ~(e[b] < e[a])
      BY <1>3, <2>1
    <3> QED  BY <1>1, <3>1, <3>2
  <2> QED  BY <2>1
<1>5. ASSUME NEW i \in 1..N PROVE IsFiniteSet(After(i)) /\ Cardinality(After(i)) \in Nat
  <2>1. After(i) \in SUBSET Nat /\ \A j \in After(i) : j <= N
    <3>1. \A j \in S : j \in Nat /\ j <= N
      BY <1>2
    <3> QED  BY <3>1
  <2> HIDE DEF After
  <2>2. IsFiniteSet(After(i))
    BY <1>2, <2>1, FS_BoundedSetOfNaturals
  <2> QED  BY <2>2, FS_CardinalityType
<1>6. ASSUME NEW n \in 1..m PROVE e[n] \in S /\ Cardinality(After(e[n])) < L
  <2> DEFINE K == (n + 1)..m
             h == [k \in K |-> e[k]]
             A == After(e[n])
  <2>1. \A k \in K : k \in 1..m /\ n < k
    BY <1>1
  <2>2. \A k \in K : h[k] = e[k] /\ h[k] \in A
    BY <1>1, <1>3, <2>1
  <2>3. \A j \in A : \E k \in K : h[k] = j
    <3>1. ASSUME NEW j \in A PROVE \E k \in K : h[k] = j
      <4>0. j \in S /\ j > e[n] /\ j \in 1..N /\ e[n] \in 1..N
        BY <1>2, <1>3
      <4>1. PICK k \in 1..m : e[k] = j
        BY <1>1, <4>0
      <4>2. ~(k < n) /\ k # n
        BY <1>1, <4>0, <4>1
      <4>3. k \in K
        BY <1>1, <4>2
      <4> QED  BY <2>2, <4>1, <4>3
    <3> QED  BY <3>1
  <2>4. h \in [K -> A]
    BY <2>2
  <2> HIDE DEF h, A
  <2>5. h \in Surjection(K, A)
    BY <2>3, <2>4 DEF Surjection
  <2>6. IsFiniteSet(K) /\ Cardinality(K) = IF n + 1 > m THEN 0 ELSE m - (n + 1) + 1
    BY <1>1, FS_Interval
  <2> HIDE DEF K
  <2>7. Cardinality(A) <= Cardinality(K)
    BY <2>5, <2>6, FS_Surjection
  <2>8. Cardinality(K) < L /\ Cardinality(K) \in Nat
    BY <1>1, <1>2, <2>6
  <2>9. Cardinality(A) \in Nat
    BY <1>3, <1>5 DEF A
  <2>10. Cardinality(A) < L
    BY <1>2, <2>7, <2>8, <2>9
  <2> QED  BY <1>3, <2>10 DEF A
<1>7. ASSUME NEW i \in S, Cardinality(After(i)) < L PROVE \E n \in 1..m : e[n] = i
  <2>1. SUFFICES ASSUME m = L /\ \A n \in 1..m : i < e[n] PROVE FALSE
    BY <1>1
  <2> DEFINE A == After(i)
  <2>2. i \in 1..N
    BY <1>2
  <2>3. e \in [1..m -> A]
    BY <1>1, <1>2, <1>3, <2>1, <2>2
  <2>4. IsFiniteSet(A) /\ Cardinality(A) \in Nat
    BY <1>5, <2>2
  <2> HIDE DEF A
  <2>5. e \in Injection(1..m, A)
    BY <1>4, <2>3 DEF Injection, IsInjective
  <2>6. Cardinality(1..m) <= Cardinality(A)
    BY <2>4, <2>5, FS_Injection
  <2>7. Cardinality(1..m) = IF 1 > m THEN 0 ELSE m - 1 + 1
    BY <1>1, FS_Interval
  <2>8. Cardinality(1..m) = m
    BY <1>1, <2>7
  <2> QED  BY <1>1, <1>2, <1>7, <2>1, <2>4, <2>6, <2>8 DEF A
<1>8. Shown(log, id) = {i \in S : Cardinality(After(i)) < L}
  BY DEF Shown, S, L
<1> HIDE DEF After
<1>9. \A i : i \in Shown(log, id) <=> \E n \in 1..m : e[n] = i
  BY <1>6, <1>7, <1>8
<1>10. {trail[n] : n \in 1..m} = {log[i].sequence : i \in Shown(log, id)}
  <2>1. ASSUME NEW n \in 1..m PROVE trail[n] \in {log[i].sequence : i \in Shown(log, id)}
    BY <1>1, <1>9, <2>1
  <2>2. ASSUME NEW i \in Shown(log, id) PROVE log[i].sequence \in {trail[n] : n \in 1..m}
    <3>1. PICK n \in 1..m : e[n] = i
      BY <1>9, <2>2
    <3> QED  BY <1>1, <3>1
  <2> QED  BY <2>1, <2>2
<1>11. ASSUME NEW a \in 1..m, NEW b \in 1..m, a < b PROVE trail[a] < trail[b]
  <2>1. e[a] < e[b] /\ e[a] \in 1..N /\ e[b] \in 1..N
    BY <1>1, <1>3, <1>11
  <2>2. log[e[a]].sequence < log[e[b]].sequence
    BY <2>1 DEF Ordered, N
  <2> QED  BY <1>1, <2>2
<1> QED  BY <1>10, <1>11 DEF OldestFirst, m

OverlayFields == {"options", "running", "starts", "trails", "last_seen", "writer", "window",
                  "quit", "log", "quits"}
OverlayRecord(o) == o = [x \in OverlayFields |-> o[x]]

\* What holds of the overlay between its calls: a writer that is still to be
\* opened means that the run has had no frame, so the throw of consume() is
\* about the first one.
OverlayInv ==
    /\ OverlayRecord(ov) /\ ov.options \in OverlayOptions /\ Ordered(ov.log)
    /\ ov.running /\ ov.options.video /\ ~ov.writer => ov.log = <<>>
    /\ ov.options.draw_trails => TrailsKept(ov.log, ov.trails, ov.last_seen)

\* No frame yet.
LEMMA NoFrames == Ordered(<<>>) /\ TrailsKept(<<>>, <<>>, <<>>)
<1>1. Ordered(<<>>)
  BY DEF Ordered
<1>2. \A id : FollowedSince(<<>>, id) = {}
  BY DEF FollowedSince, SightingsOf
<1>3. DOMAIN <<>> = {}
  OBVIOUS
<1>4. TrailsKept(<<>>, <<>>, <<>>)
  BY <1>2, <1>3 DEF TrailsKept
<1> QED  BY <1>1, <1>4

\* The rendering of one more frame.
LEMMA RenderKeeps ==
  ASSUME NEW o, OverlayRecord(o), o.options \in OverlayOptions, Ordered(o.log),
         o.options.draw_trails => TrailsKept(o.log, o.trails, o.last_seen),
         NEW sequence \in Nat, NEW ids \in SUBSET TrackIds,
         \A i \in 1..Len(o.log) : o.log[i].sequence < sequence
  PROVE  LET d == render(o, sequence, ids)
             new == Append(o.log, [sequence |-> sequence, ids |-> ids])
         IN /\ OverlayRecord(d) /\ d.options = o.options /\ d.log = o.log
            /\ d.running = o.running /\ d.writer = o.writer
            /\ Ordered(new)
            /\ o.options.draw_trails => TrailsKept(new, d.trails, d.last_seen)
<1> DEFINE f == [sequence |-> sequence, ids |-> ids]
           d == render(o, sequence, ids)
           rt == TrailsAfter(o.trails, o.last_seen, sequence, ids)
           rs == LastSeenAfter(o.trails, o.last_seen, sequence, ids)
<1>1. f \in LogEntry /\ f.sequence = sequence /\ f.ids = ids
  BY DEF LogEntry
<1>2. \A i \in 1..Len(o.log) : o.log[i].sequence < f.sequence
  BY <1>1
<1> HIDE DEF f
<1>3. Ordered(Append(o.log, f))
  BY <1>1, <1>2, SightingsGrow
<1>4. o.options.draw_trails \in BOOLEAN
  BY DEF OverlayOptions
<1>5. CASE ~o.options.draw_trails
  <2>1. d = o
    BY <1>5 DEF render
  <2> HIDE DEF d
  <2> QED  BY <1>3, <1>5, <2>1 DEF f, d
<1>6. CASE o.options.draw_trails
  <2>1. d = [o EXCEPT !.trails = rt, !.last_seen = rs]
    BY <1>6 DEF render, TrailsAfter, LastSeenAfter, KeptAfter, GrownBy, SeenAfter
  <2>2. TrailsKept(Append(o.log, f), rt, rs)
    <3>1. TrailsKept(o.log, o.trails, o.last_seen) /\ f.sequence = sequence /\ f.ids = ids
      BY <1>1, <1>6
    <3> QED  BY <1>1, <1>2, <3>1, FrameStep, Zenon
  <2> HIDE DEF d, rt, rs
  <2>3. /\ OverlayRecord(d) /\ d.options = o.options /\ d.log = o.log
        /\ d.running = o.running /\ d.writer = o.writer
        /\ d.trails = rt /\ d.last_seen = rs
    BY <2>1 DEF OverlayRecord, OverlayFields
  <2> QED  BY <1>3, <2>2, <2>3 DEF f, d
<1> QED  BY <1>4, <1>5, <1>6

\* on_start begins a log and forgets the trails.
LEMMA StartKeeps == ASSUME OverlayInv, on_start PROVE OverlayInv'
<1> DEFINE o == renderer_on_start(ov)
<1>1. /\ OverlayRecord(o) /\ o.options = ov.options
      /\ o.trails = <<>> /\ o.last_seen = <<>>
  BY DEF OverlayInv, OverlayRecord, OverlayFields, renderer_on_start
<1>2. ov' = [o EXCEPT !.running = TRUE, !.starts = o.starts + 1,
                      !.quit = FALSE, !.log = <<>>, !.quits = 0]
  BY DEF on_start, renderer_on_start
<1> HIDE DEF o
<1>3. /\ OverlayRecord(ov') /\ ov'.options = ov.options /\ ov'.log = <<>>
      /\ ov'.trails = <<>> /\ ov'.last_seen = <<>>
  BY <1>1, <1>2 DEF OverlayRecord, OverlayFields
<1> QED  BY <1>3, NoFrames DEF OverlayInv

\* A frame that is drawn extends the trails of the tracks it shows.
LEMMA ConsumeKeeps == ASSUME OverlayInv, consume PROVE OverlayInv'
<1>1. PICK sequence \in 0..MaxSequence, ids \in SUBSET TrackIds, key \in BOOLEAN :
         /\ ov.log # <<>> => sequence > Last(ov.log).sequence
         /\ key => ov.options.show
         /\ LET drawn == render(ov, sequence, ids)
            IN ov' = [drawn EXCEPT
                        !.writer = @ \/ ov.options.video,
                        !.window = @ \/ ov.options.show,
                        !.quit = @ \/ key,
                        !.quits = IF key /\ ~ov.quit THEN @ + 1 ELSE @,
                        !.log = Append(@, [sequence |-> sequence, ids |-> ids])]
  BY Zenon DEF consume
<1> DEFINE drawn == render(ov, sequence, ids)
           f == [sequence |-> sequence, ids |-> ids]
<1>2. sequence \in Nat
  BY OverlaySinkAssumption
<1>3. /\ OverlayRecord(ov) /\ ov.options \in OverlayOptions /\ Ordered(ov.log)
      /\ ov.options.draw_trails => TrailsKept(ov.log, ov.trails, ov.last_seen)
  BY DEF OverlayInv
<1>4. \A i \in 1..Len(ov.log) : ov.log[i].sequence < sequence
  <2>1. ASSUME NEW i \in 1..Len(ov.log) PROVE ov.log[i].sequence < sequence
    <3> DEFINE log == ov.log
               n == Len(log)
    <3>1. log \in Seq(LogEntry)
      BY <1>3 DEF Ordered
    <3>2. n \in Nat /\ i \in 1..n /\ n \in 1..n /\ log # <<>>
      BY <3>1
    <3>3. log[n].sequence < sequence /\ log[n] \in LogEntry /\ log[i] \in LogEntry
      BY <1>1, <3>1, <3>2 DEF Last
    <3>4. log[n].sequence \in Nat /\ log[i].sequence \in Nat
      BY <3>3 DEF LogEntry
    <3> HIDE DEF log, n
    <3>5. i = n \/ i < n
      BY <3>2
    <3>6. log[i].sequence <= log[n].sequence
      BY <1>3, <3>2, <3>4, <3>5 DEF Ordered, log, n
    <3> QED  BY <1>2, <3>3, <3>4, <3>6 DEF log
  <2> QED  BY <2>1
<1>5. /\ OverlayRecord(drawn) /\ drawn.options = ov.options /\ drawn.log = ov.log
      /\ drawn.running = ov.running /\ drawn.writer = ov.writer
      /\ Ordered(Append(ov.log, f))
      /\ ov.options.draw_trails => TrailsKept(Append(ov.log, f), drawn.trails, drawn.last_seen)
  BY <1>2, <1>3, <1>4, RenderKeeps
<1> DEFINE writer == drawn.writer \/ ov.options.video
           window == drawn.window \/ ov.options.show
           quit == drawn.quit \/ key
           quits == IF key /\ ~ov.quit THEN drawn.quits + 1 ELSE drawn.quits
           log == Append(drawn.log, f)
<1>6. ov' = [drawn EXCEPT !.writer = writer, !.window = window, !.quit = quit,
                          !.quits = quits, !.log = log]
  BY <1>1, <1>5 DEF OverlayRecord, OverlayFields
<1>7. (writer <=> ov.writer \/ ov.options.video) /\ log = Append(ov.log, f)
  BY <1>5
<1> HIDE DEF drawn, writer, window, quit, quits, log, f
<1>8. /\ OverlayRecord(ov') /\ ov'.options = ov.options /\ ov'.log = log
      /\ ov'.trails = drawn.trails /\ ov'.last_seen = drawn.last_seen /\ ov'.writer = writer
  BY <1>5, <1>6 DEF OverlayRecord, OverlayFields
<1>9. ov'.options.video => ov'.writer
  BY <1>7, <1>8, Zenon
<1> QED  BY <1>3, <1>5, <1>7, <1>8, <1>9 DEF OverlayInv

\* So does a frame whose writer throws.
LEMMA ConsumeThrowsKeeps == ASSUME OverlayInv, consume_throws PROVE OverlayInv'
<1>1. PICK sequence \in 0..MaxSequence, ids \in SUBSET TrackIds :
         ov' = [render(ov, sequence, ids) EXCEPT !.running = FALSE,
                  !.log = Append(@, [sequence |-> sequence, ids |-> ids])]
  BY DEF consume_throws
<1> DEFINE drawn == render(ov, sequence, ids)
           f == [sequence |-> sequence, ids |-> ids]
<1>2. sequence \in Nat
  BY OverlaySinkAssumption
<1>3. /\ OverlayRecord(ov) /\ ov.options \in OverlayOptions /\ Ordered(ov.log)
      /\ ov.options.draw_trails => TrailsKept(ov.log, ov.trails, ov.last_seen)
  BY DEF OverlayInv
<1>4. ov.log = <<>>
  BY DEF OverlayInv, consume_throws
<1>5. \A i \in 1..Len(ov.log) : ov.log[i].sequence < sequence
  BY <1>4
<1>6. /\ OverlayRecord(drawn) /\ drawn.options = ov.options /\ drawn.log = ov.log
      /\ drawn.running = ov.running /\ drawn.writer = ov.writer
      /\ Ordered(Append(ov.log, f))
      /\ ov.options.draw_trails => TrailsKept(Append(ov.log, f), drawn.trails, drawn.last_seen)
  BY <1>2, <1>3, <1>5, RenderKeeps
<1> DEFINE log == Append(drawn.log, f)
<1>7. ov' = [drawn EXCEPT !.running = FALSE, !.log = log]
  BY <1>1, <1>6 DEF OverlayRecord, OverlayFields
<1>8. log = Append(ov.log, f)
  BY <1>6
<1> HIDE DEF drawn, log, f
<1>9. /\ OverlayRecord(ov') /\ ov'.options = ov.options /\ ov'.log = log
      /\ ov'.trails = drawn.trails /\ ov'.last_seen = drawn.last_seen /\ ov'.running = FALSE
  BY <1>6, <1>7 DEF OverlayRecord, OverlayFields
<1> QED  BY <1>3, <1>6, <1>8, <1>9 DEF OverlayInv

\* on_finish leaves the trails alone.
LEMMA FinishKeeps == ASSUME OverlayInv, on_finish PROVE OverlayInv'
<1>1. /\ OverlayRecord(ov') /\ ov'.options = ov.options /\ ov'.log = ov.log
      /\ ov'.trails = ov.trails /\ ov'.last_seen = ov.last_seen /\ ov'.running = FALSE
  BY DEF OverlayInv, OverlayRecord, OverlayFields, on_finish
<1> QED  BY <1>1 DEF OverlayInv

\* The trails that the overlay draws are true, for every number of tracks and
\* of frames, every length of a trail and every time after which it is
\* forgotten, over any sequence of runs, the ones that throw included.
THEOREM TrailsTrueHolds == Spec => []TrailsTrue
<1>1. Init => OverlayInv
  <2>1. SUFFICES ASSUME Init_ov PROVE OverlayInv
    BY DEF Init
  <2>2. PICK options \in OverlayOptions :
          ov = [options |-> options, running |-> FALSE, starts |-> 0,
                trails |-> <<>>, last_seen |-> <<>>, writer |-> FALSE,
                window |-> FALSE, quit |-> FALSE, log |-> <<>>, quits |-> 0]
    BY <2>1 DEF Init_ov
  <2>3. /\ OverlayRecord(ov) /\ ov.options = options /\ ov.log = <<>>
        /\ ov.trails = <<>> /\ ov.last_seen = <<>>
    BY <2>2 DEF OverlayRecord, OverlayFields
  <2> QED  BY <2>3, NoFrames DEF OverlayInv
<1>2. OverlayInv /\ [Next]_vars => OverlayInv'
  <2>1. [Next]_vars => Next_ov \/ UNCHANGED ov
    BY DEF Next, vars
  <2>2. ASSUME OverlayInv, UNCHANGED ov PROVE OverlayInv'
    BY <2>2 DEF OverlayInv
  <2> QED  BY <2>1, <2>2, StartKeeps, ConsumeKeeps, ConsumeThrowsKeeps, FinishKeeps DEF Next_ov
<1>3. OverlayInv => TrailsTrue
  <2>1. SUFFICES ASSUME OverlayInv, ov.options.draw_trails PROVE TrailsTrue
    BY DEF TrailsTrue
  <2> DEFINE alive == {id \in TrackIds : FollowedSince(ov.log, id) # {}}
  <2>2. /\ Ordered(ov.log) /\ DOMAIN ov.trails = alive /\ DOMAIN ov.last_seen = alive
        /\ \A id \in alive :
              \E e : Enumerates(e, ov.trails[id], ov.log, FollowedSince(ov.log, id))
    BY <2>1 DEF OverlayInv, TrailsKept
  <2>3. ASSUME NEW id \in alive
        PROVE  OldestFirst(ov.trails[id], {ov.log[i].sequence : i \in Shown(ov.log, id)})
    BY <2>2, ShownAre
  <2> QED  BY <2>2, <2>3 DEF TrailsTrue
<1> QED  BY <1>1, <1>2, <1>3, PTL DEF Spec

-----------------------------------------------------------------------------
(* The optimal assignment.  First, sums of integers.                         *)

Summands(f, n) == n \in Nat /\ \A k \in 1..n : f[k] \in Int

PartialTotals(f, n, P) ==
    /\ P \in [0..n -> Int] /\ P[0] = 0 /\ Total(f, n) = P[n]
    /\ \A k \in 1..n : P[k] = P[k - 1] + f[k]

\* The sum, one by one.
LEMMA TotalUnfolds ==
  ASSUME NEW f, NEW n, Summands(f, n)
  PROVE  \E P : PartialTotals(f, n, P)
<1> DEFINE step == [p \in Int \X (1..n) |-> p[1] + f[p[2]]]
           Unfolds(h) == h = [k \in 0..n |-> IF k = 0 THEN 0 ELSE h[k - 1] + f[k]]
<1>1. n \in Nat /\ \A k \in 1..n : f[k] \in Int
  BY DEF Summands
<1>2. step \in [Int \X (1..n) -> Int]
  <2>1. ASSUME NEW p \in Int \X (1..n) PROVE p[1] + f[p[2]] \in Int
    <3>1. p[1] \in Int /\ p[2] \in 1..n
      OBVIOUS
    <3>2. f[p[2]] \in Int
      BY <1>1, <3>1
    <3> QED  BY <3>1, <3>2
  <2> QED  BY <2>1
<1>3. ASSUME NEW v \in Int, NEW k \in 1..n PROVE step[<<v, k>>] = v + f[k]
  OBVIOUS
<1> HIDE DEF step
<1>4. PICK P : SolvesUpTo(P, n, Int, 0, step)
  <2> DEFINE V == Int
  <2>1. 0 \in V /\ step \in [V \X (1..n) -> V]
    BY <1>2
  <2> HIDE DEF V
  <2>2. \E P : SolvesUpTo(P, n, V, 0, step)
    BY <1>1, <2>1, RecursionUpTo
  <2> QED  BY <2>2 DEF V
<1>5. P \in [0..n -> Int] /\ P[0] = 0 /\ \A k \in 1..n : P[k] = P[k - 1] + f[k]
  <2>1. P \in [0..n -> Int] /\ P[0] = 0 /\ \A k \in 1..n : P[k] = step[<<P[k - 1], k>>]
    BY <1>4 DEF SolvesUpTo
  <2>2. \A k \in 1..n : k - 1 \in 0..n
    BY <1>1
  <2> QED  BY <1>3, <2>1, <2>2
<1>6. Unfolds(P)
  <2>1. ASSUME NEW k \in 0..n PROVE P[k] = IF k = 0 THEN 0 ELSE P[k - 1] + f[k]
    <3>1. CASE k = 0
      BY <1>5, <3>1
    <3>2. CASE k # 0
      <4>1. k \in 1..n
        BY <1>1, <3>2
      <4> QED  BY <1>5, <3>2, <4>1
    <3> QED  BY <3>1, <3>2
  <2>2. P = [k \in 0..n |-> P[k]]
    BY <1>5
  <2> QED  BY <2>1, <2>2
<1> DEFINE S == CHOOSE h : Unfolds(h)
<1>7. Total(f, n) = S[n]
  BY DEF Total
<1>8. Unfolds(S)
  <2> HIDE DEF Unfolds
  <2> QED  BY <1>6
<1> HIDE DEF S
<1>9. \A k \in 0..n : k \in {m \in 0..n : S[m] = P[m]}
  <2> DEFINE T == {m \in 0..n : S[m] = P[m]}
  <2>1. 0 \in T
    BY <1>1, <1>5, <1>8
  <2>2. ASSUME NEW m \in 0..(n - 1), m \in T PROVE m + 1 \in T
    <3>1. m + 1 \in 0..n /\ m + 1 \in 1..n /\ (m + 1) - 1 = m /\ m + 1 # 0
      BY <1>1
    <3>2. S[m + 1] = S[m] + f[m + 1]
      BY <1>8, <3>1
    <3>3. P[m + 1] = P[m] + f[m + 1]
      BY <1>5, <3>1
    <3> QED  BY <2>2, <3>1, <3>2, <3>3
  <2> HIDE DEF T
  <2>3. \A m \in 0..n : m \in T
    BY <1>1, <2>1, <2>2, InductionUpTo
  <2> QED  BY <2>3 DEF T
<1>10. Total(f, n) = P[n]
  BY <1>1, <1>7, <1>9
<1>11. PartialTotals(f, n, P)
  BY <1>5, <1>10 DEF PartialTotals
<1> QED  BY <1>11

\* The empty sum, and one summand more.
LEMMA TotalSteps ==
  ASSUME NEW f, NEW n, Summands(f, n)
  PROVE  /\ Total(f, 0) = 0
         /\ \A m \in 0..n : Total(f, m) \in Int
         /\ \A m \in 0..(n - 1) : Total(f, m + 1) = Total(f, m) + f[m + 1]
<1>1. PICK P : PartialTotals(f, n, P)
  BY TotalUnfolds
<1>2. n \in Nat
  BY DEF Summands
<1>3. ASSUME NEW m \in 0..n PROVE Total(f, m) = P[m]
  <2>1. Summands(f, m) /\ m \in Nat
    BY <1>2 DEF Summands
  <2>2. PICK Q : PartialTotals(f, m, Q)
    BY <2>1, TotalUnfolds
  <2> DEFINE T == {k \in 0..m : P[k] = Q[k]}
  <2>3. 0 \in T
    BY <1>1, <2>1, <2>2 DEF PartialTotals
  <2>4. ASSUME NEW k \in 0..(m - 1), k \in T PROVE k + 1 \in T
    <3>1. k + 1 \in 0..m /\ k + 1 \in 1..m /\ k + 1 \in 1..n /\ (k + 1) - 1 = k
      BY <1>2, <2>1
    <3>2. P[k + 1] = P[k] + f[k + 1] /\ Q[k + 1] = Q[k] + f[k + 1]
      BY <1>1, <2>2, <3>1 DEF PartialTotals
    <3> QED  BY <2>4, <3>1, <3>2
  <2> HIDE DEF T
  <2>5. \A k \in 0..m : k \in T
    BY <2>1, <2>3, <2>4, InductionUpTo
  <2> QED  BY <2>1, <2>2, <2>5 DEF T, PartialTotals
<1>4. 0 \in 0..n /\ \A m \in 0..(n - 1) : m \in 0..n /\ m + 1 \in 0..n /\ m + 1 \in 1..n /\ (m + 1) - 1 = m
  BY <1>2
<1>5. /\ P \in [0..n -> Int] /\ P[0] = 0
      /\ \A k \in 1..n : P[k] = P[k - 1] + f[k]
  BY <1>1 DEF PartialTotals
<1>6. Total(f, 0) = 0 /\ \A m \in 0..n : Total(f, m) \in Int
  BY <1>3, <1>4, <1>5
<1>7. ASSUME NEW m \in 0..(n - 1) PROVE Total(f, m + 1) = Total(f, m) + f[m + 1]
  <2>1. P[m + 1] = P[m] + f[m + 1]
    BY <1>4, <1>5
  <2> QED  BY <1>3, <1>4, <2>1
<1> QED  BY <1>6, <1>7

\* Sums of sums.
LEMMA TotalOfSum ==
  ASSUME NEW n, NEW f, NEW g, NEW h, Summands(f, n), Summands(g, n), Summands(h, n),
         \A k \in 1..n : h[k] = f[k] + g[k]
  PROVE  Total(h, n) = Total(f, n) + Total(g, n)
<1> DEFINE T == {m \in 0..n : Total(h, m) = Total(f, m) + Total(g, m)}
<1>1. n \in Nat /\ \A k \in 1..n : f[k] \in Int /\ g[k] \in Int
  BY DEF Summands
<1>2. 0 \in T
  BY <1>1, TotalSteps
<1>3. ASSUME NEW m \in 0..(n - 1), m \in T PROVE m + 1 \in T
  <2>1. m \in 0..n /\ m + 1 \in 0..n /\ m + 1 \in 1..n
    BY <1>1
  <2>2. /\ Total(f, m + 1) = Total(f, m) + f[m + 1]
        /\ Total(g, m + 1) = Total(g, m) + g[m + 1]
        /\ Total(h, m + 1) = Total(h, m) + h[m + 1]
        /\ Total(f, m) \in Int /\ Total(g, m) \in Int
    BY <2>1, TotalSteps
  <2> QED  BY <1>1, <1>3, <2>1, <2>2
<1> HIDE DEF T
<1>4. \A m \in 0..n : m \in T
  BY <1>1, <1>2, <1>3, InductionUpTo
<1>5. n \in T
  BY <1>1, <1>4
<1> QED  BY <1>5 DEF T

\* Smaller summands, a smaller sum.
LEMMA TotalOfLess ==
  ASSUME NEW n, NEW f, NEW g, Summands(f, n), Summands(g, n), \A k \in 1..n : f[k] <= g[k]
  PROVE  Total(f, n) <= Total(g, n)
<1> DEFINE T == {m \in 0..n : Total(f, m) <= Total(g, m)}
<1>1. n \in Nat /\ \A k \in 1..n : f[k] \in Int /\ g[k] \in Int
  BY DEF Summands
<1>2. 0 \in T
  BY <1>1, TotalSteps
<1>3. ASSUME NEW m \in 0..(n - 1), m \in T PROVE m + 1 \in T
  <2>1. m \in 0..n /\ m + 1 \in 0..n /\ m + 1 \in 1..n
    BY <1>1
  <2>2. /\ Total(f, m + 1) = Total(f, m) + f[m + 1]
        /\ Total(g, m + 1) = Total(g, m) + g[m + 1]
        /\ Total(f, m) \in Int /\ Total(g, m) \in Int
    BY <2>1, TotalSteps
  <2> QED  BY <1>1, <1>3, <2>1, <2>2
<1> HIDE DEF T
<1>4. \A m \in 0..n : m \in T
  BY <1>1, <1>2, <1>3, InductionUpTo
<1>5. n \in T
  BY <1>1, <1>4
<1> QED  BY <1>5 DEF T

\* The same summands, the same sum.
LEMMA SameTotal ==
  ASSUME NEW n, NEW f, NEW g, Summands(f, n), \A k \in 1..n : f[k] = g[k]
  PROVE  Total(f, n) = Total(g, n) /\ Total(f, n) \in Int
<1>1. Summands(g, n) /\ n \in 0..n
  BY DEF Summands
<1>2. \A k \in 1..n : f[k] <= g[k] /\ g[k] <= f[k]
  BY DEF Summands
<1>3. Total(f, n) <= Total(g, n) /\ Total(g, n) <= Total(f, n)
  BY <1>1, <1>2, TotalOfLess
<1>4. Total(f, n) \in Int /\ Total(g, n) \in Int
  BY <1>1, TotalSteps
<1> QED  BY <1>3, <1>4

\* One summand changes.
LEMMA TotalOfChanged ==
  ASSUME NEW n, NEW f, NEW g, Summands(f, n), Summands(g, n), NEW k \in 1..n,
         \A j \in 1..n : j # k => g[j] = f[j]
  PROVE  Total(g, n) = Total(f, n) + (g[k] - f[k])
<1> DEFINE T == {m \in 0..n : Total(g, m) = Total(f, m) + (IF k <= m THEN g[k] - f[k] ELSE 0)}
<1>1. n \in Nat /\ \A j \in 1..n : f[j] \in Int /\ g[j] \in Int
  BY DEF Summands
<1>2. 0 \in T
  BY <1>1, TotalSteps
<1>3. ASSUME NEW m \in 0..(n - 1), m \in T PROVE m + 1 \in T
  <2>1. m \in 0..n /\ m + 1 \in 0..n /\ m + 1 \in 1..n
    BY <1>1
  <2>2. /\ Total(f, m + 1) = Total(f, m) + f[m + 1]
        /\ Total(g, m + 1) = Total(g, m) + g[m + 1]
        /\ Total(f, m) \in Int /\ Total(g, m) \in Int
    BY <2>1, TotalSteps
  <2>3. f[k] \in Int /\ g[k] \in Int /\ f[m + 1] \in Int
    BY <1>1, <2>1
  <2>4. CASE k <= m
    <3>1. k <= m + 1 /\ g[m + 1] = f[m + 1]
      BY <2>1, <2>4
    <3> QED  BY <1>3, <2>1, <2>2, <2>3, <2>4, <3>1
  <2>5. CASE k = m + 1
    <3>1. ~(k <= m)
      BY <2>5
    <3> QED  BY <1>3, <2>1, <2>2, <2>3, <2>5, <3>1
  <2>6. CASE k > m + 1
    <3>1. ~(k <= m) /\ ~(k <= m + 1) /\ g[m + 1] = f[m + 1]
      BY <2>1, <2>6
    <3> QED  BY <1>3, <2>1, <2>2, <2>3, <3>1
  <2> QED  BY <2>4, <2>5, <2>6
<1> HIDE DEF T
<1>4. \A m \in 0..n : m \in T
  BY <1>1, <1>2, <1>3, InductionUpTo
<1>5. n \in T
  BY <1>1, <1>4
<1> QED  BY <1>5 DEF T

\* A sum in two parts.
LEMMA TotalInParts ==
  ASSUME NEW a \in Nat, NEW b \in Nat, NEW f, NEW g, Summands(f, a + b),
         \A k \in 1..b : g[k] = f[a + k]
  PROVE  Total(f, a + b) = Total(f, a) + Total(g, b)
<1> DEFINE T == {m \in 0..b : Total(f, a + m) = Total(f, a) + Total(g, m)}
<1>1. \A k \in 1..b : a + k \in 1..(a + b)
  OBVIOUS
<1>2. Summands(g, b)
  BY <1>1 DEF Summands
<1>3. Total(g, 0) = 0 /\ Total(f, a) \in Int
  <2>1. a \in 0..(a + b)
    OBVIOUS
  <2> QED  BY <1>2, <2>1, TotalSteps
<1>4. 0 \in T
  <2>1. a + 0 = a /\ 0 \in 0..b
    OBVIOUS
  <2> QED  BY <1>3, <2>1
<1>5. ASSUME NEW m \in 0..(b - 1), m \in T PROVE m + 1 \in T
  <2>1. m + 1 \in 1..b /\ m + 1 \in 0..b /\ m \in 0..b /\ a + (m + 1) = (a + m) + 1
    OBVIOUS
  <2>2. a + m \in 0..((a + b) - 1) /\ a + m \in 0..(a + b) /\ (a + m) + 1 \in 1..(a + b)
    OBVIOUS
  <2> DEFINE am == a + m
  <2>3. Total(f, am + 1) = Total(f, am) + f[am + 1] /\ Total(f, am) \in Int
    <3> HIDE DEF am
    <3> QED  BY <2>2, TotalSteps DEF am
  <2>4. Total(g, m + 1) = Total(g, m) + g[m + 1] /\ Total(g, m) \in Int
    BY <1>2, <2>1, TotalSteps
  <2>5. g[m + 1] = f[am + 1] /\ g[m + 1] \in Int
    BY <1>2, <2>1 DEF Summands
  <2>6. Total(f, am) = Total(f, a) + Total(g, m)
    BY <1>5
  <2>7. Total(f, a + (m + 1)) = Total(f, am + 1)
    BY <2>1
  <2> HIDE DEF am
  <2>8. Total(f, a + (m + 1)) = Total(f, a) + Total(g, m + 1)
    BY <1>3, <2>3, <2>4, <2>5, <2>6, <2>7
  <2> QED  BY <2>1, <2>8
<1> HIDE DEF T
<1>6. b \in T
  BY <1>4, <1>5, InductionUpTo
<1> QED  BY <1>6 DEF T

\* No summand of a sum of naturals is larger than the sum.
LEMMA TotalOfNats ==
  ASSUME NEW n \in Nat, NEW f, \A j \in 1..n : f[j] \in Nat, NEW k \in 1..n
  PROVE  f[k] <= Total(f, n)
<1> DEFINE T == {m \in 0..n : Total(f, m) \in Nat /\ (k <= m => f[k] <= Total(f, m))}
<1>1. Summands(f, n)
  BY DEF Summands
<1>2. 0 \in T
  BY <1>1, TotalSteps
<1>3. ASSUME NEW m \in 0..(n - 1), m \in T PROVE m + 1 \in T
  <2>1. m \in 0..n /\ m + 1 \in 0..n /\ m + 1 \in 1..n
    OBVIOUS
  <2>2. Total(f, m + 1) = Total(f, m) + f[m + 1]
    BY <1>1, <2>1, TotalSteps
  <2>3. Total(f, m) \in Nat /\ f[m + 1] \in Nat /\ f[k] \in Nat
    BY <1>3, <2>1
  <2>4. Total(f, m + 1) \in Nat
    BY <2>2, <2>3
  <2>5. ASSUME k <= m + 1 PROVE f[k] <= Total(f, m + 1)
    <3>1. CASE k = m + 1
      BY <2>2, <2>3, <3>1
    <3>2. CASE k # m + 1
      <4>1. k <= m
        BY <2>5, <3>2
      <4>2. f[k] <= Total(f, m)
        BY <1>3, <4>1
      <4> QED  BY <2>2, <2>3, <4>2
    <3> QED  BY <3>1, <3>2
  <2> QED  BY <2>1, <2>4, <2>5
<1> HIDE DEF T
<1>4. n \in T
  BY <1>2, <1>3, InductionUpTo
<1> QED  BY <1>4 DEF T

Permutes(pi, n) ==
    /\ pi \in [1..n -> 1..n]
    /\ \A a, b \in 1..n : pi[a] = pi[b] => a = b
    /\ \A r \in 1..n : \E c \in 1..n : pi[c] = r

\* A permutation with its last point cut out.
LEMMA CutPermutation ==
  ASSUME NEW n \in Nat, NEW pi, Permutes(pi, n + 1), NEW k \in 1..(n + 1), pi[k] = n + 1
  PROVE  Permutes([c \in 1..n |-> IF c = k THEN pi[n + 1] ELSE pi[c]], n)
<1> DEFINE rho == [c \in 1..n |-> IF c = k THEN pi[n + 1] ELSE pi[c]]
           N == n + 1
<1>1. /\ pi \in [1..N -> 1..N] /\ \A a, b \in 1..N : pi[a] = pi[b] => a = b
      /\ \A r \in 1..N : \E c \in 1..N : pi[c] = r
  BY DEF Permutes
<1>2. /\ N \in 1..N /\ N \in Nat
      /\ \A c \in 1..n : c \in 1..N /\ c # N
      /\ \A c \in 1..N : c # N => c \in 1..n
  OBVIOUS
<1>3. /\ \A c \in 1..n : c # k => rho[c] = pi[c]
      /\ k \in 1..n => rho[k] = pi[N]
  OBVIOUS
<1>4. pi[k] = N /\ k \in 1..N
  OBVIOUS
<1> HIDE DEF N
<1>5. ASSUME NEW c \in 1..n PROVE rho[c] \in 1..n
  <2>1. CASE c = k
    <3>1. pi[N] \in 1..N /\ pi[N] # N
      BY <1>1, <1>2, <1>4, <2>1
    <3> QED  BY <1>2, <1>3, <2>1, <3>1
  <2>2. CASE c # k
    <3>1. pi[c] \in 1..N /\ pi[c] # N
      BY <1>1, <1>2, <1>4, <2>2
    <3> QED  BY <1>2, <1>3, <2>2, <3>1
  <2> QED  BY <2>1, <2>2
<1>6. rho \in [1..n -> 1..n]
  <2>1. rho = [c \in 1..n |-> rho[c]]
    OBVIOUS
  <2> HIDE DEF rho
  <2> QED  BY <1>5, <2>1
<1> HIDE DEF rho
<1>7. ASSUME NEW a \in 1..n, NEW b \in 1..n, rho[a] = rho[b] PROVE a = b
  <2>1. CASE a = k /\ b # k
    <3>1. pi[N] = pi[b] /\ b \in 1..N /\ b # N /\ N \in 1..N
      BY <1>2, <1>3, <1>7, <2>1
    <3> QED  BY <1>1, <3>1
  <2>2. CASE a # k /\ b = k
    <3>1. pi[a] = pi[N] /\ a \in 1..N /\ a # N /\ N \in 1..N
      BY <1>2, <1>3, <1>7, <2>2
    <3> QED  BY <1>1, <3>1
  <2>3. CASE a # k /\ b # k
    BY <1>1, <1>2, <1>3, <1>7, <2>3
  <2> QED  BY <2>1, <2>2, <2>3
<1>8. ASSUME NEW r \in 1..n PROVE \E c \in 1..n : rho[c] = r
  <2>1. r \in 1..N /\ r # N
    BY <1>2
  <2>2. PICK c \in 1..N : pi[c] = r
    BY <1>1, <2>1
  <2>3. c # k
    BY <1>4, <2>1, <2>2
  <2>4. CASE c = N
    <3>1. k \in 1..n
      BY <1>2, <1>4, <2>3, <2>4
    <3> QED  BY <1>3, <2>2, <2>4, <3>1
  <2>5. CASE c # N
    <3>1. c \in 1..n
      BY <1>2, <2>5
    <3> QED  BY <1>3, <2>2, <2>3, <3>1
  <2> QED  BY <2>4, <2>5
<1>9. Permutes(rho, n)
  BY <1>6, <1>7, <1>8 DEF Permutes
<1> QED  BY <1>9 DEF rho, N

\* The order of the summands does not matter.
LEMMA TotalPermuted ==
  ASSUME NEW N, NEW f, Summands(f, N), NEW sigma, Permutes(sigma, N)
  PROVE  Total([c \in 1..N |-> f[sigma[c]]], N) = Total(f, N)
<1> DEFINE T == {n \in 0..N : \A pi : Permutes(pi, n) =>
                                 Total([c \in 1..n |-> f[pi[c]]], n) = Total(f, n)}
<1>1. N \in Nat /\ \A k \in 1..N : f[k] \in Int
  BY DEF Summands
<1>2. 0 \in T
  <2>1. ASSUME NEW pi PROVE Total([c \in 1..0 |-> f[pi[c]]], 0) = Total(f, 0)
    <3> DEFINE g == [c \in 1..0 |-> f[pi[c]]]
    <3> HIDE DEF g
    <3>1. Summands(g, 0) /\ Summands(f, 0)
      BY DEF Summands
    <3>2. Total(g, 0) = 0 /\ Total(f, 0) = 0
      BY <3>1, TotalSteps
    <3> QED  BY <3>2 DEF g
  <2> QED  BY <1>1, <2>1
<1>3. ASSUME NEW n \in 0..(N - 1), n \in T PROVE n + 1 \in T
  <2>1. n \in Nat /\ n + 1 \in 0..N /\ n + 1 \in 1..N /\ n \in 0..n
    BY <1>1
  <2>2. ASSUME NEW pi, Permutes(pi, n + 1)
        PROVE  Total([c \in 1..(n + 1) |-> f[pi[c]]], n + 1) = Total(f, n + 1)
    <3> DEFINE m == n + 1
               g == [c \in 1..m |-> f[pi[c]]]
    <3>1. /\ pi \in [1..m -> 1..m]
          /\ \A a, b \in 1..m : pi[a] = pi[b] => a = b
          /\ \A r \in 1..m : \E c \in 1..m : pi[c] = r
      BY <2>2 DEF Permutes
    <3>2. /\ m \in 1..m /\ m \in 0..N /\ n \in 0..(m - 1) /\ m \in Nat
          /\ \A c \in 1..n : c \in 1..m /\ c # m
          /\ \A c \in 1..m : c \in 1..N
      BY <1>1, <2>1
    <3>3. PICK k \in 1..m : pi[k] = m
      BY <3>1, <3>2
    <3> DEFINE rho == [c \in 1..n |-> IF c = k THEN pi[n + 1] ELSE pi[c]]
               h == [c \in 1..n |-> f[rho[c]]]
    <3>4. Permutes(rho, n)
      BY <2>1, <2>2, <3>3, CutPermutation
    <3>5. /\ \A c \in 1..n : c # k => rho[c] = pi[c]
          /\ k \in 1..n => rho[k] = pi[m]
      OBVIOUS
    <3>6. rho \in [1..n -> 1..n]
      BY <3>4 DEF Permutes
    <3> HIDE DEF rho, m
    <3>7. \A c \in 1..m : g[c] = f[pi[c]] /\ pi[c] \in 1..N /\ g[c] \in Int
      BY <1>1, <3>1, <3>2
    <3>8. \A c \in 1..n : h[c] = f[rho[c]] /\ h[c] \in Int
      BY <1>1, <3>2, <3>6
    <3>9. Total(h, n) = Total(f, n)
      BY <1>3, <3>4
    <3> HIDE DEF g, h
    <3>10. Summands(g, m) /\ Summands(g, n) /\ Summands(h, n) /\ Summands(f, m)
      BY <1>1, <2>1, <3>2, <3>7, <3>8 DEF Summands
    <3>11. /\ Total(g, n + 1) = Total(g, n) + g[n + 1]
           /\ Total(f, n + 1) = Total(f, n) + f[n + 1]
           /\ Total(f, n) \in Int
      <4>1. n \in 0..m
        BY <3>2
      <4> QED  BY <3>2, <3>10, <4>1, TotalSteps
    <3>12. f[n + 1] \in Int /\ g[n + 1] = f[pi[m]] /\ f[pi[m]] \in Int
      BY <1>1, <2>1, <3>2, <3>7 DEF m
    <3>13. CASE k = m
      <4>1. \A c \in 1..n : g[c] = h[c]
        BY <3>2, <3>5, <3>7, <3>8, <3>13
      <4>2. Total(g, n) = Total(h, n)
        BY <3>10, <4>1, SameTotal
      <4>3. g[n + 1] = f[n + 1]
        BY <3>3, <3>12, <3>13 DEF m
      <4> QED  BY <3>9, <3>11, <4>2, <4>3 DEF g, m
    <3>14. CASE k # m
      <4>1. k \in 1..n
        BY <2>1, <3>14 DEF m
      <4>2. \A c \in 1..n : c # k => g[c] = h[c]
        BY <3>2, <3>5, <3>7, <3>8
      <4>3. Total(g, n) = Total(h, n) + (g[k] - h[k])
        BY <3>10, <4>1, <4>2, TotalOfChanged
      <4>4. g[k] = f[n + 1] /\ h[k] = f[pi[m]]
        BY <3>3, <3>5, <3>7, <3>8, <4>1 DEF m
      <4>5. Total(g, n + 1) = Total(f, n + 1)
        BY <3>9, <3>11, <3>12, <4>3, <4>4
      <4> QED  BY <4>5 DEF g, m
    <3> QED  BY <3>13, <3>14
  <2> QED  BY <2>1, <2>2
<1> HIDE DEF T
<1>4. \A m \in 0..N : m \in T
  BY <1>1, <1>2, <1>3, InductionUpTo
<1>5. N \in T
  BY <1>1, <1>4
<1> QED  BY <1>5 DEF T

-----------------------------------------------------------------------------
(* Potentials bound every assignment from below.                             *)

Entries(M, n) == n \in Nat /\ \A r, c \in 1..n : M[r][c] \in Nat

Feasible(M, n, u, v) ==
    /\ u \in [0..n -> Int] /\ v \in [0..n -> Int]
    /\ \A r, c \in 1..n : u[r] + v[c] <= M[r][c]

Weight(M, n, pi) == Total([c \in 1..n |-> M[pi[c]][c]], n)

\* The entries an assignment takes can be added up.
LEMMA WeightSummands ==
  ASSUME NEW M, NEW n, Entries(M, n), NEW pi, Permutes(pi, n)
  PROVE  LET g == [c \in 1..n |-> M[pi[c]][c]]
         IN /\ \A c \in 1..n : g[c] = M[pi[c]][c] /\ g[c] \in Nat
            /\ Summands(g, n)
<1> DEFINE g == [c \in 1..n |-> M[pi[c]][c]]
<1>1. \A c \in 1..n : pi[c] \in 1..n
  BY DEF Permutes
<1>2. \A c \in 1..n : g[c] = M[pi[c]][c] /\ g[c] \in Nat
  BY <1>1 DEF Entries
<1> HIDE DEF g
<1>3. Summands(g, n)
  BY <1>2 DEF Summands, Entries
<1> QED  BY <1>2, <1>3 DEF g

\* The potentials of an assignment add up to the same, whichever it is.
LEMMA PotentialsOf ==
  ASSUME NEW n \in Nat, NEW u \in [0..n -> Int], NEW v \in [0..n -> Int],
         NEW pi, Permutes(pi, n)
  PROVE  LET h == [c \in 1..n |-> u[pi[c]] + v[c]]
         IN /\ \A c \in 1..n : h[c] = u[pi[c]] + v[c]
            /\ Summands(h, n)
            /\ Total(h, n) = Total(u, n) + Total(v, n)
<1> DEFINE h == [c \in 1..n |-> u[pi[c]] + v[c]]
           w == [c \in 1..n |-> u[pi[c]]]
<1>1. \A c \in 1..n : pi[c] \in 1..n /\ u[c] \in Int /\ v[c] \in Int
  BY DEF Permutes
<1>2. \A c \in 1..n : /\ h[c] = u[pi[c]] + v[c] /\ w[c] = u[pi[c]]
                      /\ h[c] \in Int /\ w[c] \in Int
  BY <1>1
<1>3. Summands(u, n) /\ Summands(v, n)
  BY <1>1 DEF Summands
<1>4. Total(w, n) = Total(u, n)
  BY <1>3, TotalPermuted
<1> HIDE DEF h, w
<1>5. Summands(h, n) /\ Summands(w, n)
  BY <1>2 DEF Summands
<1>6. \A c \in 1..n : h[c] = w[c] + v[c]
  BY <1>2
<1>7. Total(h, n) = Total(w, n) + Total(v, n)
  BY <1>3, <1>5, <1>6, TotalOfSum
<1> QED  BY <1>2, <1>4, <1>5, <1>7 DEF h

\* An assignment along tight pairs is the cheapest.
LEMMA Duality ==
  ASSUME NEW M, NEW n, Entries(M, n), NEW u, NEW v, Feasible(M, n, u, v),
         NEW a, Permutes(a, n), \A c \in 1..n : u[a[c]] + v[c] = M[a[c]][c],
         NEW pi, Permutes(pi, n)
  PROVE  Weight(M, n, a) <= Weight(M, n, pi)
<1> DEFINE g == [c \in 1..n |-> M[a[c]][c]]
           h == [c \in 1..n |-> u[a[c]] + v[c]]
           gp == [c \in 1..n |-> M[pi[c]][c]]
           hp == [c \in 1..n |-> u[pi[c]] + v[c]]
<1>1. n \in Nat /\ u \in [0..n -> Int] /\ v \in [0..n -> Int]
  BY DEF Entries, Feasible
<1>2. /\ \A c \in 1..n : g[c] = M[a[c]][c]
      /\ \A c \in 1..n : gp[c] = M[pi[c]][c]
      /\ Summands(g, n) /\ Summands(gp, n)
  BY WeightSummands
<1>3. /\ \A c \in 1..n : h[c] = u[a[c]] + v[c]
      /\ Summands(h, n) /\ Total(h, n) = Total(u, n) + Total(v, n)
  BY <1>1, PotentialsOf
<1>4. /\ \A c \in 1..n : hp[c] = u[pi[c]] + v[c]
      /\ Summands(hp, n) /\ Total(hp, n) = Total(u, n) + Total(v, n)
  BY <1>1, PotentialsOf
<1>5. \A c \in 1..n : pi[c] \in 1..n
  BY DEF Permutes
<1> HIDE DEF g, h, gp, hp
<1>6. \A c \in 1..n : g[c] = h[c]
  BY <1>2, <1>3
<1>7. \A c \in 1..n : hp[c] <= gp[c]
  BY <1>2, <1>4, <1>5 DEF Feasible
<1>8. Total(g, n) = Total(h, n)
  BY <1>2, <1>6, SameTotal
<1>9. Total(hp, n) <= Total(gp, n)
  BY <1>2, <1>4, <1>7, TotalOfLess
<1>10. Weight(M, n, a) = Total(g, n) /\ Weight(M, n, pi) = Total(gp, n)
  BY DEF Weight, g, gp
<1> QED  BY <1>3, <1>4, <1>8, <1>9, <1>10

-----------------------------------------------------------------------------
(* Matchings as assignments of the extended matrix.                          *)

Posed(p) ==
    /\ p.rows \in Nat \ {0} /\ p.cols \in Nat \ {0}
    /\ p.cost \in [1..p.rows -> [1..p.cols -> Costs]]
    /\ <<p.rows, p.cols>> \in Shapes

\* The four quarters of the extended matrix; the forbidden entry is above what
\* leaving everything out costs.
LEMMA ExtendedMatrix ==
  ASSUME NEW p, Posed(p)
  PROVE  LET M == Matrix(p)
             n == Size(p)
         IN /\ n \in Nat /\ n = p.rows + p.cols /\ n = p.cols + p.rows
            /\ Entries(M, n)
            /\ \A r \in 1..p.rows, c \in 1..p.cols :
                  /\ p.cost[r][c] \in Nat
                  /\ M[r][c] = IF p.cost[r][c] <= CostLimit THEN 2 * p.cost[r][c] ELSE Forbidden
            /\ \A r, k \in 1..p.rows :
                  M[r][p.cols + k] = IF k = r THEN CostLimit ELSE Forbidden
            /\ \A c, k \in 1..p.cols :
                  M[p.rows + k][c] = IF k = c THEN CostLimit ELSE Forbidden
            /\ \A r \in 1..p.rows, c \in 1..p.cols : M[p.rows + c][p.cols + r] = 0
            /\ CostLimit \in Nat /\ Forbidden \in Nat
            /\ CostLimit * n < Forbidden
<1> DEFINE M == Matrix(p)
           n == Size(p)
           rows == p.rows
           cols == p.cols
           L == CostLimit
<1>1. rows \in Nat \ {0} /\ cols \in Nat \ {0} /\ n = rows + cols
  BY DEF Posed, Size
<1>2. L \in Nat /\ Forbidden \in Nat /\ Costs \subseteq Nat
  BY LinearAssignmentAssumption
<1>3. \A r \in 1..rows, c \in 1..cols : p.cost[r][c] \in Nat /\ p.cost[r][c] \in Costs
  BY <1>2 DEF Posed
<1>4. ASSUME NEW r \in 1..n, NEW c \in 1..n
      PROVE  M[r][c] = IF r <= rows /\ c <= cols
                       THEN IF p.cost[r][c] <= L THEN 2 * p.cost[r][c] ELSE Forbidden
                       ELSE IF r <= rows THEN IF c - cols = r THEN L ELSE Forbidden
                       ELSE IF c <= cols THEN IF r - rows = c THEN L ELSE Forbidden
                       ELSE 0
  BY DEF Matrix
<1> HIDE DEF M, n, rows, cols, L
<1>5. \A r \in 1..rows, c \in 1..cols :
         M[r][c] = IF p.cost[r][c] <= L THEN 2 * p.cost[r][c] ELSE Forbidden
  <2>1. ASSUME NEW r \in 1..rows, NEW c \in 1..cols
        PROVE  M[r][c] = IF p.cost[r][c] <= L THEN 2 * p.cost[r][c] ELSE Forbidden
    <3>1. r \in 1..n /\ c \in 1..n /\ r <= rows /\ c <= cols
      BY <1>1
    <3> QED  BY <1>4, <3>1
  <2> QED  BY <2>1
<1>6. ASSUME NEW r \in 1..rows, NEW k \in 1..rows
      PROVE  M[r][cols + k] = IF k = r THEN L ELSE Forbidden
  <2>1. r \in 1..n /\ cols + k \in 1..n /\ r <= rows /\ ~(cols + k <= cols) /\ (cols + k) - cols = k
    BY <1>1
  <2> DEFINE c == cols + k
  <2>2. c \in 1..n /\ ~(c <= cols) /\ c - cols = k
    BY <2>1
  <2> HIDE DEF c
  <2>3. M[r][c] = IF k = r THEN L ELSE Forbidden
    BY <1>4, <2>1, <2>2
  <2> QED  BY <2>3 DEF c
<1>7. ASSUME NEW c \in 1..cols, NEW k \in 1..cols
      PROVE  M[rows + k][c] = IF k = c THEN L ELSE Forbidden
  <2> DEFINE r == rows + k
  <2>1. c \in 1..n /\ r \in 1..n /\ c <= cols /\ ~(r <= rows) /\ r - rows = k
    BY <1>1
  <2> HIDE DEF r
  <2>2. M[r][c] = IF k = c THEN L ELSE Forbidden
    BY <1>4, <2>1
  <2> QED  BY <2>2 DEF r
<1>8. ASSUME NEW k \in 1..rows, NEW j \in 1..cols PROVE M[rows + j][cols + k] = 0
  <2> DEFINE r == rows + j
             c == cols + k
  <2>1. c \in 1..n /\ r \in 1..n /\ ~(c <= cols) /\ ~(r <= rows)
    BY <1>1
  <2> HIDE DEF r, c
  <2>2. M[r][c] = 0
    BY <1>4, <2>1
  <2> QED  BY <2>2 DEF r, c
<1>9. ASSUME NEW r \in 1..n, NEW c \in 1..n PROVE M[r][c] \in Nat
  <2>1. CASE r <= rows /\ c <= cols
    <3>1. r \in 1..rows /\ c \in 1..cols
      BY <1>1, <2>1
    <3> QED  BY <1>2, <1>3, <1>5, <3>1 DEF L
  <2>2. CASE ~(r <= rows /\ c <= cols)
    BY <1>2, <1>4, <2>2 DEF L
  <2> QED  BY <2>1, <2>2
<1>10. n \in Nat /\ Entries(M, n)
  BY <1>1, <1>9 DEF Entries
<1>11. L * n < Forbidden
  <2> DEFINE x == p.cost[1][1]
             s == <<rows, cols>>
  <2>1. x \in Costs /\ x \in Nat
    BY <1>1, <1>3
  <2>2. s \in Shapes /\ s[1] = rows /\ s[2] = cols
    BY DEF Posed, rows, cols
  <2>3. Forbidden > 2 * (s[1] + s[2]) * (x + CostLimit)
    <3> HIDE DEF x, s
    <3> QED  BY <2>1, <2>2, LinearAssignmentAssumption
  <2>4. Forbidden > 2 * n * (x + L)
    BY <1>1, <2>2, <2>3 DEF L
  <2> HIDE DEF x
  <2>5. L * n <= 2 * n * (x + L)
    <3> DEFINE nx == n * x
               nL == n * L
    <3>1. 2 * n * (x + L) = 2 * nx + 2 * nL /\ L * n = nL
      BY <1>2, <1>10, <2>1
    <3>2. nx \in Nat /\ nL \in Nat
      BY <1>2, <1>10, <2>1
    <3> HIDE DEF nx, nL
    <3> QED  BY <3>1, <3>2
  <2>6. L * n \in Nat /\ 2 * n * (x + L) \in Nat
    BY <1>2, <1>10, <2>1
  <2> QED  BY <1>2, <2>4, <2>5, <2>6
<1>12. n = p.cols + p.rows
  BY <1>1 DEF rows, cols
<1> QED  BY <1>1, <1>2, <1>3, <1>5, <1>6, <1>7, <1>8, <1>10, <1>11, <1>12 DEF M, n, rows, cols, L

Gated(p) == { m \in Matchings(p.rows, p.cols) :
                \A pair \in m : p.cost[pair[1]][pair[2]] <= CostLimit }

\* An assignment of the extended matrix that stands for a matching.
Describes(p, m, pi) ==
    /\ \A pair \in m : /\ pi[pair[2]] = pair[1]
                       /\ \E c \in 1..p.cols : pi[p.cols + pair[1]] = p.rows + c
    /\ \A c \in 1..p.cols : (\A pair \in m : pair[2] # c) => pi[c] = p.rows + c
    /\ \A r \in 1..p.rows : (\A pair \in m : pair[1] # r) => pi[p.cols + r] = r

\* A matching pairs rows with columns, each at most once.
LEMMA MatchingPairs ==
  ASSUME NEW p, NEW m \in Matchings(p.rows, p.cols)
  PROVE  /\ \A pair \in m : pair[1] \in 1..p.rows /\ pair[2] \in 1..p.cols
         /\ \A x, y \in m : x[1] = y[1] \/ x[2] = y[2] => x = y
  BY DEF Matchings

\* It costs what the matching costs.
LEMMA PriceIsWeight ==
  ASSUME NEW p, Posed(p), NEW m \in Gated(p), NEW pi, Permutes(pi, Size(p)), Describes(p, m, pi)
  PROVE  Price(p, m) = Weight(Matrix(p), Size(p), pi)
<1> DEFINE M == Matrix(p)
           n == Size(p)
           rows == p.rows
           cols == p.cols
           g == [c \in 1..n |-> M[pi[c]][c]]
           C == ColumnPrices(p, m)
           R == RowPrices(p, m)
<1>1. /\ n \in Nat /\ n = cols + rows /\ Entries(M, n)
      /\ \A r \in 1..rows, c \in 1..cols :
            M[r][c] = IF p.cost[r][c] <= CostLimit THEN 2 * p.cost[r][c] ELSE Forbidden
      /\ \A r, k \in 1..rows : M[r][cols + k] = IF k = r THEN CostLimit ELSE Forbidden
      /\ \A c, k \in 1..cols : M[rows + k][c] = IF k = c THEN CostLimit ELSE Forbidden
      /\ \A r \in 1..rows, c \in 1..cols : M[rows + c][cols + r] = 0
  BY ExtendedMatrix
<1>2. rows \in Nat /\ cols \in Nat
  BY DEF Posed
<1>3. /\ m \in Matchings(rows, cols)
      /\ \A pair \in m : p.cost[pair[1]][pair[2]] <= CostLimit
  BY DEF Gated
<1>4. /\ \A pair \in m : pair[1] \in 1..rows /\ pair[2] \in 1..cols
      /\ \A x, y \in m : x[1] = y[1] \/ x[2] = y[2] => x = y
  BY <1>3, MatchingPairs
<1>5. /\ \A c \in 1..n : g[c] = M[pi[c]][c]
      /\ Summands(g, n)
  BY <1>1, WeightSummands
<1>6. /\ \A pair \in m : /\ pi[pair[2]] = pair[1]
                         /\ \E c \in 1..cols : pi[cols + pair[1]] = rows + c
      /\ \A c \in 1..cols : (\A pair \in m : pair[2] # c) => pi[c] = rows + c
      /\ \A r \in 1..rows : (\A pair \in m : pair[1] # r) => pi[cols + r] = r
  BY DEF Describes
<1> HIDE DEF M, n, g
<1>7. ASSUME NEW c \in 1..cols PROVE C[c] = g[c]
  <2>1. c \in 1..n
    BY <1>1, <1>2
  <2>2. CASE \E pair \in m : pair[2] = c
    <3> DEFINE pair == CHOOSE pair \in m : pair[2] = c
    <3>1. pair \in m /\ pair[2] = c
      BY <2>2
    <3>2. C[c] = 2 * p.cost[pair[1]][c]
      BY <2>2 DEF ColumnPrices
    <3> HIDE DEF pair
    <3>3. pi[c] = pair[1] /\ pair[1] \in 1..rows /\ p.cost[pair[1]][c] <= CostLimit
      BY <1>3, <1>4, <1>6, <3>1
    <3>4. M[pair[1]][c] = 2 * p.cost[pair[1]][c]
      BY <1>1, <3>3
    <3> QED  BY <1>5, <2>1, <3>2, <3>3, <3>4
  <2>3. CASE \A pair \in m : pair[2] # c
    <3>1. C[c] = CostLimit
      BY <2>3 DEF ColumnPrices
    <3>2. pi[c] = rows + c /\ M[rows + c][c] = CostLimit
      BY <1>1, <1>6, <2>3
    <3> QED  BY <1>5, <2>1, <3>1, <3>2
  <2> QED  BY <2>2, <2>3
<1>8. ASSUME NEW r \in 1..rows PROVE R[r] = g[cols + r]
  <2>1. cols + r \in 1..n
    BY <1>1, <1>2
  <2>2. CASE \E pair \in m : pair[1] = r
    <3>1. PICK pair \in m : pair[1] = r
      BY <2>2
    <3>2. R[r] = 0
      BY <2>2 DEF RowPrices
    <3>3. PICK c \in 1..cols : pi[cols + r] = rows + c
      BY <1>6, <3>1
    <3>4. M[rows + c][cols + r] = 0
      BY <1>1
    <3> QED  BY <1>5, <2>1, <3>2, <3>3, <3>4
  <2>3. CASE \A pair \in m : pair[1] # r
    <3>1. R[r] = CostLimit
      BY <2>3 DEF RowPrices
    <3>2. pi[cols + r] = r /\ M[r][cols + r] = CostLimit
      BY <1>1, <1>6, <2>3
    <3> QED  BY <1>5, <2>1, <3>1, <3>2
  <2> QED  BY <2>2, <2>3
<1> HIDE DEF C, R, rows, cols
<1>9. Summands(g, cols + rows) /\ Summands(C, cols)
  <2>1. Summands(g, cols + rows)
    BY <1>1, <1>5
  <2>2. \A c \in 1..cols : c \in 1..n
    BY <1>1, <1>2
  <2> QED  BY <1>2, <1>5, <1>7, <2>1, <2>2 DEF Summands
<1>10. Total(g, cols + rows) = Total(g, cols) + Total(R, rows)
  BY <1>2, <1>8, <1>9, TotalInParts
<1>11. Total(C, cols) = Total(g, cols)
  BY <1>7, <1>9, SameTotal
<1>12. Price(p, m) = Total(C, cols) + Total(R, rows)
  BY DEF Price, C, R, rows, cols
<1>13. Weight(M, n, pi) = Total(g, cols + rows)
  BY <1>1 DEF Weight, g
<1> QED  BY <1>10, <1>11, <1>12, <1>13 DEF M, n

\* An index of the extended matrix is real or a dummy.
LEMMA InHalves ==
  ASSUME NEW a \in Nat, NEW b \in Nat, NEW x \in 1..(a + b)
  PROVE  x \in 1..a \/ \E k \in 1..b : x = a + k
<1>1. CASE x <= a
  BY <1>1
<1>2. CASE ~(x <= a)
  <2>1. x - a \in 1..b /\ x = a + (x - a)
    BY <1>2
  <2> QED  BY <2>1
<1> QED  BY <1>1, <1>2

\* A map of 1..n onto itself is one to one.
LEMMA OntoIsPermutation ==
  ASSUME NEW n \in Nat, NEW pi \in [1..n -> 1..n], \A r \in 1..n : \E c \in 1..n : pi[c] = r
  PROVE  Permutes(pi, n)
<1> DEFINE S == 1..n
<1>1. IsFiniteSet(S)
  BY FS_Interval
<1>2. pi \in Surjection(S, S)
  BY DEF Surjection
<1> HIDE DEF S
<1>3. pi \in Injection(S, S)
  BY <1>1, <1>2, FS_Surjection
<1>4. \A a, b \in S : pi[a] = pi[b] => a = b
  BY <1>3 DEF Injection, IsInjective
<1> QED  BY <1>4 DEF Permutes, S

\* Every matching has one: its rows and columns that are left out take their
\* dummies, and the dummies of matched rows and columns take each other.
LEMMA MatchingDescribed ==
  ASSUME NEW p, Posed(p), NEW m \in Gated(p)
  PROVE  \E pi : Permutes(pi, Size(p)) /\ Describes(p, m, pi)
<1> DEFINE n == Size(p)
           rows == p.rows
           cols == p.cols
           AtCol(c) == CHOOSE pair \in m : pair[2] = c
           AtRow(r) == CHOOSE pair \in m : pair[1] = r
           pi == [c \in 1..n |->
                    IF c <= cols
                    THEN IF \E pair \in m : pair[2] = c THEN AtCol(c)[1] ELSE rows + c
                    ELSE IF \E pair \in m : pair[1] = c - cols THEN rows + AtRow(c - cols)[2]
                    ELSE c - cols]
<1>1. rows \in Nat /\ cols \in Nat /\ n = rows + cols /\ n \in Nat
  BY DEF Posed, Size
<1>2. /\ \A pair \in m : pair[1] \in 1..rows /\ pair[2] \in 1..cols
      /\ \A x, y \in m : x[1] = y[1] \/ x[2] = y[2] => x = y
  <2>1. m \in Matchings(rows, cols)
    BY DEF Gated
  <2> QED  BY <2>1, MatchingPairs
<1>3. ASSUME NEW pair \in m PROVE AtCol(pair[2]) = pair /\ AtRow(pair[1]) = pair
  <2>1. AtCol(pair[2]) \in m /\ AtCol(pair[2])[2] = pair[2]
    OBVIOUS
  <2>2. AtRow(pair[1]) \in m /\ AtRow(pair[1])[1] = pair[1]
    OBVIOUS
  <2> HIDE DEF AtCol, AtRow
  <2> QED  BY <1>2, <2>1, <2>2
<1> HIDE DEF AtCol, AtRow, n
<1>4. /\ \A c \in 1..cols : c \in 1..n /\ c <= cols
      /\ \A r \in 1..rows : cols + r \in 1..n /\ ~(cols + r <= cols) /\ (cols + r) - cols = r
      /\ \A r \in 1..rows : r \in 1..n
      /\ \A c \in 1..cols : rows + c \in 1..n
  BY <1>1
<1>5. ASSUME NEW pair \in m PROVE pi[pair[2]] = pair[1] /\ pi[cols + pair[1]] = rows + pair[2]
  <2>1. pair[1] \in 1..rows /\ pair[2] \in 1..cols
    BY <1>2
  <2>2. pi[pair[2]] = pair[1]
    BY <1>3, <1>4, <2>1
  <2> DEFINE c == cols + pair[1]
  <2>3. c \in 1..n /\ ~(c <= cols) /\ c - cols = pair[1]
    BY <1>4, <2>1
  <2> HIDE DEF c
  <2>4. pi[c] = rows + AtRow(pair[1])[2]
    BY <2>3
  <2> HIDE DEF pi
  <2> QED  BY <1>3, <2>2, <2>4 DEF c
<1>6. ASSUME NEW c \in 1..cols, \A pair \in m : pair[2] # c PROVE pi[c] = rows + c
  BY <1>4, <1>6
<1>7. ASSUME NEW r \in 1..rows, \A pair \in m : pair[1] # r PROVE pi[cols + r] = r
  <2> DEFINE c == cols + r
  <2>1. c \in 1..n /\ ~(c <= cols) /\ c - cols = r
    BY <1>4
  <2> HIDE DEF c
  <2>2. pi[c] = r
    BY <1>7, <2>1
  <2> HIDE DEF pi
  <2> QED  BY <2>2 DEF c
<1>8. pi = [c \in 1..n |-> pi[c]]
  OBVIOUS
<1> HIDE DEF pi
<1>9. ASSUME NEW c \in 1..n PROVE pi[c] \in 1..n
  <2>1. c \in 1..cols \/ \E r \in 1..rows : c = cols + r
    <3>1. c \in 1..(cols + rows)
      BY <1>1
    <3> QED  BY <1>1, <3>1, InHalves
  <2>2. CASE c \in 1..cols
    <3>1. CASE \E pair \in m : pair[2] = c
      BY <1>2, <1>4, <1>5, <3>1
    <3>2. CASE \A pair \in m : pair[2] # c
      BY <1>4, <1>6, <2>2, <3>2
    <3> QED  BY <3>1, <3>2
  <2>3. CASE \E r \in 1..rows : c = cols + r
    <3>1. PICK r \in 1..rows : c = cols + r
      BY <2>3
    <3>2. CASE \E pair \in m : pair[1] = r
      BY <1>2, <1>4, <1>5, <3>1, <3>2
    <3>3. CASE \A pair \in m : pair[1] # r
      BY <1>4, <1>7, <3>1, <3>3
    <3> QED  BY <3>2, <3>3
  <2> QED  BY <2>1, <2>2, <2>3
<1>10. pi \in [1..n -> 1..n]
  BY <1>8, <1>9
<1>11. ASSUME NEW x \in 1..n PROVE \E c \in 1..n : pi[c] = x
  <2>1. x \in 1..rows \/ \E c \in 1..cols : x = rows + c
    <3>1. x \in 1..(rows + cols)
      BY <1>1
    <3> QED  BY <1>1, <3>1, InHalves
  <2>2. CASE x \in 1..rows
    <3>1. CASE \E pair \in m : pair[1] = x
      <4>1. PICK pair \in m : pair[1] = x
        BY <3>1
      <4>2. pi[pair[2]] = x /\ pair[2] \in 1..n
        BY <1>2, <1>4, <1>5, <4>1
      <4> QED  BY <4>2
    <3>2. CASE \A pair \in m : pair[1] # x
      <4>1. pi[cols + x] = x /\ cols + x \in 1..n
        BY <1>4, <1>7, <2>2, <3>2
      <4> QED  BY <4>1
    <3> QED  BY <3>1, <3>2
  <2>3. CASE \E c \in 1..cols : x = rows + c
    <3>1. PICK c \in 1..cols : x = rows + c
      BY <2>3
    <3>2. CASE \E pair \in m : pair[2] = c
      <4>1. PICK pair \in m : pair[2] = c
        BY <3>2
      <4>2. pi[cols + pair[1]] = x /\ cols + pair[1] \in 1..n
        BY <1>2, <1>4, <1>5, <3>1, <4>1
      <4> QED  BY <4>2
    <3>3. CASE \A pair \in m : pair[2] # c
      <4>1. pi[c] = x /\ c \in 1..n
        BY <1>4, <1>6, <3>1, <3>3
      <4> QED  BY <4>1
    <3> QED  BY <3>2, <3>3
  <2> QED  BY <2>1, <2>2, <2>3
<1>12. Permutes(pi, n)
  BY <1>1, <1>10, <1>11, OntoIsPermutation
<1>13. Describes(p, m, pi)
  <2>1. \A pair \in m : \E c \in 1..cols : pi[cols + pair[1]] = rows + c
    BY <1>2, <1>5
  <2> QED  BY <1>5, <1>6, <1>7, <2>1 DEF Describes
<1> QED  BY <1>12, <1>13 DEF n

\* Leaving everything out costs half the limit everywhere.
LEMMA EmptyMatching ==
  ASSUME NEW p, p.rows \in Nat, p.cols \in Nat
  PROVE  {} \in Gated(p) /\ Price(p, {}) = CostLimit * Size(p)
<1> DEFINE rows == p.rows
           cols == p.cols
           C == ColumnPrices(p, {})
           R == RowPrices(p, {})
<1>1. rows \in Nat /\ cols \in Nat /\ Size(p) = rows + cols /\ CostLimit \in Nat
  BY LinearAssignmentAssumption DEF Size
<1>2. {} \in Gated(p)
  BY DEF Gated, Matchings
<1>3. (\A c \in 1..cols : C[c] = CostLimit) /\ (\A r \in 1..rows : R[r] = CostLimit)
  BY DEF ColumnPrices, RowPrices
<1> HIDE DEF C, R
<1>4. ASSUME NEW f, NEW n \in Nat, \A k \in 1..n : f[k] = CostLimit
      PROVE  Total(f, n) = CostLimit * n
  <2> DEFINE T == {m \in 0..n : Total(f, m) = CostLimit * m}
  <2>1. Summands(f, n)
    BY <1>1, <1>4 DEF Summands
  <2>2. 0 \in T
    BY <1>1, <2>1, TotalSteps
  <2>3. ASSUME NEW m \in 0..(n - 1), m \in T PROVE m + 1 \in T
    <3>1. m + 1 \in 0..n /\ m + 1 \in 1..n
      OBVIOUS
    <3>2. Total(f, m + 1) = CostLimit * m + CostLimit
      BY <1>4, <2>1, <2>3, <3>1, TotalSteps
    <3>3. CostLimit * (m + 1) = CostLimit * m + CostLimit
      BY <1>1
    <3> QED  BY <3>1, <3>2, <3>3
  <2> HIDE DEF T
  <2>4. \A m \in 0..n : m \in T
    BY <2>2, <2>3, InductionUpTo
  <2>5. n \in T
    BY <2>4
  <2> QED  BY <2>5 DEF T
<1>5. Total(C, cols) = CostLimit * cols /\ Total(R, rows) = CostLimit * rows
  BY <1>1, <1>3, <1>4
<1>6. Price(p, {}) = CostLimit * cols + CostLimit * rows
  BY <1>5 DEF Price, C, R
<1>7. CostLimit * (rows + cols) = CostLimit * cols + CostLimit * rows
  BY <1>1
<1> QED  BY <1>1, <1>2, <1>6, <1>7

\* The pairs that are read back from an assignment b.
MatchesOf(p, b) ==
    {<<b[c], c>> : c \in {c \in 1..p.cols : b[c] \in 1..p.rows /\ Matrix(p)[b[c]][c] < Forbidden}}

\* A cheapest assignment uses no forbidden entry and stands for what is read
\* back from it.
LEMMA ReadBackDescribed ==
  ASSUME NEW p, Posed(p), NEW b, Permutes(b, Size(p)),
         Weight(Matrix(p), Size(p), b) <= CostLimit * Size(p)
  PROVE  MatchesOf(p, b) \in Gated(p) /\ Describes(p, MatchesOf(p, b), b)
<1> DEFINE M == Matrix(p)
           n == Size(p)
           rows == p.rows
           cols == p.cols
           m == MatchesOf(p, b)
           g == [c \in 1..n |-> M[b[c]][c]]
<1>1. /\ n \in Nat /\ n = rows + cols /\ n = cols + rows /\ Entries(M, n)
      /\ \A r \in 1..rows, c \in 1..cols :
            M[r][c] = IF p.cost[r][c] <= CostLimit THEN 2 * p.cost[r][c] ELSE Forbidden
      /\ \A r, k \in 1..rows : M[r][cols + k] = IF k = r THEN CostLimit ELSE Forbidden
      /\ \A c, k \in 1..cols : M[rows + k][c] = IF k = c THEN CostLimit ELSE Forbidden
      /\ CostLimit \in Nat /\ Forbidden \in Nat /\ CostLimit * n < Forbidden
  BY ExtendedMatrix
<1>2. rows \in Nat /\ cols \in Nat
  BY DEF Posed
<1>3. /\ \A c \in 1..n : b[c] \in 1..n
      /\ \A x, y \in 1..n : b[x] = b[y] => x = y
      /\ \A r \in 1..n : \E c \in 1..n : b[c] = r
  BY DEF Permutes
<1>4. /\ \A c \in 1..n : g[c] = M[b[c]][c] /\ g[c] \in Nat
      /\ Summands(g, n)
  BY <1>1, WeightSummands
<1>5. Weight(M, n, b) = Total(g, n)
  BY DEF Weight
<1>6. \A pair : pair \in m <=> \E c \in 1..cols : /\ b[c] \in 1..rows /\ M[b[c]][c] < Forbidden
                                                  /\ pair = <<b[c], c>>
  BY DEF MatchesOf
<1> HIDE DEF M, n, m, g
<1>7. ASSUME NEW c \in 1..n PROVE M[b[c]][c] < Forbidden
  <2>1. g[c] <= Total(g, n)
    BY <1>1, <1>4, TotalOfNats
  <2>2. Total(g, n) \in Int /\ g[c] \in Nat /\ CostLimit * n \in Nat
    <3>1. n \in 0..n
      BY <1>1
    <3> QED  BY <1>1, <1>4, <3>1, TotalSteps
  <2>3. Total(g, n) <= CostLimit * n
    BY <1>5 DEF M, n
  <2> QED  BY <1>1, <1>4, <2>1, <2>2, <2>3
<1>8. /\ \A c \in 1..cols : c \in 1..n
      /\ \A r \in 1..rows : cols + r \in 1..n /\ r \in 1..n
      /\ \A c \in 1..cols, r \in 1..rows : c # cols + r
  BY <1>1, <1>2
<1>9. ASSUME NEW c \in 1..cols, b[c] \in 1..rows
      PROVE  /\ <<b[c], c>> \in m /\ p.cost[b[c]][c] <= CostLimit
             /\ \E k \in 1..cols : b[cols + b[c]] = rows + k
  <2>1. <<b[c], c>> \in m
    BY <1>6, <1>7, <1>8, <1>9
  <2>2. p.cost[b[c]][c] <= CostLimit
    <3>1. M[b[c]][c] < Forbidden /\ M[b[c]][c] # Forbidden
      BY <1>1, <1>7, <1>8
    <3> QED  BY <1>1, <1>9, <3>1
  <2> DEFINE r == b[c]
             x == b[cols + r]
  <2>3. r \in 1..rows /\ cols + r \in 1..n /\ x \in 1..n /\ x # r
    BY <1>3, <1>8, <1>9
  <2>4. ~(x \in 1..rows)
    <3>1. ASSUME x \in 1..rows PROVE FALSE
      <4>1. M[x][cols + r] = Forbidden
        BY <1>1, <2>3, <3>1
      <4>2. M[x][cols + r] < Forbidden
        BY <1>7, <2>3
      <4> HIDE DEF x, r
      <4> QED  BY <1>1, <4>1, <4>2
    <3> QED  BY <3>1
  <2> HIDE DEF x, r
  <2>5. \E k \in 1..cols : x = rows + k
    <3>1. x \in 1..(rows + cols)
      BY <1>1, <2>3
    <3> QED  BY <1>2, <2>4, <3>1, InHalves
  <2> QED  BY <2>1, <2>2, <2>5 DEF x, r
<1>10. ASSUME NEW c \in 1..cols, ~(b[c] \in 1..rows) PROVE b[c] = rows + c
  <2>1. c \in 1..n /\ b[c] \in 1..n
    BY <1>3, <1>8
  <2>2. PICK k \in 1..cols : b[c] = rows + k
    <3>1. b[c] \in 1..(rows + cols)
      BY <1>1, <2>1
    <3> QED  BY <1>2, <1>10, <3>1, InHalves
  <2>3. M[rows + k][c] < Forbidden
    BY <1>7, <2>1, <2>2
  <2>4. M[rows + k][c] # Forbidden
    BY <1>1, <2>3
  <2>5. k = c
    BY <1>1, <2>4
  <2> QED  BY <2>2, <2>5
<1>11. ASSUME NEW r \in 1..rows, \A pair \in m : pair[1] # r PROVE b[cols + r] = r
  <2>1. PICK c \in 1..n : b[c] = r
    BY <1>3, <1>8
  <2>2. c \notin 1..cols
    <3>1. ASSUME c \in 1..cols PROVE FALSE
      <4>1. <<b[c], c>> \in m
        BY <1>9, <2>1, <3>1
      <4> QED  BY <1>11, <2>1, <4>1
    <3> QED  BY <3>1
  <2>3. PICK k \in 1..rows : c = cols + k
    <3>1. c \in 1..(cols + rows)
      BY <1>1
    <3> QED  BY <1>2, <2>2, <3>1, InHalves
  <2>4. M[r][cols + k] < Forbidden
    BY <1>7, <2>1, <2>3
  <2>5. M[r][cols + k] # Forbidden
    BY <1>1, <2>4
  <2>6. k = r
    BY <1>1, <2>5
  <2> QED  BY <2>1, <2>3, <2>6
<1>12. \A pair \in m : /\ pair[1] \in 1..rows /\ pair[2] \in 1..cols /\ b[pair[2]] = pair[1]
                       /\ pair = <<pair[1], pair[2]>>
  BY <1>6
<1>13. m \in Gated(p)
  <2>1. m \in SUBSET ((1..rows) \X (1..cols))
    BY <1>12
  <2>2. ASSUME NEW x \in m, NEW y \in m, x # y PROVE x[1] # y[1] /\ x[2] # y[2]
    <3>1. x[2] \in 1..n /\ y[2] \in 1..n
      BY <1>8, <1>12
    <3>2. x[2] = y[2] => x[1] = y[1]
      BY <1>12
    <3>3. x[1] = y[1] => x[2] = y[2]
      BY <1>3, <1>12, <3>1
    <3>4. ~(x[1] = y[1] /\ x[2] = y[2])
      BY <1>12, <2>2
    <3> QED  BY <3>2, <3>3, <3>4
  <2>3. \A pair \in m : p.cost[pair[1]][pair[2]] <= CostLimit
    BY <1>9, <1>12
  <2> QED  BY <2>1, <2>2, <2>3 DEF Gated, Matchings
<1>14. Describes(p, m, b)
  <2>1. \A pair \in m : \E k \in 1..cols : b[cols + pair[1]] = rows + k
    BY <1>9, <1>12
  <2>2. ASSUME NEW c \in 1..cols, \A pair \in m : pair[2] # c PROVE b[c] = rows + c
    <3>1. ~(b[c] \in 1..rows)
      <4>1. ASSUME b[c] \in 1..rows PROVE FALSE
        <5>1. <<b[c], c>> \in m
          BY <1>9, <4>1
        <5> QED  BY <2>2, <5>1
      <4> QED  BY <4>1
    <3> QED  BY <1>10, <3>1
  <2> QED  BY <1>11, <1>12, <2>1, <2>2 DEF Describes
<1> QED  BY <1>13, <1>14 DEF m

\* So what is read back is optimal under the gate.
LEMMA OptimalReadBack ==
  ASSUME NEW p, Posed(p), NEW b, Permutes(b, Size(p)), NEW u, NEW v,
         Feasible(Matrix(p), Size(p), u, v),
         \A c \in 1..Size(p) : u[b[c]] + v[c] = Matrix(p)[b[c]][c]
  PROVE  /\ MatchesOf(p, b) \in Gated(p)
         /\ \A m \in Gated(p) : Price(p, MatchesOf(p, b)) <= Price(p, m)
<1> DEFINE M == Matrix(p)
           n == Size(p)
<1>1. Entries(M, n)
  BY ExtendedMatrix
<1> HIDE DEF M, n
<1>2. ASSUME NEW m \in Gated(p) PROVE Weight(M, n, b) <= Price(p, m)
  <2>1. PICK pi : Permutes(pi, n) /\ Describes(p, m, pi)
    BY MatchingDescribed DEF n
  <2>2. Price(p, m) = Weight(M, n, pi)
    BY <2>1, PriceIsWeight DEF M, n
  <2>3. Weight(M, n, b) <= Weight(M, n, pi)
    BY <1>1, <2>1, Duality DEF M, n
  <2> QED  BY <2>2, <2>3
<1>3. Weight(M, n, b) <= CostLimit * n
  <2>1. p.rows \in Nat /\ p.cols \in Nat
    BY DEF Posed
  <2>2. {} \in Gated(p) /\ Price(p, {}) = CostLimit * n
    BY <2>1, EmptyMatching DEF n
  <2> QED  BY <1>2, <2>2
<1>4. MatchesOf(p, b) \in Gated(p) /\ Describes(p, MatchesOf(p, b), b)
  BY <1>3, ReadBackDescribed DEF M, n
<1>5. Price(p, MatchesOf(p, b)) = Weight(M, n, b)
  BY <1>4, PriceIsWeight DEF M, n
<1> QED  BY <1>2, <1>4, <1>5

-----------------------------------------------------------------------------
(* The Hungarian algorithm.                                                  *)

RowFields == {"pc", "problem", "matrix", "u", "v", "assigned_row", "way", "i"}
PathFields == RowFields \cup {"j0", "used", "min_slack"}

\* Columns 1..n are assigned to the rows 1..i, each row once.
Covers(a, n, i) ==
    /\ \A c \in 1..n : a[c] <= i
    /\ \A x, y \in 1..n : a[x] = a[y] /\ a[x] # 0 => x = y
    /\ \A r \in 1..i : \E c \in 1..n : a[c] = r

TightAt(M, u, v, r, c) == u[r] + v[c] = M[r][c]

\* The potentials are feasible, whatever the loops are doing.
Solving(s) ==
    LET n == Size(s.problem)
    IN /\ Posed(s.problem) /\ s.matrix = Matrix(s.problem)
       /\ Feasible(s.matrix, n, s.u, s.v)
       /\ s.assigned_row \in [0..n -> 0..n] /\ s.way \in [0..n -> 0..n]

\* Between two rows every assigned pair is tight.
RowInv(s) ==
    LET n == Size(s.problem)
        a == s.assigned_row
    IN /\ s = [x \in RowFields |-> s[x]] /\ Solving(s)
       /\ s.i \in 0..n /\ Covers(a, n, s.i)
       /\ \A c \in 1..n : a[c] # 0 => TightAt(s.matrix, s.u, s.v, a[c], c)

\* Column j has been looked at from the used columns.
SlackKept(s, j) ==
    LET a == s.assigned_row
        Reduced(k) == s.matrix[a[k]][j] - s.u[a[k]] - s.v[j]
    IN /\ s.min_slack[j] \in Nat /\ s.way[j] \in s.used
       /\ s.min_slack[j] = Reduced(s.way[j])
       /\ \A k \in s.used : s.min_slack[j] <= Reduced(k)

\* way leads from column j to a used one, nearer to column 0, along a tight pair.
LeadsBack(s, d, j) ==
    LET k == s.way[j]
    IN k \in s.used /\ d[k] < d[j] /\ TightAt(s.matrix, s.u, s.v, s.assigned_row[k], j)

\* While row i looks for a column.
PathInv(s) ==
    LET n == Size(s.problem)
        a == s.assigned_row
    IN /\ s = [x \in PathFields |-> s[x]] /\ Solving(s)
       /\ s.i \in 1..n /\ a[0] = s.i /\ Covers(a, n, s.i - 1)
       /\ \A c \in 1..n : a[c] # 0 => TightAt(s.matrix, s.u, s.v, a[c], c)
       /\ s.used \subseteq 0..n /\ s.j0 \in (0..n) \ s.used
       /\ (s.used = {} /\ s.j0 = 0) \/ 0 \in s.used
       /\ \A k \in s.used \cup {s.j0} : a[k] # 0
       /\ s.min_slack \in [0..n -> Int]
       /\ s.used = {} => \A j \in 1..n : s.min_slack[j] = kInf
       /\ s.used # {} => \A j \in (1..n) \ s.used : SlackKept(s, j)
       /\ \E d \in [0..n -> Nat] : \A j \in (s.used \cup {s.j0}) \ {0} : LeadsBack(s, d, j)

\* While the path is flipped: with column j0 left out, the others are assigned
\* to the rows 1..i, each row once.
AugmentInv(s) ==
    LET n == Size(s.problem)
        a == s.assigned_row
    IN /\ s = [x \in PathFields |-> s[x]] /\ Solving(s)
       /\ s.i \in 1..n /\ s.j0 \in 1..n
       /\ \A c \in (0..n) \ {s.j0} : a[c] <= s.i
       /\ \A x, y \in (0..n) \ {s.j0} : a[x] = a[y] /\ a[x] # 0 => x = y
       /\ \A r \in 1..s.i : \E c \in (0..n) \ {s.j0} : a[c] = r
       /\ \A c \in (1..n) \ {s.j0} : a[c] # 0 => TightAt(s.matrix, s.u, s.v, a[c], c)
       /\ s.used \subseteq 0..n /\ \A k \in s.used : a[k] # 0
       /\ \E d \in [0..n -> Nat] :
             \A j \in (s.used \cup {s.j0}) \ {0} : d[j] <= d[s.j0] => LeadsBack(s, d, j)

SolverInv ==
    \/ la.pc = "idle"
    \/ la.pc = "row" /\ RowInv(la)
    \/ la.pc = "path" /\ PathInv(la)
    \/ la.pc = "augment" /\ AugmentInv(la)
    \/ la.pc = "done" /\ AssignmentOptimal

\* As long as a row is not assigned, a column is not.
LEMMA FreeColumn ==
  ASSUME NEW n \in Nat, NEW i \in 1..n, NEW a \in [0..n -> 0..n], Covers(a, n, i - 1)
  PROVE  \E c \in 1..n : a[c] = 0
<1> SUFFICES ASSUME \A c \in 1..n : a[c] # 0 PROVE FALSE
  OBVIOUS
<1> DEFINE S == 1..n
           T == 1..(i - 1)
           f == [c \in S |-> a[c]]
<1>1. \A c \in S : f[c] = a[c] /\ a[c] \in T
  BY DEF Covers
<1>2. f \in [S -> T] /\ \A x, y \in S : f[x] = f[y] => x = y
  BY <1>1 DEF Covers
<1>3. /\ IsFiniteSet(S) /\ Cardinality(S) = IF 1 > n THEN 0 ELSE n - 1 + 1
      /\ IsFiniteSet(T) /\ Cardinality(T) = IF 1 > i - 1 THEN 0 ELSE (i - 1) - 1 + 1
  BY FS_Interval
<1>4. Cardinality(T) < Cardinality(S)
  BY <1>3
<1> HIDE DEF S, T, f
<1>5. \E x, y \in S : x # y /\ f[x] = f[y]
  BY <1>2, <1>3, <1>4, FS_PigeonHole
<1> QED  BY <1>2, <1>5

\* One more column is used.
LEMMA ExtendKeeps ==
  ASSUME la.pc = "path", PathInv(la), ExtendPath
  PROVE  SolverInv'
<1> DEFINE p == la.problem
           n == Size(p)
           M == la.matrix
           u == la.u
           v == la.v
           a == la.assigned_row
           way == la.way
           slack == la.min_slack
           i == la.i
           j0 == la.j0
           used == la.used \cup {la.j0}
           free == (1..n) \ used
           i0 == a[j0]
           reduced == [j \in free |-> M[i0][j] - u[i0] - v[j]]
           closer == {j \in free : slack[j] = kInf \/ reduced[j] < slack[j]}
           slack2 == [j \in DOMAIN slack |-> IF j \in closer THEN reduced[j] ELSE slack[j]]
           way2 == [j \in DOMAIN way |-> IF j \in closer THEN j0 ELSE way[j]]
           delta == Min({slack2[j] : j \in free})
           j1 == Min({j \in free : slack2[j] = delta})
           u2 == [r \in DOMAIN u |-> IF \E j \in used : a[j] = r THEN u[r] + delta ELSE u[r]]
           v2 == [j \in DOMAIN v |-> IF j \in used THEN v[j] - delta ELSE v[j]]
           slack3 == [j \in DOMAIN slack2 |-> IF j \in used THEN slack2[j] ELSE slack2[j] - delta]
           pc2 == IF a[j1] = 0 THEN "augment" ELSE "path"
           Red(k, j) == M[a[k]][j] - u[a[k]] - v[j]
<1>1. la' = [[la EXCEPT !.u = u2, !.v = v2] EXCEPT
               !.way = way2, !.used = used, !.j0 = j1, !.min_slack = slack3, !.pc = pc2]
  BY DEF ExtendPath, UpdatePotentials
<1>2. la = [x \in PathFields |-> la[x]]
  BY DEF PathInv
<1>3. /\ Posed(p) /\ M = Matrix(p) /\ Feasible(M, n, u, v)
      /\ a \in [0..n -> 0..n] /\ way \in [0..n -> 0..n]
  BY DEF PathInv, Solving
<1>4. /\ i \in 1..n /\ a[0] = i /\ Covers(a, n, i - 1)
      /\ \A c \in 1..n : a[c] # 0 => TightAt(M, u, v, a[c], c)
      /\ la.used \subseteq 0..n /\ j0 \in (0..n) \ la.used
      /\ (la.used = {} /\ j0 = 0) \/ 0 \in la.used
      /\ \A k \in used : a[k] # 0
      /\ slack \in [0..n -> Int]
      /\ la.used = {} => \A j \in 1..n : slack[j] = kInf
      /\ la.used # {} => \A j \in (1..n) \ la.used : SlackKept(la, j)
  BY DEF PathInv
<1>5. PICK d \in [0..n -> Nat] : \A j \in used \ {0} : LeadsBack(la, d, j)
  BY DEF PathInv
<1>6. n \in Nat /\ Entries(M, n)
  BY <1>3, ExtendedMatrix
<1>7. /\ u \in [0..n -> Int] /\ v \in [0..n -> Int]
      /\ \A r, c \in 1..n : u[r] + v[c] <= M[r][c] /\ M[r][c] \in Nat
      /\ \A r, c \in 1..n : u[r] \in Int /\ v[c] \in Int
  <2>1. /\ u \in [0..n -> Int] /\ v \in [0..n -> Int]
        /\ \A r, c \in 1..n : u[r] + v[c] <= M[r][c] /\ M[r][c] \in Nat
    BY <1>3, <1>6 DEF Feasible, Entries
  <2>2. \A r \in 1..n : r \in 0..n
    BY <1>6
  <2> QED  BY <2>1, <2>2
<1>8. \A j \in (1..n) \ la.used : la.used # {} =>
         /\ slack[j] \in Nat /\ way[j] \in la.used /\ slack[j] = Red(way[j], j)
         /\ \A k \in la.used : slack[j] <= Red(k, j)
  BY <1>4 DEF SlackKept
<1>9. \A j \in used \ {0} : /\ way[j] \in la.used /\ d[way[j]] < d[j]
                            /\ TightAt(M, u, v, a[way[j]], j)
  BY <1>5 DEF LeadsBack
<1>10. /\ used \subseteq 0..n /\ 0 \in used /\ la.used \subseteq used /\ j0 \in used
       /\ \A k \in used : k \in 0..n /\ a[k] \in 1..n
       /\ \A k : k \in used <=> k \in la.used \/ k = j0
  <2>1. \A k : k \in used <=> k \in la.used \/ k = j0
    OBVIOUS
  <2>2. used \subseteq 0..n /\ 0 \in used /\ la.used \subseteq used /\ j0 \in used
    BY <1>4, <2>1
  <2> HIDE DEF used, n, a
  <2>3. ASSUME NEW k \in used PROVE k \in 0..n /\ a[k] \in 1..n
    <3>1. k \in 0..n /\ a[k] # 0
      BY <1>4, <2>2
    <3>2. a[k] \in 0..n
      BY <1>3, <3>1
    <3> QED  BY <1>6, <3>1, <3>2
  <2> QED  BY <2>1, <2>2, <2>3
<1>11. free \subseteq 1..n /\ \A j \in 1..n : j \in free \/ j \in used
  OBVIOUS
<1>12. \A j \in free : j \notin used /\ j \in 1..n /\ j \in 0..n /\ j \in (1..n) \ la.used
  BY <1>6
<1>13. PICK c0 \in 1..n : a[c0] = 0
  BY <1>3, <1>4, <1>6, FreeColumn
<1>14. c0 \in free
  BY <1>10, <1>13
<1>15. \A j \in free : reduced[j] = Red(j0, j) /\ reduced[j] \in Nat
  <2>1. ASSUME NEW j \in free PROVE reduced[j] = Red(j0, j) /\ reduced[j] \in Nat
    <3>1. reduced[j] = M[i0][j] - u[i0] - v[j]
      OBVIOUS
    <3>2. i0 \in 1..n /\ j \in 1..n
      BY <1>10, <1>12
    <3>3. u[i0] \in Int /\ v[j] \in Int /\ M[i0][j] \in Nat /\ u[i0] + v[j] <= M[i0][j]
      <4> HIDE DEF i0, M, u, v, n
      <4> QED  BY <1>7, <3>2
    <3> HIDE DEF reduced
    <3> QED  BY <3>1, <3>3
  <2> QED  BY <2>1
<1>16. /\ DOMAIN slack = 0..n /\ DOMAIN way = 0..n /\ DOMAIN u = 0..n /\ DOMAIN v = 0..n
  BY <1>3, <1>4, <1>7
<1>17. \A j \in 0..n : /\ j \in closer => slack2[j] = reduced[j] /\ way2[j] = j0
                       /\ j \notin closer => slack2[j] = slack[j] /\ way2[j] = way[j]
  BY <1>16
<1>18. \A j : j \in closer <=> j \in free /\ (slack[j] = kInf \/ reduced[j] < slack[j])
  OBVIOUS
<1>19. DOMAIN slack2 = 0..n /\ DOMAIN way2 = 0..n
  BY <1>16
<1> HIDE DEF reduced, closer, slack2, way2
<1>20. ASSUME NEW j \in free
       PROVE  /\ slack2[j] \in Nat /\ way2[j] \in used /\ slack2[j] = Red(way2[j], j)
              /\ \A k \in used : slack2[j] <= Red(k, j)
  <2>1. j \in 0..n /\ j \in 1..n /\ j \in (1..n) \ la.used /\ slack[j] \in Int
    BY <1>4, <1>12
  <2>2. \A k \in used : Red(k, j) \in Int
    <3>1. ASSUME NEW k \in used PROVE Red(k, j) \in Int
      <4> DEFINE r == a[k]
      <4>1. r \in 1..n
        BY <1>10
      <4> HIDE DEF r
      <4>2. u[r] \in Int /\ v[j] \in Int /\ M[r][j] \in Nat
        BY <1>7, <2>1, <4>1
      <4>3. M[r][j] - u[r] - v[j] \in Int
        BY <4>2
      <4> QED  BY <4>3 DEF r
    <3> QED  BY <3>1
  <2>3. reduced[j] = Red(j0, j) /\ reduced[j] \in Nat
    BY <1>15
  <2>4. CASE j \in closer
    <3>1. slack2[j] = Red(j0, j) /\ way2[j] = j0
      BY <1>17, <2>1, <2>3, <2>4
    <3>2. slack[j] = kInf \/ reduced[j] < slack[j]
      BY <1>18, <2>4
    <3>3. ASSUME NEW k \in la.used PROVE Red(j0, j) <= Red(k, j)
      <4>1. slack[j] \in Nat /\ slack[j] <= Red(k, j)
        BY <1>8, <2>1
      <4>2. slack[j] # kInf
        BY <4>1 DEF kInf
      <4>3. k \in used
        BY <1>10
      <4> HIDE DEF Red
      <4> QED  BY <2>2, <2>3, <3>2, <4>1, <4>2, <4>3
    <3> HIDE DEF Red
    <3> QED  BY <1>10, <2>2, <2>3, <3>1, <3>3
  <2>5. CASE j \notin closer
    <3>1. slack2[j] = slack[j] /\ way2[j] = way[j]
      BY <1>17, <2>1, <2>5
    <3>2. slack[j] # kInf /\ ~(reduced[j] < slack[j])
      BY <1>18, <2>5
    <3>3. la.used # {}
      BY <1>4, <2>1, <3>2
    <3>4. /\ slack[j] \in Nat /\ way[j] \in la.used /\ slack[j] = Red(way[j], j)
          /\ \A k \in la.used : slack[j] <= Red(k, j)
      BY <1>8, <2>1, <3>3
    <3> HIDE DEF Red
    <3>5. slack[j] <= Red(j0, j)
      BY <2>3, <3>2, <3>4
    <3> QED  BY <1>10, <3>1, <3>4, <3>5
  <2> QED  BY <2>4, <2>5
<1>21. delta \in Nat /\ \A j \in free : delta <= slack2[j]
  <2> DEFINE T == {slack2[j] : j \in free}
  <2>1. T \in SUBSET Nat /\ T # {}
    BY <1>14, <1>20
  <2> HIDE DEF T
  <2>2. \E x \in T : \A y \in T : x <= y
    BY <2>1, LeastElement
  <2>3. delta = CHOOSE x \in T : \A y \in T : x <= y
    BY DEF Min, T
  <2>4. delta \in T /\ \A y \in T : delta <= y
    BY <2>2, <2>3
  <2> HIDE DEF delta
  <2> QED  BY <2>1, <2>4 DEF T
<1>22. \E j \in free : slack2[j] = delta
  <2> DEFINE T == {slack2[j] : j \in free}
  <2>1. T \in SUBSET Nat /\ T # {}
    BY <1>14, <1>20
  <2> HIDE DEF T
  <2>2. \E x \in T : \A y \in T : x <= y
    BY <2>1, LeastElement
  <2>3. delta = CHOOSE x \in T : \A y \in T : x <= y
    BY DEF Min, T
  <2>4. delta \in T
    BY <2>2, <2>3
  <2> HIDE DEF delta
  <2> QED  BY <2>4 DEF T
<1> HIDE DEF delta
<1>23. j1 \in free /\ slack2[j1] = delta
  <2> DEFINE T == {j \in free : slack2[j] = delta}
  <2>1. T \in SUBSET Nat /\ T # {}
    BY <1>12, <1>22
  <2> HIDE DEF T
  <2>2. \E x \in T : \A y \in T : x <= y
    BY <2>1, LeastElement
  <2>3. j1 = CHOOSE x \in T : \A y \in T : x <= y
    BY DEF Min, T
  <2>4. j1 \in T
    BY <2>2, <2>3
  <2> HIDE DEF j1
  <2> QED  BY <2>4 DEF T
<1> HIDE DEF j1
<1>24. /\ \A k \in used : u2[a[k]] = u[a[k]] + delta
       /\ \A r \in 0..n : (\A k \in used : a[k] # r) => u2[r] = u[r]
       /\ \A j \in used : v2[j] = v[j] - delta
       /\ \A j \in 0..n : j \notin used => v2[j] = v[j]
       /\ u2 \in [0..n -> Int] /\ v2 \in [0..n -> Int]
  <2>1. \A r \in 0..n : u[r] \in Int /\ v[r] \in Int
    BY <1>7
  <2>2. \A k \in used : k \in 0..n /\ a[k] \in 0..n
    BY <1>6, <1>10
  <2> HIDE DEF used, u, v, a, n
  <2>3. u2 \in [0..n -> Int] /\ v2 \in [0..n -> Int]
    BY <1>16, <1>21, <2>1
  <2>4. /\ \A k \in used : u2[a[k]] = u[a[k]] + delta
        /\ \A r \in 0..n : (\A k \in used : a[k] # r) => u2[r] = u[r]
    BY <1>16, <2>2
  <2>5. /\ \A j \in used : v2[j] = v[j] - delta
        /\ \A j \in 0..n : j \notin used => v2[j] = v[j]
    BY <1>16, <2>2
  <2> QED  BY <2>3, <2>4, <2>5
<1>25. /\ \A j \in free : slack3[j] = slack2[j] - delta
       /\ slack3 \in [0..n -> Int]
  <2>1. \A j \in 0..n : slack2[j] \in Int
    <3>1. ASSUME NEW j \in 0..n PROVE slack2[j] \in Int
      <4>1. CASE j \in closer
        BY <1>15, <1>17, <1>18, <4>1
      <4>2. CASE j \notin closer
        BY <1>4, <1>17, <4>2
      <4> QED  BY <4>1, <4>2
    <3> QED  BY <3>1
  <2> HIDE DEF used, n
  <2>2. \A j \in free : j \in 0..n /\ j \notin used
    BY <1>12
  <2>3. slack3 \in [0..n -> Int]
    BY <1>19, <1>21, <2>1
  <2>4. \A j \in free : slack3[j] = slack2[j] - delta
    <3> HIDE DEF free
    <3> QED  BY <1>19, <2>2
  <2> QED  BY <2>3, <2>4
<1>26. /\ \A j \in used : way2[j] = way[j]
       /\ way2 \in [0..n -> 0..n]
  <2>1. \A j \in used : j \in 0..n /\ j \notin closer
    BY <1>10, <1>12, <1>18
  <2>2. \A j \in used : way2[j] = way[j]
    BY <1>17, <2>1
  <2>3. \A j \in 0..n : way2[j] \in 0..n
    <3>1. j0 \in 0..n /\ \A j \in 0..n : way[j] \in 0..n
      BY <1>3, <1>4
    <3> HIDE DEF n, way, j0
    <3> QED  BY <1>17, <3>1
  <2>4. way2 = [j \in 0..n |-> way2[j]]
    BY <1>16 DEF way2
  <2> QED  BY <2>2, <2>3, <2>4
<1> HIDE DEF u2, v2, slack3, pc2
<1>27. /\ la'.pc = pc2 /\ la'.problem = p /\ la'.matrix = M /\ la'.u = u2 /\ la'.v = v2
       /\ la'.assigned_row = a /\ la'.way = way2 /\ la'.i = i /\ la'.j0 = j1 /\ la'.used = used
       /\ la'.min_slack = slack3 /\ la' = [x \in PathFields |-> la'[x]]
  <2> DEFINE s == [la EXCEPT !.u = u2, !.v = v2]
  <2>1. /\ s = [x \in PathFields |-> s[x]] /\ s.problem = p /\ s.matrix = M
        /\ s.u = u2 /\ s.v = v2 /\ s.assigned_row = a /\ s.i = i
    <3> HIDE DEF used
    <3> QED  BY <1>2 DEF PathFields, RowFields
  <2> HIDE DEF s
  <2> DEFINE U == used
  <2> HIDE DEF U
  <2>2. la' = [s EXCEPT !.way = way2, !.used = U, !.j0 = j1, !.min_slack = slack3, !.pc = pc2]
    BY <1>1 DEF s, U
  <2>3. /\ la'.pc = pc2 /\ la'.problem = p /\ la'.matrix = M /\ la'.u = u2 /\ la'.v = v2
        /\ la'.assigned_row = a /\ la'.way = way2 /\ la'.i = i /\ la'.j0 = j1 /\ la'.used = U
        /\ la'.min_slack = slack3 /\ la' = [x \in PathFields |-> la'[x]]
    BY <2>1, <2>2 DEF PathFields, RowFields
  <2> QED  BY <2>3 DEF U
<1> HIDE DEF p, n, M, u, v, a, way, slack, i, j0, used, free, i0
<1>28. Feasible(M, n, u2, v2)
  <2>1. ASSUME NEW r \in 1..n, NEW c \in 1..n PROVE u2[r] + v2[c] <= M[r][c]
    <3>1. u[r] \in Int /\ v[c] \in Int /\ M[r][c] \in Nat /\ u[r] + v[c] <= M[r][c] /\ delta \in Nat
      BY <1>7, <1>21
    <3>2. r \in 0..n /\ c \in 0..n
      BY <1>6
    <3>3. CASE (\E k \in used : a[k] = r) /\ c \in used
      <4>1. u2[r] = u[r] + delta /\ v2[c] = v[c] - delta
        BY <1>24, <3>3
      <4> QED  BY <3>1, <4>1
    <3>4. CASE (\E k \in used : a[k] = r) /\ c \notin used
      <4>1. PICK k \in used : a[k] = r
        BY <3>4
      <4>2. u2[r] = u[r] + delta /\ v2[c] = v[c] /\ c \in free
        BY <1>11, <1>24, <3>2, <3>4, <4>1
      <4>3. delta <= slack2[c] /\ slack2[c] <= M[r][c] - u[r] - v[c] /\ slack2[c] \in Nat
        BY <1>20, <1>21, <4>1, <4>2
      <4> DEFINE ur == u[r]
                 vc == v[c]
                 entry == M[r][c]
                 low == slack2[c]
      <4>4. /\ ur \in Int /\ vc \in Int /\ entry \in Nat /\ low \in Nat /\ delta \in Nat
            /\ delta <= low /\ low <= entry - ur - vc /\ u2[r] = ur + delta /\ v2[c] = vc
        BY <3>1, <4>2, <4>3
      <4> HIDE DEF ur, vc, entry, low, delta
      <4>5. (ur + delta) + vc <= entry
        BY <4>4
      <4>6. u2[r] + v2[c] <= entry
        BY <4>4, <4>5
      <4> QED  BY <4>6 DEF entry
    <3>5. CASE (\A k \in used : a[k] # r) /\ c \in used
      <4>1. u2[r] = u[r] /\ v2[c] = v[c] - delta
        BY <1>24, <3>2, <3>5
      <4> QED  BY <3>1, <4>1
    <3>6. CASE (\A k \in used : a[k] # r) /\ c \notin used
      <4>1. u2[r] = u[r] /\ v2[c] = v[c]
        BY <1>24, <3>2, <3>6
      <4> QED  BY <3>1, <4>1
    <3> QED  BY <3>3, <3>4, <3>5, <3>6
  <2> QED  BY <1>24, <2>1 DEF Feasible
<1>29. Solving(la')
  BY <1>3, <1>26, <1>27, <1>28 DEF Solving, n
<1>30. ASSUME NEW k \in used, NEW j \in 1..n, j \in used, TightAt(M, u, v, a[k], j)
       PROVE  TightAt(M, u2, v2, a[k], j)
  <2>1. a[k] \in 1..n
    BY <1>10
  <2>2. u2[a[k]] = u[a[k]] + delta /\ v2[j] = v[j] - delta
    BY <1>24, <1>30
  <2>3. u[a[k]] \in Int /\ v[j] \in Int /\ delta \in Nat
    BY <1>7, <1>21, <2>1
  <2> QED  BY <1>30, <2>2, <2>3 DEF TightAt
<1>31. ASSUME NEW c \in 1..n, a[c] # 0 PROVE TightAt(M, u2, v2, a[c], c)
  <2>1. TightAt(M, u, v, a[c], c)
    BY <1>4, <1>31
  <2>2. CASE c \in used
    BY <1>30, <2>1, <2>2
  <2>3. CASE c \notin used
    <3>1. c \in 0..n /\ a[c] \in 0..n /\ a[c] <= i - 1 /\ i \in 1..n
      <4>1. c \in 0..n
        BY <1>6
      <4>2. a[c] <= i - 1 /\ i \in 1..n
        BY <1>4 DEF Covers
      <4> QED  BY <1>3, <4>1, <4>2
    <3>2. ASSUME NEW k \in used PROVE a[k] # a[c]
      <4>1. CASE k = 0
        BY <1>4, <1>6, <3>1, <4>1
      <4>2. CASE k # 0
        <5>1. k \in 1..n
          BY <1>6, <1>10, <4>2
        <5>2. k # c
          BY <2>3
        <5> QED  BY <1>4, <1>31, <5>1, <5>2 DEF Covers
      <4> QED  BY <4>1, <4>2
    <3>3. u2[a[c]] = u[a[c]] /\ v2[c] = v[c]
      BY <1>24, <2>3, <3>1, <3>2
    <3> QED  BY <2>1, <3>3 DEF TightAt
  <2> QED  BY <2>2, <2>3
<1>32. ASSUME NEW j \in free
       PROVE  /\ slack3[j] \in Nat /\ way2[j] \in used
              /\ slack3[j] = M[a[way2[j]]][j] - u2[a[way2[j]]] - v2[j]
              /\ \A k \in used : slack3[j] <= M[a[k]][j] - u2[a[k]] - v2[j]
  <2>1. /\ slack2[j] \in Nat /\ way2[j] \in used /\ slack2[j] = Red(way2[j], j)
        /\ \A k \in used : slack2[j] <= Red(k, j)
    BY <1>20
  <2>2. slack3[j] = slack2[j] - delta /\ delta \in Nat /\ delta <= slack2[j] /\ v2[j] = v[j]
    BY <1>12, <1>21, <1>24, <1>25
  <2>3. ASSUME NEW k \in used PROVE M[a[k]][j] - u2[a[k]] - v2[j] = Red(k, j) - delta
    <3>1. a[k] \in 1..n /\ j \in 1..n
      BY <1>10, <1>12
    <3>2. u[a[k]] \in Int /\ v[j] \in Int /\ M[a[k]][j] \in Nat
      BY <1>7, <3>1
    <3>3. u2[a[k]] = u[a[k]] + delta
      BY <1>24
    <3> QED  BY <2>2, <3>2, <3>3
  <2>4. \A k \in used : Red(k, j) \in Int
    <3>1. ASSUME NEW k \in used PROVE Red(k, j) \in Int
      <4>1. a[k] \in 1..n /\ j \in 1..n
        BY <1>10, <1>12
      <4>2. u[a[k]] \in Int /\ v[j] \in Int /\ M[a[k]][j] \in Nat
        BY <1>7, <4>1
      <4> QED  BY <4>2
    <3> QED  BY <3>1
  <2> HIDE DEF Red
  <2> QED  BY <2>1, <2>2, <2>3, <2>4
<1> DEFINE d2 == [d EXCEPT ![j1] = d[way2[j1]] + 1]
<1>33. j1 \in 1..n /\ j1 \in 0..n /\ j1 \notin used /\ way2[j1] \in used /\ way2[j1] \in 0..n
  BY <1>10, <1>12, <1>20, <1>23
<1>34. /\ d2 \in [0..n -> Nat] /\ d2[j1] = d[way2[j1]] + 1
       /\ \A k \in used : d2[k] = d[k] /\ d[k] \in Nat
  <2>1. \A k \in used : k \in 0..n /\ k # j1
    BY <1>10, <1>33
  <2>2. \A k \in 0..n : d[k] \in Nat
    OBVIOUS
  <2>3. d[way2[j1]] + 1 \in Nat
    BY <1>33, <2>2
  <2> QED  BY <1>33, <2>1, <2>2, <2>3
<1> HIDE DEF d2
<1>35. ASSUME NEW j \in (used \cup {j1}) \ {0} PROVE LeadsBack(la', d2, j)
  <2>1. CASE j = j1
    <3>1. d2[way2[j1]] < d2[j1]
      BY <1>33, <1>34
    <3>2. TightAt(M, u2, v2, a[way2[j1]], j1)
      <4> DEFINE r == a[way2[j1]]
      <4>1. slack3[j1] = 0 /\ slack3[j1] = M[r][j1] - u2[r] - v2[j1]
        BY <1>21, <1>23, <1>25, <1>32
      <4>2. r \in 1..n /\ r \in 0..n
        BY <1>6, <1>10, <1>33
      <4>3. u2[r] \in Int /\ v2[j1] \in Int /\ M[r][j1] \in Nat
        BY <1>7, <1>24, <1>33, <4>2
      <4> HIDE DEF r
      <4>4. u2[r] + v2[j1] = M[r][j1]
        BY <4>1, <4>3
      <4> QED  BY <4>4 DEF r, TightAt
    <3> QED  BY <1>27, <1>33, <2>1, <3>1, <3>2 DEF LeadsBack
  <2>2. CASE j # j1
    <3>1. j \in used /\ j \in used \ {0} /\ j \in 1..n
      BY <1>6, <1>10, <2>2
    <3>2. way[j] \in la.used /\ d[way[j]] < d[j] /\ TightAt(M, u, v, a[way[j]], j)
      BY <1>9, <3>1
    <3>3. way2[j] = way[j] /\ way[j] \in used
      BY <1>10, <1>26, <3>1, <3>2
    <3>4. d2[way[j]] < d2[j]
      BY <1>34, <3>1, <3>2, <3>3
    <3>5. TightAt(M, u2, v2, a[way[j]], j)
      BY <1>30, <3>1, <3>2, <3>3
    <3> QED  BY <1>27, <3>3, <3>4, <3>5 DEF LeadsBack
  <2> QED  BY <2>1, <2>2
<1>36. CASE a[j1] # 0
  <2>1. la'.pc = "path"
    BY <1>27, <1>36 DEF pc2
  <2>2. \A j \in (1..n) \ used : SlackKept(la', j)
    <3>1. \A j \in (1..n) \ used : j \in free
      BY <1>11
    <3> QED  BY <1>27, <1>32, <3>1 DEF SlackKept
  <2>3. Size(la'.problem) = n
    BY <1>27 DEF n
  <2>4. \A k \in used \cup {j1} : a[k] # 0
    BY <1>4, <1>36
  <2>5. used # {}
    BY <1>10
  <2>6. /\ i \in 1..n /\ a[0] = i /\ Covers(a, n, i - 1) /\ used \subseteq 0..n /\ 0 \in used
        /\ j1 \in (0..n) \ used
    BY <1>4, <1>10, <1>33
  <2>7. PathInv(la')
    BY <1>25, <1>27, <1>29, <1>31, <1>34, <1>35, <2>2, <2>3, <2>4, <2>5, <2>6 DEF PathInv
  <2> QED  BY <2>1, <2>7 DEF SolverInv
<1>37. CASE a[j1] = 0
  <2>1. la'.pc = "augment"
    BY <1>27, <1>37 DEF pc2
  <2>2. Size(la'.problem) = n
    BY <1>27 DEF n
  <2>3. /\ i \in 1..n /\ a[0] = i /\ j1 \in 1..n
        /\ \A c \in 1..n : a[c] <= i - 1 /\ a[c] \in 0..n
        /\ \A x, y \in 1..n : a[x] = a[y] /\ a[x] # 0 => x = y
        /\ \A r \in 1..(i - 1) : \E c \in 1..n : a[c] = r
    <3>1. \A c \in 1..n : c \in 0..n
      BY <1>6
    <3> QED  BY <1>3, <1>4, <1>33, <3>1 DEF Covers
  <2>4. \A c \in (0..n) \ {j1} : a[c] <= i
    <3>1. ASSUME NEW c \in 0..n PROVE a[c] <= i
      <4>1. c = 0 \/ c \in 1..n
        BY <1>6
      <4> QED  BY <1>6, <2>3, <4>1
    <3> QED  BY <3>1
  <2>5. ASSUME NEW x \in (0..n) \ {j1}, NEW y \in (0..n) \ {j1}, a[x] = a[y], a[x] # 0 PROVE x = y
    <3>1. (x = 0 \/ x \in 1..n) /\ (y = 0 \/ y \in 1..n)
      BY <1>6
    <3>2. CASE x = 0 /\ y \in 1..n
      BY <1>6, <2>3, <2>5, <3>2
    <3>3. CASE y = 0 /\ x \in 1..n
      BY <1>6, <2>3, <2>5, <3>3
    <3>4. CASE x \in 1..n /\ y \in 1..n
      BY <2>3, <2>5, <3>4
    <3> QED  BY <3>1, <3>2, <3>3, <3>4
  <2>6. ASSUME NEW r \in 1..i PROVE \E c \in (0..n) \ {j1} : a[c] = r
    <3>1. CASE r = i
      <4>1. 0 \in (0..n) \ {j1}
        BY <1>6, <2>3
      <4> QED  BY <2>3, <3>1, <4>1
    <3>2. CASE r # i
      <4>1. r \in 1..(i - 1)
        BY <1>6, <2>3, <3>2
      <4>2. PICK c \in 1..n : a[c] = r
        BY <2>3, <4>1
      <4>3. c \in (0..n) \ {j1}
        BY <1>6, <1>37, <4>1, <4>2
      <4> QED  BY <4>2, <4>3
    <3> QED  BY <3>1, <3>2
  <2>7. used \subseteq 0..n /\ \A k \in used : a[k] # 0
    BY <1>4, <1>10
  <2>8. \E e \in [0..n -> Nat] :
           \A j \in (used \cup {j1}) \ {0} : e[j] <= e[j1] => LeadsBack(la', e, j)
    BY <1>34, <1>35
  <2>9. \A c \in (1..n) \ {j1} : a[c] # 0 => TightAt(M, u2, v2, a[c], c)
    BY <1>31
  <2>10. AugmentInv(la')
    <3> DEFINE s == la'
    <3>1. /\ s.matrix = M /\ s.u = u2 /\ s.v = v2 /\ s.assigned_row = a /\ s.i = i /\ s.j0 = j1
          /\ s.used = used /\ s = [x \in PathFields |-> s[x]] /\ Solving(s) /\ Size(s.problem) = n
      BY <1>27, <1>29, <2>2
    <3>2. \E e \in [0..n -> Nat] :
             \A j \in (used \cup {j1}) \ {0} : e[j] <= e[j1] => LeadsBack(s, e, j)
      BY <2>8
    <3> HIDE DEF s
    <3>3. s.i \in 1..n /\ s.j0 \in 1..n /\ \A c \in (0..n) \ {s.j0} : a[c] <= s.i
      BY <2>3, <2>4, <3>1
    <3>4. \A x, y \in (0..n) \ {s.j0} : a[x] = a[y] /\ a[x] # 0 => x = y
      BY <2>5, <3>1
    <3>5. \A r \in 1..s.i : \E c \in (0..n) \ {s.j0} : a[c] = r
      BY <2>6, <3>1
    <3>6. \A c \in (1..n) \ {s.j0} : a[c] # 0 => TightAt(s.matrix, s.u, s.v, a[c], c)
      BY <2>9, <3>1
    <3>7. s.used \subseteq 0..n /\ \A k \in s.used : a[k] # 0
      BY <2>7, <3>1
    <3>8. \E e \in [0..n -> Nat] :
             \A j \in (s.used \cup {s.j0}) \ {0} : e[j] <= e[s.j0] => LeadsBack(s, e, j)
      BY <3>1, <3>2
    <3>9. AugmentInv(s)
      BY <3>1, <3>3, <3>4, <3>5, <3>6, <3>7, <3>8, Zenon DEF AugmentInv
    <3> QED  BY <3>9 DEF s
  <2> QED  BY <2>1, <2>10 DEF SolverInv
<1> QED  BY <1>36, <1>37

\* One more pair of the path is flipped.
LEMMA AugmentKeeps ==
  ASSUME la.pc = "augment", AugmentInv(la), Augment
  PROVE  SolverInv'
<1> DEFINE p == la.problem
           n == Size(p)
           M == la.matrix
           u == la.u
           v == la.v
           a == la.assigned_row
           way == la.way
           i == la.i
           j0 == la.j0
           used == la.used
           j1 == way[j0]
           a2 == [a EXCEPT ![j0] = a[j1]]
<1>1. /\ la = [x \in PathFields |-> la[x]]
      /\ Posed(p) /\ M = Matrix(p) /\ Feasible(M, n, u, v)
      /\ a \in [0..n -> 0..n] /\ way \in [0..n -> 0..n]
  BY DEF AugmentInv, Solving
<1>2. /\ i \in 1..n /\ j0 \in 1..n
      /\ \A c \in (0..n) \ {j0} : a[c] <= i
      /\ \A x, y \in (0..n) \ {j0} : a[x] = a[y] /\ a[x] # 0 => x = y
      /\ \A r \in 1..i : \E c \in (0..n) \ {j0} : a[c] = r
      /\ \A c \in (1..n) \ {j0} : a[c] # 0 => TightAt(M, u, v, a[c], c)
      /\ used \subseteq 0..n /\ \A k \in used : a[k] # 0
  BY DEF AugmentInv
<1>3. PICK d \in [0..n -> Nat] :
         \A j \in (used \cup {j0}) \ {0} : d[j] <= d[j0] => LeadsBack(la, d, j)
  BY DEF AugmentInv
<1>4. \A j \in (used \cup {j0}) \ {0} : d[j] <= d[j0] =>
         /\ way[j] \in used /\ d[way[j]] < d[j] /\ TightAt(M, u, v, a[way[j]], j)
  BY <1>3 DEF LeadsBack
<1>5. n \in Nat
  BY <1>1, ExtendedMatrix
<1> HIDE DEF n
<1>6. j0 \in 0..n /\ j0 # 0 /\ \A j \in used : j \in 0..n /\ d[j] \in Nat
  BY <1>2, <1>5
<1>7. j1 \in used /\ d[j1] < d[j0] /\ TightAt(M, u, v, a[j1], j0)
  <2>1. d[j0] \in Nat /\ d[j0] <= d[j0] /\ j0 \in (used \cup {j0}) \ {0}
    BY <1>6
  <2> QED  BY <1>4, <2>1
<1>8. j1 \in 0..n /\ j1 # j0 /\ a[j1] # 0 /\ a[j1] \in 0..n /\ a[j1] <= i /\ d[j0] \in Nat
  <2>1. j1 \in 0..n /\ d[j0] \in Nat /\ d[j1] \in Nat
    BY <1>6, <1>7
  <2>2. j1 # j0
    BY <1>7, <2>1
  <2> HIDE DEF j1
  <2> QED  BY <1>1, <1>2, <1>7, <2>1, <2>2
<1>9. /\ a2 \in [0..n -> 0..n] /\ a2[j0] = a[j1]
      /\ \A c \in 0..n : c # j0 => a2[c] = a[c]
  BY <1>1, <1>6, <1>8
<1>10. la' = IF j1 # 0
             THEN [la EXCEPT !.assigned_row[la.j0] = la.assigned_row[j1], !.j0 = j1]
             ELSE [pc |-> "row", problem |-> la.problem, matrix |-> la.matrix, u |-> la.u,
                   v |-> la.v, way |-> la.way, i |-> la.i,
                   assigned_row |-> [la.assigned_row EXCEPT ![la.j0] = la.assigned_row[0]]]
  BY DEF Augment
<1> HIDE DEF a2, j1
<1>11. \A c \in (0..n) \ {j1} : a2[c] <= i
  BY <1>2, <1>8, <1>9
<1>12. ASSUME NEW x \in (0..n) \ {j1}, NEW y \in (0..n) \ {j1}, a2[x] = a2[y], a2[x] # 0
       PROVE  x = y
  <2>1. CASE x = j0 /\ y # j0
    <3>1. a[j1] = a[y] /\ y \in (0..n) \ {j0} /\ j1 \in (0..n) \ {j0}
      BY <1>8, <1>9, <1>12, <2>1
    <3>2. y = j1
      BY <1>2, <1>8, <3>1
    <3> QED  BY <3>2
  <2>2. CASE y = j0 /\ x # j0
    <3>1. a[j1] = a[x] /\ x \in (0..n) \ {j0} /\ j1 \in (0..n) \ {j0}
      BY <1>8, <1>9, <1>12, <2>2
    <3>2. x = j1
      BY <1>2, <1>8, <3>1
    <3> QED  BY <3>2
  <2>3. CASE x # j0 /\ y # j0
    <3>1. a2[x] = a[x] /\ a2[y] = a[y] /\ x \in (0..n) \ {j0} /\ y \in (0..n) \ {j0}
      BY <1>9, <2>3
    <3>2. a[x] = a[y] /\ a[x] # 0
      BY <1>12, <3>1
    <3> QED  BY <1>2, <3>1, <3>2
  <2> QED  BY <2>1, <2>2, <2>3
<1>13. ASSUME NEW r \in 1..i PROVE \E c \in (0..n) \ {j1} : a2[c] = r
  <2>1. PICK c \in (0..n) \ {j0} : a[c] = r
    BY <1>2
  <2>2. CASE c = j1
    <3>1. j0 \in (0..n) \ {j1} /\ a2[j0] = r
      BY <1>6, <1>8, <1>9, <2>1, <2>2
    <3> QED  BY <3>1
  <2>3. CASE c # j1
    <3>1. c \in (0..n) \ {j1} /\ a2[c] = r
      BY <1>9, <2>1, <2>3
    <3> QED  BY <3>1
  <2> QED  BY <2>2, <2>3
<1>14. ASSUME NEW c \in (1..n) \ {j1}, a2[c] # 0 PROVE TightAt(M, u, v, a2[c], c)
  <2>1. c \in 0..n
    BY <1>5
  <2>2. CASE c = j0
    BY <1>7, <1>9, <2>2
  <2>3. CASE c # j0
    <3>1. a2[c] = a[c] /\ c \in (1..n) \ {j0}
      BY <1>9, <2>1, <2>3
    <3> QED  BY <1>2, <1>14, <3>1
  <2> QED  BY <2>2, <2>3
<1>15. CASE j1 # 0
  <2>1. la' = [la EXCEPT !.assigned_row = a2, !.j0 = j1]
    BY <1>1, <1>10, <1>15 DEF PathFields, RowFields, a2
  <2>2. /\ la'.pc = "augment" /\ la'.problem = p /\ la'.matrix = M /\ la'.u = u /\ la'.v = v
        /\ la'.assigned_row = a2 /\ la'.way = way /\ la'.i = i /\ la'.j0 = j1 /\ la'.used = used
        /\ la' = [x \in PathFields |-> la'[x]]
    BY <1>1, <2>1 DEF PathFields, RowFields
  <2>3. j1 \in 1..n
    BY <1>5, <1>8, <1>15
  <2>4. \A k \in used : a2[k] # 0
    BY <1>2, <1>6, <1>8, <1>9
  <2>5. ASSUME NEW j \in (used \cup {j1}) \ {0}, d[j] <= d[j1] PROVE LeadsBack(la', d, j)
    <3>1. j \in used /\ j \in (used \cup {j0}) \ {0} /\ d[j] \in Nat /\ d[j1] \in Nat
      BY <1>6, <1>7
    <3>2. d[j] <= d[j0]
      BY <1>7, <1>8, <2>5, <3>1
    <3>3. way[j] \in used /\ d[way[j]] < d[j] /\ TightAt(M, u, v, a[way[j]], j)
      BY <1>4, <3>1, <3>2
    <3>4. d[way[j]] \in Nat /\ way[j] \in 0..n
      BY <1>6, <3>3
    <3>5. way[j] # j0
      BY <1>7, <1>8, <2>5, <3>1, <3>3, <3>4
    <3>6. a2[way[j]] = a[way[j]]
      BY <1>9, <3>4, <3>5
    <3> QED  BY <2>2, <3>3, <3>6 DEF LeadsBack
  <2> DEFINE s == la'
  <2>6. /\ s.matrix = M /\ s.u = u /\ s.v = v /\ s.assigned_row = a2 /\ s.i = i /\ s.j0 = j1
        /\ s.used = used /\ s = [x \in PathFields |-> s[x]] /\ Size(s.problem) = n
    BY <2>2 DEF n
  <2>7. Solving(s)
    BY <1>1, <1>9, <2>2 DEF Solving, n
  <2>8. \E e \in [0..n -> Nat] :
           \A j \in (used \cup {j1}) \ {0} : e[j] <= e[j1] => LeadsBack(s, e, j)
    BY <2>5
  <2> HIDE DEF s, p, M, u, v, a, way, i, j0, used
  <2>9. s.i \in 1..n /\ s.j0 \in 1..n /\ \A c \in (0..n) \ {s.j0} : a2[c] <= s.i
    BY <1>2, <1>11, <2>3, <2>6
  <2>10. \A x, y \in (0..n) \ {s.j0} : a2[x] = a2[y] /\ a2[x] # 0 => x = y
    BY <1>12, <2>6
  <2>11. \A r \in 1..s.i : \E c \in (0..n) \ {s.j0} : a2[c] = r
    BY <1>13, <2>6
  <2>12. \A c \in (1..n) \ {s.j0} : a2[c] # 0 => TightAt(s.matrix, s.u, s.v, a2[c], c)
    BY <1>14, <2>6
  <2>13. s.used \subseteq 0..n /\ \A k \in s.used : a2[k] # 0
    BY <1>2, <2>4, <2>6
  <2>14. \E e \in [0..n -> Nat] :
           \A j \in (s.used \cup {s.j0}) \ {0} : e[j] <= e[s.j0] => LeadsBack(s, e, j)
    BY <2>6, <2>8
  <2>15. AugmentInv(s)
    BY <2>6, <2>7, <2>9, <2>10, <2>11, <2>12, <2>13, <2>14, Zenon DEF AugmentInv
  <2> QED  BY <2>2, <2>15 DEF SolverInv, s
<1>16. CASE j1 = 0
  <2>1. la' = [pc |-> "row", problem |-> p, matrix |-> M, u |-> u, v |-> v, way |-> way, i |-> i,
               assigned_row |-> a2]
    BY <1>10, <1>16 DEF a2
  <2>2. /\ la'.pc = "row" /\ la'.problem = p /\ la'.matrix = M /\ la'.u = u /\ la'.v = v
        /\ la'.assigned_row = a2 /\ la'.way = way /\ la'.i = i
        /\ la' = [x \in RowFields |-> la'[x]]
    BY <2>1 DEF RowFields
  <2>3. \A c : c \in 1..n <=> c \in (0..n) \ {j1}
    BY <1>5, <1>16
  <2>4. Covers(a2, n, i)
    BY <1>11, <1>12, <1>13, <2>3 DEF Covers
  <2>5. \A c \in 1..n : a2[c] # 0 => TightAt(M, u, v, a2[c], c)
    BY <1>14, <1>16
  <2>6. i \in 0..n
    BY <1>2, <1>5
  <2>7. Solving(la')
    BY <1>1, <1>9, <2>2 DEF Solving, n
  <2>8. RowInv(la')
    BY <2>2, <2>4, <2>5, <2>6, <2>7 DEF RowInv, n
  <2> QED  BY <2>2, <2>8 DEF SolverInv
<1> QED  BY <1>15, <1>16

\* Once every row is assigned, so is every column.
LEMMA AllAssigned ==
  ASSUME NEW n \in Nat, NEW a \in [0..n -> 0..n], Covers(a, n, n)
  PROVE  LET b == [c \in 1..n |-> a[c]]
         IN /\ \A c \in 1..n : b[c] = a[c] /\ a[c] \in 1..n
            /\ Permutes(b, n)
<1> DEFINE S == 1..n
           b == [c \in 1..n |-> a[c]]
           w == [r \in S |-> CHOOSE c \in S : a[c] = r]
<1>1. \A r \in S : w[r] \in S /\ a[w[r]] = r
  BY DEF Covers
<1>2. w \in [S -> S] /\ \A x, y \in S : w[x] = w[y] => x = y
  <2>1. w \in [S -> S]
    BY <1>1
  <2> HIDE DEF w, S
  <2>2. ASSUME NEW x \in S, NEW y \in S, w[x] = w[y] PROVE x = y
    BY <1>1, <2>2
  <2> QED  BY <2>1, <2>2
<1>3. IsFiniteSet(S)
  BY FS_Interval
<1>4. w \in Injection(S, S)
  BY <1>2 DEF Injection, IsInjective
<1> HIDE DEF w
<1>5. w \in Surjection(S, S)
  <2> HIDE DEF S
  <2> QED  BY <1>3, <1>4, FS_Injection
<1>6. \A c \in S : \E r \in S : w[r] = c
  BY <1>5 DEF Surjection
<1>7. \A c \in S : a[c] \in S
  BY <1>1, <1>6
<1>8. \A c \in 1..n : b[c] = a[c] /\ a[c] \in 1..n
  BY <1>7
<1>9. b \in [1..n -> 1..n]
  BY <1>8
<1>10. \A r \in 1..n : \E c \in 1..n : b[c] = r
  BY <1>8 DEF Covers
<1> HIDE DEF b
<1>11. Permutes(b, n)
  BY <1>9, <1>10, OntoIsPermutation
<1> QED  BY <1>8, <1>11 DEF b

\* The outer loop goes on with the next row, or the matches are read back.
LEMMA NextRowKeeps ==
  ASSUME la.pc = "row", RowInv(la), NextRow
  PROVE  SolverInv'
<1> DEFINE p == la.problem
           n == Size(p)
           M == la.matrix
           u == la.u
           v == la.v
           a == la.assigned_row
           way == la.way
           i == la.i
<1>1. /\ Posed(p) /\ M = Matrix(p) /\ Feasible(M, n, u, v)
      /\ a \in [0..n -> 0..n] /\ way \in [0..n -> 0..n]
      /\ i \in 0..n /\ Covers(a, n, i)
      /\ \A c \in 1..n : a[c] # 0 => TightAt(M, u, v, a[c], c)
  BY DEF RowInv, Solving
<1>2. n \in Nat
  BY <1>1, ExtendedMatrix
<1>3. CASE i = n
  <2> DEFINE b == [c \in 1..n |-> a[c]]
  <2>1. la' = [pc |-> "done", problem |-> p, matches |-> ReadBack]
    BY <1>3 DEF NextRow
  <2>2. (\A c \in 1..n : b[c] = a[c] /\ a[c] \in 1..n) /\ Permutes(b, n)
    <3> HIDE DEF n
    <3> QED  BY <1>1, <1>2, <1>3, AllAssigned
  <2> HIDE DEF b
  <2>3. \A c \in 1..n : u[b[c]] + v[c] = Matrix(p)[b[c]][c]
    BY <1>1, <2>2 DEF TightAt
  <2>4. MatchesOf(p, b) \in Gated(p) /\ \A m \in Gated(p) : Price(p, MatchesOf(p, b)) <= Price(p, m)
    BY <1>1, <2>2, <2>3, OptimalReadBack
  <2>5. \A c \in 1..p.cols : c \in 1..n
    BY <1>1, <1>2, ExtendedMatrix DEF Posed
  <2>6. ReadBack = MatchesOf(p, b)
    <3>1. \A c \in 1..p.cols : b[c] = a[c]
      BY <2>2, <2>5
    <3> QED  BY <1>1, <3>1 DEF ReadBack, MatchesOf
  <2>7. la'.pc = "done" /\ la'.problem = p /\ la'.matches = MatchesOf(p, b)
    BY <2>1, <2>6
  <2>8. AssignmentOptimal'
    BY <2>4, <2>7 DEF AssignmentOptimal, Gated
  <2> QED  BY <2>7, <2>8 DEF SolverInv
<1>4. CASE i # n
  <2> DEFINE a2 == [a EXCEPT ![0] = i + 1]
             slack == [j \in 0..n |-> kInf]
             s == la'
  <2>1. la' = [pc |-> "path", problem |-> p, matrix |-> M, u |-> u, v |-> v, way |-> way,
               i |-> i + 1, assigned_row |-> a2, j0 |-> 0, used |-> {}, min_slack |-> slack]
    BY <1>4 DEF NextRow
  <2>2. /\ s.pc = "path" /\ s.problem = p /\ s.matrix = M /\ s.u = u /\ s.v = v
        /\ s.assigned_row = a2 /\ s.way = way /\ s.i = i + 1 /\ s.j0 = 0 /\ s.used = {}
        /\ s.min_slack = slack /\ s = [x \in PathFields |-> s[x]]
    BY <2>1 DEF PathFields, RowFields
  <2>3. i + 1 \in 1..n /\ i + 1 \in 0..n /\ 0 \in 0..n /\ (i + 1) - 1 = i /\ i + 1 # 0
    <3> HIDE DEF n, i
    <3> QED  BY <1>1, <1>2, <1>4
  <2>4. /\ a2 \in [0..n -> 0..n] /\ a2[0] = i + 1
        /\ \A c \in 1..n : a2[c] = a[c]
    <3>1. \A c \in 1..n : c \in 0..n /\ c # 0
      BY <1>2
    <3> HIDE DEF n, i, a
    <3> QED  BY <1>1, <2>3, <3>1
  <2>5. Covers(a2, n, i)
    <3> HIDE DEF n, i, a, a2
    <3> QED  BY <1>1, <2>4 DEF Covers
  <2>6. \A c \in 1..n : a2[c] # 0 => TightAt(M, u, v, a2[c], c)
    BY <1>1, <2>4
  <2>7. slack \in [0..n -> Int] /\ \A j \in 1..n : slack[j] = kInf
    <3>1. \A c \in 1..n : c \in 0..n
      BY <1>2
    <3> QED  BY <3>1 DEF kInf
  <2>8. Solving(s)
    BY <1>1, <2>2, <2>4 DEF Solving
  <2>9. \E d \in [0..n -> Nat] : \A j \in (s.used \cup {s.j0}) \ {0} : LeadsBack(s, d, j)
    <3>1. [x \in 0..n |-> 0] \in [0..n -> Nat]
      OBVIOUS
    <3>2. \A j : j \notin (s.used \cup {s.j0}) \ {0}
      BY <2>2
    <3> QED  BY <3>1, <3>2
  <2>10. Size(s.problem) = n /\ Covers(a2, n, s.i - 1) /\ s.i \in 1..n /\ a2[0] = s.i
    BY <2>2, <2>3, <2>4, <2>5
  <2>11. \A c \in 1..n : a2[c] # 0 => TightAt(s.matrix, s.u, s.v, a2[c], c)
    BY <2>2, <2>6
  <2>12. /\ s.used \subseteq 0..n /\ s.j0 \in (0..n) \ s.used
         /\ (s.used = {} /\ s.j0 = 0) \/ 0 \in s.used
         /\ s.used # {} => \A j \in (1..n) \ s.used : SlackKept(s, j)
    BY <2>2, <2>3
  <2>13. \A k \in s.used \cup {s.j0} : a2[k] # 0
    BY <2>2, <2>3, <2>4
  <2>14. /\ s.min_slack \in [0..n -> Int]
         /\ s.used = {} => \A j \in 1..n : s.min_slack[j] = kInf
    BY <2>2, <2>7
  <2>15. s.assigned_row = a2 /\ s = [x \in PathFields |-> s[x]]
    BY <2>2
  <2>16. PathInv(s)
    <3> HIDE DEF s, p, n, M, u, v, a, way, i, a2, slack
    <3> QED  BY <2>8, <2>9, <2>10, <2>11, <2>12, <2>13, <2>14, <2>15, Zenon DEF PathInv
  <2> QED  BY <2>2, <2>16 DEF SolverInv, s
<1> QED  BY <1>3, <1>4

\* A new problem: the zero potentials are feasible, and nothing is assigned.
LEMMA SolveKeeps ==
  ASSUME solve
  PROVE  SolverInv'
<1>1. PICK shape \in Shapes : \E cost \in [1..shape[1] -> [1..shape[2] -> Costs]] :
          LET p == [rows |-> shape[1], cols |-> shape[2], cost |-> cost]
              zero == [j \in 0..Size(p) |-> 0]
          IN la' = IF shape[1] = 0 \/ shape[2] = 0
                   THEN [pc |-> "done", problem |-> p, matches |-> {}]
                   ELSE [pc |-> "row", problem |-> p, matrix |-> Matrix(p), u |-> zero, v |-> zero,
                         assigned_row |-> zero, way |-> zero, i |-> 0]
  BY DEF solve
<1>2. PICK cost \in [1..shape[1] -> [1..shape[2] -> Costs]] :
          LET p == [rows |-> shape[1], cols |-> shape[2], cost |-> cost]
              zero == [j \in 0..Size(p) |-> 0]
          IN la' = IF shape[1] = 0 \/ shape[2] = 0
                   THEN [pc |-> "done", problem |-> p, matches |-> {}]
                   ELSE [pc |-> "row", problem |-> p, matrix |-> Matrix(p), u |-> zero, v |-> zero,
                         assigned_row |-> zero, way |-> zero, i |-> 0]
  BY <1>1
<1> DEFINE p == [rows |-> shape[1], cols |-> shape[2], cost |-> cost]
           n == Size(p)
           zero == [j \in 0..n |-> 0]
<1>3. /\ shape[1] \in Nat /\ shape[2] \in Nat /\ <<shape[1], shape[2]>> \in Shapes
  BY LinearAssignmentAssumption
<1>4. p.rows = shape[1] /\ p.cols = shape[2] /\ p.cost = cost
  OBVIOUS
<1> HIDE DEF p
<1>5. CASE shape[1] = 0 \/ shape[2] = 0
  <2>1. la' = [pc |-> "done", problem |-> p, matches |-> {}]
    BY <1>2, <1>5 DEF p
  <2>2. la'.pc = "done" /\ la'.problem = p /\ la'.matches = {}
    BY <2>1
  <2>3. {} \in Gated(p) /\ Price(p, {}) = CostLimit * n
    BY <1>3, <1>4, EmptyMatching
  <2>4. Price(p, {}) \in Int
    BY <1>3, <1>4, <2>3, LinearAssignmentAssumption DEF Size
  <2>5. \A m \in Gated(p) : m = {}
    <3>1. (1..p.rows) \X (1..p.cols) = {}
      BY <1>3, <1>4, <1>5
    <3> QED  BY <3>1 DEF Gated, Matchings
  <2>6. ASSUME NEW m \in Gated(p) PROVE Price(p, {}) <= Price(p, m)
    <3>1. m = {}
      BY <2>5
    <3> DEFINE x == Price(p, {})
    <3>2. x \in Int /\ Price(p, m) = x
      BY <2>4, <3>1
    <3> HIDE DEF x
    <3>3. x <= Price(p, m)
      BY <3>2
    <3> QED  BY <3>3 DEF x
  <2>7. AssignmentOptimal'
    BY <2>2, <2>3, <2>6 DEF AssignmentOptimal, Gated
  <2> QED  BY <2>2, <2>7 DEF SolverInv
<1>6. CASE ~(shape[1] = 0 \/ shape[2] = 0)
  <2> DEFINE M == Matrix(p)
             s == la'
  <2>1. la' = [pc |-> "row", problem |-> p, matrix |-> M, u |-> zero, v |-> zero,
               assigned_row |-> zero, way |-> zero, i |-> 0]
    BY <1>2, <1>6 DEF p
  <2>2. /\ s.pc = "row" /\ s.problem = p /\ s.matrix = M /\ s.u = zero /\ s.v = zero
        /\ s.assigned_row = zero /\ s.way = zero /\ s.i = 0
        /\ s = [x \in RowFields |-> s[x]]
    BY <2>1 DEF RowFields
  <2>3. Posed(p)
    BY <1>3, <1>4, <1>6 DEF Posed
  <2>4. n \in Nat /\ Entries(M, n)
    BY <2>3, ExtendedMatrix
  <2> HIDE DEF n, M
  <2>5. /\ zero \in [0..n -> 0..n] /\ zero \in [0..n -> Int]
        /\ \A c \in 1..n : zero[c] = 0
        /\ 0 \in 0..n
    BY <2>4
  <2> HIDE DEF zero
  <2>6. Feasible(M, n, zero, zero)
    <3>1. ASSUME NEW r \in 1..n, NEW c \in 1..n PROVE zero[r] + zero[c] <= M[r][c]
      <4>1. zero[r] = 0 /\ zero[c] = 0 /\ M[r][c] \in Nat
        BY <2>4, <2>5 DEF Entries
      <4> QED  BY <4>1
    <3> QED  BY <2>5, <3>1 DEF Feasible
  <2>7. Covers(zero, n, 0)
    BY <2>5 DEF Covers
  <2>8. Solving(s)
    BY <2>2, <2>3, <2>5, <2>6 DEF Solving, M, n
  <2>9. \A c \in 1..n : zero[c] # 0 => TightAt(s.matrix, s.u, s.v, zero[c], c)
    BY <2>5
  <2>10. Size(s.problem) = n /\ s.assigned_row = zero /\ s = [x \in RowFields |-> s[x]]
    BY <2>2 DEF n
  <2>11. s.i \in 0..n /\ Covers(zero, n, s.i)
    BY <2>2, <2>5, <2>7
  <2>12. RowInv(s)
    <3> HIDE DEF s
    <3> QED  BY <2>8, <2>9, <2>10, <2>11, Zenon DEF RowInv
  <2> QED  BY <2>2, <2>12 DEF SolverInv
<1> QED  BY <1>5, <1>6

\* linear_assignment.hpp: "the result is optimal under the gate".  While it runs
\* the solver keeps feasible potentials and assigns along tight pairs only, so
\* the assignment it ends with is a cheapest one of the extended matrix.
THEOREM AssignmentOptimalHolds == Spec => []AssignmentOptimal
<1>1. Init => SolverInv
  <2>1. SUFFICES ASSUME la = [pc |-> "idle"] PROVE SolverInv
    BY DEF Init, Init_la
  <2>2. la.pc = "idle"
    BY <2>1
  <2> QED  BY <2>2 DEF SolverInv
<1>2. SolverInv /\ [Next]_vars => SolverInv'
  <2>1. [Next]_vars => Next_la \/ UNCHANGED la
    BY DEF Next, vars
  <2>2. ASSUME SolverInv, UNCHANGED la PROVE SolverInv'
    BY <2>2 DEF SolverInv, AssignmentOptimal
  <2>3. ASSUME Return PROVE SolverInv'
    <3>1. la'.pc = "idle"
      BY <2>3 DEF Return
    <3> QED  BY <3>1 DEF SolverInv
  <2>4. ASSUME SolverInv, NextRow PROVE SolverInv'
    <3>1. la.pc = "row" /\ RowInv(la)
      BY <2>4 DEF SolverInv, NextRow
    <3> QED  BY <2>4, <3>1, NextRowKeeps
  <2>5. ASSUME SolverInv, ExtendPath PROVE SolverInv'
    <3>1. la.pc = "path" /\ PathInv(la)
      BY <2>5 DEF SolverInv, ExtendPath
    <3> QED  BY <2>5, <3>1, ExtendKeeps
  <2>6. ASSUME SolverInv, Augment PROVE SolverInv'
    <3>1. la.pc = "augment" /\ AugmentInv(la)
      BY <2>6 DEF SolverInv, Augment
    <3> QED  BY <2>6, <3>1, AugmentKeeps
  <2> QED  BY <2>1, <2>2, <2>3, <2>4, <2>5, <2>6, SolveKeeps DEF Next_la
<1>3. SolverInv => AssignmentOptimal
  BY DEF SolverInv, AssignmentOptimal
<1> QED  BY <1>1, <1>2, <1>3, PTL DEF Spec
=============================================================================
