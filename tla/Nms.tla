-------------------------------- MODULE Nms --------------------------------
(***************************************************************************)
(* Greedy non-maximum suppression (nms.cpp): sort, cut to max_candidates,  *)
(* one pass that suppresses and compacts the vector in place, with the     *)
(* scratch vector suppressed_ kept between frames.  Boxes are integer      *)
(* rectangles, so that an IoU is an exact fraction.                        *)
(*                                                                         *)
(* Operators named after a mistake are wrong versions of the definition    *)
(* after them and not part of the specification.                           *)
(***************************************************************************)
EXTENDS Integers, Sequences, FiniteSets, SequencesExt, FiniteSetsExt

CONSTANTS Boxes,            \* rectangles that detections have
          NmsScores, Classes,
          MaxIn,            \* bound: detections of a frame
          NmsOptions        \* option records that are tried

ASSUME NmsAssumption ==
    /\ Boxes \subseteq [x1 : Int, y1 : Int, x2 : Int, y2 : Int]
    /\ NmsScores \subseteq Nat /\ Classes \subseteq Nat /\ MaxIn \in Nat
    /\ NmsOptions \subseteq [iou_num : Nat, iou_den : Nat \ {0}, max_detections : Nat,
                             max_candidates : Nat, class_agnostic : BOOLEAN]

VARIABLE nm  \* an Nms, and the detections of the frame in its hands

Positive(x) == IF x > 0 THEN x ELSE 0

area(b) == Positive(b.x2 - b.x1) * Positive(b.y2 - b.y1)

\* iou(a, b) > num / den; two empty boxes have IoU 0.
IouAbove(a, b, num, den) ==
    LET iw == Positive(Min({a.x2, b.x2}) - Max({a.x1, b.x1}))
        ih == Positive(Min({a.y2, b.y2}) - Max({a.y1, b.y1}))
        union == area(a) + area(b) - iw * ih
    IN union > 0 /\ iw * ih * den > num * union

NmsDetection == [box : Boxes, score : NmsScores, class_id : Classes]

\* std::sort by score: every order of equal scores is possible.
Sorted(s) == \A i \in 1..(Len(s) - 1) : s[i].score >= s[i + 1].score

\* The inner loop: what the kept detection at index i suppresses after it.
SuppressOverAll(o, dets, suppressed, i) ==
    [j \in DOMAIN suppressed |->
       \/ suppressed[j]
       \/ j > i /\ IouAbove(dets[i].box, dets[j].box, o.iou_num, o.iou_den)]

Suppress(o, dets, suppressed, i) ==
    [j \in DOMAIN suppressed |->
       \/ suppressed[j]
       \/ /\ j > i
          /\ o.class_agnostic \/ dets[j].class_id = dets[i].class_id
          /\ IouAbove(dets[i].box, dets[j].box, o.iou_num, o.iou_den)]

Candidates(o, sorted) == Min({Len(sorted), o.max_candidates})

\* One iteration of the loop of apply(): detection i is kept, moved to the front
\* and suppresses others, unless enough are kept or it is itself suppressed.
Iterate(o, s, i) ==
    IF s.kept >= o.max_detections \/ s.suppressed[i] THEN s
    ELSE [dets |-> [s.dets EXCEPT ![s.kept + 1] = s.dets[i]], kept |-> s.kept + 1,
          suppressed |-> Suppress(o, s.dets, s.suppressed, i)]

\* apply() on a sorted vector, after each iteration.
Pass(o, sorted) ==
    LET n == Candidates(o, sorted)
        S[i \in 0..n] ==
            IF i = 0 THEN [dets |-> SubSeq(sorted, 1, n), kept |-> 0,
                           suppressed |-> [j \in 1..n |-> FALSE]]
            ELSE Iterate(o, S[i - 1], i)
    IN S

Init_nm ==
    \E o \in NmsOptions :
       nm = [options |-> o, suppressed |-> <<>>, sorted |-> <<>>, out |-> <<>>, busy |-> FALSE]

apply ==
    /\ ~nm.busy
    /\ \E sorted \in BoundedSeq(NmsDetection, MaxIn) :
          /\ Sorted(sorted)
          /\ LET p == Pass(nm.options, sorted)[Candidates(nm.options, sorted)]
             IN nm' = [nm EXCEPT !.suppressed = p.suppressed, !.sorted = sorted,
                                 !.out = SubSeq(p.dets, 1, p.kept), !.busy = TRUE]

\* The frame moves on with its detections; the scratch vector stays.
FrameLeaves ==
    /\ nm.busy
    /\ nm' = [nm EXCEPT !.sorted = <<>>, !.out = <<>>, !.busy = FALSE]

Next_nm == apply \/ FrameLeaves

-----------------------------------------------------------------------------
\* Detection i of the sorted vector would suppress detection j.
Overlaps(o, sorted, i, j) ==
    /\ o.class_agnostic \/ sorted[i].class_id = sorted[j].class_id
    /\ IouAbove(sorted[i].box, sorted[j].box, o.iou_num, o.iou_den)

\* order lists the greedy choice among the candidates up to n.
GreedyChoice(o, sorted, order, n) ==
    LET chosen == DOMAIN order
    IN /\ \A k, l \in chosen : k < l => /\ order[k] < order[l]
                                        /\ ~Overlaps(o, sorted, order[k], order[l])
       /\ Len(order) <= o.max_detections
       /\ \A j \in 1..n :
             \/ \E k \in chosen : order[k] = j
             \/ \E k \in chosen : order[k] < j /\ Overlaps(o, sorted, order[k], j)
             \/ Len(order) = o.max_detections /\ \A k \in chosen : order[k] < j

\* nms.hpp: "a box is suppressed when its IoU with a higher-scoring kept box of
\* the same class is strictly greater than the threshold".  Although the vector
\* is compacted while it is read, there is an increasing choice of candidates
\* that is the result, none of them overlaps an earlier one, and every other
\* candidate overlaps one chosen before it or comes after max_detections were
\* chosen.
NmsGreedy ==
    LET n == Candidates(nm.options, nm.sorted)
    IN \E order \in [1..Len(nm.out) -> 1..n] :
          /\ nm.out = [k \in 1..Len(nm.out) |-> nm.sorted[order[k]]]
          /\ GreedyChoice(nm.options, nm.sorted, order, n)
=============================================================================
