---------------------------- MODULE YoloDecoder ----------------------------
(***************************************************************************)
(* The head of an anchor-free YOLO model (yolo_decoder.cpp): the layout    *)
(* inferred from the output shape, and decode(), with the two scratch      *)
(* vectors best_score_ and best_class_ that survive from frame to frame.   *)
(* Tensors are functions on 0..size-1 as in the code; scores are small     *)
(* naturals, box values are told apart by their place in the tensor.  NaN  *)
(* is left out.                                                            *)
(*                                                                         *)
(* Operators named after a mistake are wrong versions of the definition    *)
(* after them and not part of the specification.                           *)
(***************************************************************************)
EXTENDS Integers, Sequences

CONSTANTS Layouts,  \* layouts that are decoded: [anchors, classes, channels_first]
          Scores    \* class scores, and the thresholds they are compared with

ASSUME YoloDecoderAssumption ==
    /\ Layouts \subseteq [num_anchors : Nat \ {0}, num_classes : Nat \ {0},
                          channels_first : BOOLEAN]
    /\ Scores \subseteq Nat

VARIABLE yd  \* a YoloDecoder, the last tensor it was given and what it made of it

\* What stands for an exception out of a function with a result.
Throws == [throws |-> TRUE]

\* The shape without its leading ones, as long as it has more than two axes.
WithoutBatch(shape) ==
    LET ones == { k \in 0..Len(shape) :
                    /\ Len(shape) - k >= 2 \/ k = 0
                    /\ \A i \in 1..k : shape[i] = 1 }
        k == CHOOSE k \in ones : \A j \in ones : j <= k
    IN SubSeq(shape, k + 1, Len(shape))

yolo_layout_from_shape(full_shape) ==
    LET shape == WithoutBatch(full_shape)
        first == shape[1] < shape[2]
        attributes == IF first THEN shape[1] ELSE shape[2]
        anchors == IF first THEN shape[2] ELSE shape[1]
    IN IF Len(shape) # 2 THEN Throws
       ELSE IF shape[1] <= 0 \/ shape[2] <= 0 \/ attributes < 5 THEN Throws
       ELSE [num_anchors |-> anchors, num_classes |-> attributes - 4,
             channels_first |-> first]

HeadSize(layout) == layout.num_anchors * (4 + layout.num_classes)

\* Box::from_center, in half pixels.
from_center(cx, cy, w, h) ==
    [x1 |-> 2 * cx - w, y1 |-> 2 * cy - h, x2 |-> 2 * cx + w, y2 |-> 2 * cy + h]

-----------------------------------------------------------------------------
\* Channels first, class-major scan: the best score and class of each anchor
\* after the rows of classes 0..c.  Row 0 overwrites the scratch of the frame
\* before.
ScanKeepsClass(dec, raw) ==
    LET n == dec.layout.num_anchors
        Best[c \in 0..(dec.layout.num_classes - 1)] ==
            [a \in 0..(n - 1) |->
               IF c = 0 THEN [score |-> raw[4 * n + a], class |-> dec.best[a].class]
               ELSE IF raw[(4 + c) * n + a] > Best[c - 1][a].score
               THEN [score |-> raw[(4 + c) * n + a], class |-> c]
               ELSE Best[c - 1][a]]
    IN Best[dec.layout.num_classes - 1]

ScanClasses(dec, raw) ==
    LET n == dec.layout.num_anchors
        Best[c \in 0..(dec.layout.num_classes - 1)] ==
            [a \in 0..(n - 1) |->
               IF c = 0 THEN [score |-> raw[4 * n + a], class |-> 0]
               ELSE IF raw[(4 + c) * n + a] > Best[c - 1][a].score
               THEN [score |-> raw[(4 + c) * n + a], class |-> c]
               ELSE Best[c - 1][a]]
    IN Best[dec.layout.num_classes - 1]

\* Anchors first: std::max_element, the first of the largest.
MaxElement(row, lo, hi) ==
    CHOOSE i \in lo..hi :
        /\ \A j \in lo..hi : row[j] <= row[i]
        /\ \A j \in lo..(i - 1) : row[j] < row[i]

\* What either loop over the anchors makes of anchor a: from the scratch vectors,
\* or from the anchor's own row.
AnchorFromScan(layout, raw, scan, a) ==
    LET n == layout.num_anchors
    IN [box |-> from_center(raw[a], raw[n + a], raw[2 * n + a], raw[3 * n + a]),
        score |-> scan[a].score, class_id |-> scan[a].class]

AnchorFromRow(layout, raw, a) ==
    LET stride == 4 + layout.num_classes
        row == [i \in 0..(stride - 1) |-> raw[a * stride + i]]
        best == MaxElement(row, 4, stride - 1)
    IN [box |-> from_center(row[0], row[1], row[2], row[3]),
        score |-> row[best], class_id |-> best - 4]

\* The anchors whose score exceeds the threshold, pushed back one by one.
PushConfident(anchors, score_threshold) ==
    LET Out[i \in 0..Len(anchors)] ==
            IF i = 0 THEN <<>>
            ELSE IF anchors[i].score > score_threshold THEN Append(Out[i - 1], anchors[i])
            ELSE Out[i - 1]
    IN Out[Len(anchors)]

\* decode(): the decoder afterwards, with its result in out.
decode(dec, raw, score_threshold) ==
    LET scan == ScanClasses(dec, raw)
        Anchor(a) == IF dec.layout.channels_first
                     THEN AnchorFromScan(dec.layout, raw, scan, a)
                     ELSE AnchorFromRow(dec.layout, raw, a)
    IN [dec EXCEPT !.best = IF dec.layout.channels_first THEN scan ELSE @,
                   !.out = PushConfident([i \in 1..dec.layout.num_anchors |-> Anchor(i - 1)],
                                         score_threshold)]

\* The constructor: scratch of num_anchors zeros.
NewDecoder(layout) ==
    [layout |-> layout,
     best |-> [a \in 0..(layout.num_anchors - 1) |-> [score |-> 0, class |-> 0]],
     out |-> <<>>]

\* Where attribute k of anchor a is in the tensor.
Place(layout, k, a) ==
    IF layout.channels_first THEN k * layout.num_anchors + a
                             ELSE a * (4 + layout.num_classes) + k

\* A head with these class scores; each box value is its own place plus one.
YoloHead(layout, scores) ==
    [i \in 0..(HeadSize(layout) - 1) |->
       IF \E a \in 0..(layout.num_anchors - 1), c \in 0..(layout.num_classes - 1) :
             i = Place(layout, 4 + c, a)
       THEN scores[CHOOSE p \in DOMAIN scores : i = Place(layout, 4 + p[2], p[1])]
       ELSE i + 1]

Init_yd ==
    \E layout \in Layouts :
       yd = [dec |-> NewDecoder(layout), scores |-> <<>>, threshold |-> 0]

\* decode() of one more frame's head.  A tensor smaller than the head makes it
\* throw before it touches anything; Backends.tla has the sizes.
decode_yd ==
    LET layout == yd.dec.layout
        places == (0..(layout.num_anchors - 1)) \X (0..(layout.num_classes - 1))
    IN \E scores \in [places -> Scores], threshold \in Scores :
          yd' = [dec |-> decode(yd.dec, YoloHead(layout, scores), threshold),
                 scores |-> scores, threshold |-> threshold]

-----------------------------------------------------------------------------
\* out has exactly the anchors whose best score exceeds the threshold, in order,
\* each with its own box values, its largest score and the first class with it.
DetectionsOf(layout, scores, threshold, out) ==
    LET anchors == 0..(layout.num_anchors - 1)
        classes == 0..(layout.num_classes - 1)
        BestOf(a) == CHOOSE c \in classes :
                        /\ \A d \in classes : scores[<<a, d>>] <= scores[<<a, c>>]
                        /\ \A d \in classes : scores[<<a, d>>] = scores[<<a, c>>] => c <= d
        Value(k, a) == Place(layout, k, a) + 1
        Expected(a) == [box |-> from_center(Value(0, a), Value(1, a), Value(2, a), Value(3, a)),
                        score |-> scores[<<a, BestOf(a)>>], class_id |-> BestOf(a)]
    IN \E order \in [1..Len(out) -> anchors] :
          /\ \A k, l \in 1..Len(out) : k < l => order[k] < order[l]
          /\ \A a \in anchors : Expected(a).score > threshold
                                 <=> \E k \in 1..Len(out) : order[k] = a
          /\ \A k \in 1..Len(out) : out[k] = Expected(order[k])

\* yolo_decoder.hpp: decode "replaces out with every anchor whose best class
\* score exceeds score_threshold", for either layout and whatever the frames
\* before it left in the scratch vectors.
DecodeExact ==
    yd.scores # <<>> => DetectionsOf(yd.dec.layout, yd.scores, yd.threshold, yd.dec.out)
=============================================================================
