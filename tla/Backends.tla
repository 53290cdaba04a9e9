------------------------------ MODULE Backends ------------------------------
(***************************************************************************)
(* From a model to its detections, in sizes and layouts: the two backends  *)
(* (fake_backend.cpp, onnx_backend.cpp with make_backend of                *)
(* app_support.cpp), the Pipeline constructor that accepts or rejects the  *)
(* tensors a backend declares, the buffers of a frame, and the size checks *)
(* that preprocess, infer and postprocess make on every frame.  What an    *)
(* ONNX file contains and what ONNX Runtime computes is external; the fake *)
(* head is modelled value by value.                                        *)
(*                                                                         *)
(* Operators named after a mistake are wrong versions of the definition    *)
(* after them and not part of the specification.                           *)
(***************************************************************************)
EXTENDS YoloDecoder, FiniteSets

CONSTANTS FakeInputs, FakeClasses,  \* --fake-input and fake_classes
          HeadAnchors, HeadClasses, \* dimensions of the heads that are exported
          InputSide                 \* default_input_size, and the static sides

ASSUME BackendsAssumption ==
    /\ FakeInputs \subseteq Nat /\ FakeClasses \subseteq Nat
    /\ HeadAnchors \subseteq Nat \ {0} /\ HeadClasses \subseteq Nat \ {0}
    /\ InputSide \in Nat \ {0}

VARIABLE md  \* one model on its way through backend, pipeline and frames

Dynamic == -1
num_objects == 3  \* FakeBackendOptions, not changed by make_backend

Product(shape) ==
    LET P[i \in 0..Len(shape)] == IF i = 0 THEN 1 ELSE shape[i] * P[i - 1]
    IN P[Len(shape)]

has_dynamic_dim(shape) == \E i \in DOMAIN shape : shape[i] <= 0

\* TensorSpec::element_count; it throws on a dynamic dimension.
element_count(shape) == IF has_dynamic_dim(shape) THEN -1 ELSE Product(shape)

-----------------------------------------------------------------------------
\* What a model's output means: per anchor 4 box values and a score per class
\* ("raw", in either orientation), or the n x 6 rows of an export that has
\* its own NMS ("end_to_end").
Heads ==
    [kind : {"raw"}, num_anchors : HeadAnchors, num_classes : HeadClasses,
     channels_first : BOOLEAN]
    \cup [kind : {"end_to_end"}, num_anchors : HeadAnchors, num_classes : {2},
          channels_first : {FALSE}]

\* The shapes an exporter may give that output, batch axes included.
OutputShapes(head) ==
    LET attributes == 4 + head.num_classes
        rows == IF head.channels_first THEN attributes ELSE head.num_anchors
        columns == IF head.channels_first THEN head.num_anchors ELSE attributes
    IN {<<rows, columns>>, <<1, rows, columns>>, <<1, 1, rows, columns>>,
        <<2, rows, columns>>}

InputShapes ==
    {<<b, c, h, w>> : b \in {Dynamic, 1, 2}, c \in {Dynamic, 1, 3},
                      h \in {Dynamic, 1}, w \in {Dynamic, InputSide}}
    \cup {<<3, InputSide, InputSide>>}

\* The input shape with batch, channels and sides filled in.
Resolved(shape) ==
    [i \in 1..4 |-> IF shape[i] > 0 THEN shape[i] ELSE <<1, 3, InputSide, InputSide>>[i]]

Init_md == md = [phase |-> "start"]

Backend(head, input, output, fake) ==
    [phase |-> "backend", head |-> head, input |-> input, output |-> output, fake |-> fake]

\* After a rejection another model may be tried.
\* make_backend, kind fake: one anchor per cell at strides 8, 16 and 32; the
\* FakeBackend constructor checks its options.
make_fake ==
    /\ md.phase \in {"start", "rejected"}
    /\ \E s \in FakeInputs, classes \in FakeClasses :
          LET anchors == (s \div 8) * (s \div 8) + (s \div 16) * (s \div 16)
                         + (s \div 32) * (s \div 32)
              head == [kind |-> "raw", num_anchors |-> anchors, num_classes |-> classes,
                       channels_first |-> TRUE]
          IN md' = IF s <= 0 \/ classes <= 0 \/ anchors <= 0 \/ num_objects > anchors
                   THEN [phase |-> "rejected"]
                   ELSE Backend(head, <<1, 3, s, s>>, <<1, 4 + classes, anchors>>, TRUE)

\* OnnxBackend: a model with one four-axis input; a dynamic output shape is
\* found out with a dry run, which may also fail, as may loading the file.
make_onnx ==
    /\ md.phase \in {"start", "rejected"}
    /\ \E head \in Heads, declared \in InputShapes :
       \E output \in OutputShapes(head) :
          md' = IF Len(declared) # 4 THEN [phase |-> "rejected"]
                ELSE Backend(head, Resolved(declared), output, FALSE)

make_backend_throws ==
    /\ md.phase \in {"start", "rejected"}
    /\ md' = [phase |-> "rejected"]

-----------------------------------------------------------------------------
InputAxisUnchecked(shape, axis) == IF Len(shape) # 4 THEN 0 ELSE shape[axis + 1]

\* input_dimension: 0 where it throws.
input_dimension(shape, axis) ==
    IF Len(shape) # 4 THEN 0
    ELSE IF shape[2] # 3 \/ shape[axis + 1] <= 0 THEN 0
    ELSE shape[axis + 1]

\* The Pipeline constructor.  A frame's buffers get the element counts that
\* the backend declares (buffer_sizes).
new_pipeline ==
    /\ md.phase = "backend"
    /\ \E queue_capacities \in {0, 1} :
          LET width == input_dimension(md.input, 3)
              height == input_dimension(md.input, 2)
              layout == yolo_layout_from_shape(md.output)
          IN md' = IF width = 0 \/ height = 0 \/ layout = Throws \/ queue_capacities = 0
                   THEN [phase |-> "rejected"]
                   ELSE [phase |-> "preprocess", head |-> md.head, fake |-> md.fake,
                         input |-> md.input, output |-> md.output,
                         width |-> width, height |-> height, dec |-> NewDecoder(layout),
                         frame_input |-> element_count(md.input),
                         frame_output |-> element_count(md.output), raw |-> <<>>]

\* Letterboxer::run wants room for three planes.
preprocess_md ==
    /\ md.phase = "preprocess"
    /\ md' = [md EXCEPT !.phase =
                IF md.frame_input < 3 * md.width * md.height THEN "failed" ELSE "infer"]

\* The head FakeBackend::infer writes: object k on an anchor of its own, its
\* box in the first four rows and 0.9 in the row of its class, zero elsewhere.
FakeHead(classes, anchors) ==
    LET AnchorOf(k) == k * (anchors \div num_objects)
        Values == UNION { {<<i * anchors + AnchorOf(k), 10 * (k + 1) + i>> : i \in 0..3}
                          \cup {<<(4 + (k % classes)) * anchors + AnchorOf(k), 9>>} :
                          k \in 0..(num_objects - 1) }
    IN [j \in 0..((4 + classes) * anchors - 1) |->
          IF \E v \in Values : v[1] = j THEN (CHOOSE v \in Values : v[1] = j)[2] ELSE 0]

\* Backend::infer checks the frame's two tensors.
infer_md ==
    /\ md.phase = "infer"
    /\ md' = IF \/ md.frame_input < element_count(md.input)
                \/ md.frame_output < element_count(md.output)
             THEN [md EXCEPT !.phase = "failed"]
             ELSE [md EXCEPT !.phase = "postprocess",
                             !.raw = IF md.fake
                                      THEN FakeHead(md.head.num_classes, md.head.num_anchors)
                                      ELSE @]

\* decode() checks the output tensor; 9 stands for 0.9, 2 for the threshold.
postprocess_md ==
    /\ md.phase = "postprocess"
    /\ md' = IF md.frame_output < HeadSize(md.dec.layout)
             THEN [md EXCEPT !.phase = "failed"]
             ELSE [md EXCEPT !.phase = "preprocess",
                             !.dec = IF md.fake THEN decode(@, md.raw, 2) ELSE @]

Next_md ==
    \/ make_fake \/ make_onnx \/ make_backend_throws \/ new_pipeline
    \/ preprocess_md \/ infer_md \/ postprocess_md

-----------------------------------------------------------------------------
Accepted == md.phase \in {"preprocess", "infer", "postprocess"}

\* A model that the constructors accept never fails a size check on a frame:
\* what the backend declares, what the letterboxer writes, what the frame
\* holds and what the decoder reads agree.  And if a raw head has more anchors
\* than attributes, which yolo_layout_from_shape presumes, the decoder reads it
\* in its true orientation, so that the fake model's objects come out as its
\* three boxes with their classes.
AcceptedModelFits ==
    /\ md.phase # "failed"
    /\ Accepted /\ md.head.num_anchors > 4 + md.head.num_classes =>
          /\ md.dec.layout.num_anchors = md.head.num_anchors
          /\ md.dec.layout.num_classes = md.head.num_classes
          /\ md.dec.layout.channels_first = md.head.channels_first
          /\ md.dec.out # <<>> =>
                { <<d.box, d.class_id>> : d \in {md.dec.out[i] : i \in 1..Len(md.dec.out)} } =
                { <<from_center(10 * k, 10 * k + 1, 10 * k + 2, 10 * k + 3),
                    (k - 1) % md.head.num_classes>> : k \in 1..num_objects }

\* Claim of yolo_decoder.hpp on yolo_layout_from_shape: it "throws for anything
\* that is not a raw (pre-NMS) YOLO head, e.g. end-to-end exports whose output
\* is already [1, 300, 6]".
OnlyRawHeads == Accepted => md.head.kind = "raw"
=============================================================================
