--------------------------- MODULE StageObjects ---------------------------
(***************************************************************************)
(* The objects that the threads of a pipeline drive and that outlive its   *)
(* frames: the source of capture, the letterboxer of preprocess, the       *)
(* model's backend with its decoder, the NMS, the assignment solver, the   *)
(* tracker, the overlay of the sink and the latency histograms.  None      *)
(* reads another's state, so a behaviour follows one of them: subject says *)
(* which.                                                                  *)
(***************************************************************************)
EXTENDS Letterboxer, Backends, Nms, LinearAssignment, ByteTracker,
        LatencyHistogram, FrameSources, OverlaySink

VARIABLE subject

\* Values of the constants for the runs.
SmallLayouts ==
    { [num_anchors |-> s[1], num_classes |-> s[2], channels_first |-> b] :
      s \in {<<2, 2>>, <<1, 3>>}, b \in BOOLEAN }
\* IoU 3/5 with the next box, 1/3 with the one after it.
RowOfBoxes == {[x1 |-> x, y1 |-> 0, x2 |-> x + 4, y2 |-> 2] : x \in 0..2}
SmallNmsOptions ==
    { [iou_num |-> iou[1], iou_den |-> iou[2], max_detections |-> det,
       max_candidates |-> cand, class_agnostic |-> b] :
      iou \in {<<1, 2>>, <<3, 5>>}, det \in 1..3, cand \in 2..3, b \in BOOLEAN }
SmallShapes == {<<0, 2>>, <<1, 0>>, <<1, 1>>, <<2, 1>>, <<2, 2>>, <<2, 3>>, <<3, 2>>}

vars == <<subject, lb, yd, md, nm, la, tr, hg, fs, ov>>

Init ==
    /\ subject \in {"letterboxer", "decoder", "model", "nms", "assignment",
                    "tracker", "histogram", "source", "overlay"}
    /\ Init_lb /\ Init_md /\ Init_la /\ Init_tr /\ Init_hg
    /\ Init_yd /\ (subject # "decoder" => yd.dec.layout = CHOOSE l \in Layouts : TRUE)
    /\ Init_nm /\ (subject # "nms" => nm.options = CHOOSE o \in NmsOptions : TRUE)
    /\ Init_fs /\ (subject # "source" => fs.src = CHOOSE s \in make_source : TRUE)
    /\ Init_ov /\ (subject # "overlay" => ov.options = CHOOSE o \in OverlayOptions : TRUE)

Next ==
    /\ UNCHANGED subject
    /\ \/ subject = "letterboxer" /\ Next_lb /\ UNCHANGED <<yd, md, nm, la, tr, hg, fs, ov>>
       \/ subject = "decoder" /\ decode_yd /\ UNCHANGED <<lb, md, nm, la, tr, hg, fs, ov>>
       \/ subject = "model" /\ Next_md /\ UNCHANGED <<lb, yd, nm, la, tr, hg, fs, ov>>
       \/ subject = "nms" /\ Next_nm /\ UNCHANGED <<lb, yd, md, la, tr, hg, fs, ov>>
       \/ subject = "assignment" /\ Next_la /\ UNCHANGED <<lb, yd, md, nm, tr, hg, fs, ov>>
       \/ subject = "tracker" /\ Next_tr /\ UNCHANGED <<lb, yd, md, nm, la, hg, fs, ov>>
       \/ subject = "histogram" /\ Next_hg /\ UNCHANGED <<lb, yd, md, nm, la, tr, fs, ov>>
       \/ subject = "source" /\ Next_fs /\ UNCHANGED <<lb, yd, md, nm, la, tr, hg, ov>>
       \/ subject = "overlay" /\ Next_ov /\ UNCHANGED <<lb, yd, md, nm, la, tr, hg, fs>>

Spec == Init /\ [][Next]_vars
=============================================================================
