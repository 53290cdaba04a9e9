---------------------------- MODULE ByteTracker ----------------------------
(***************************************************************************)
(* The tracker of byte_tracker.cpp, frame by frame: which tracks there     *)
(* are, in which state, and which detection each one got.  Boxes and the   *)
(* Kalman filter are left out, so an association is any one-to-one         *)
(* matching of the tracks and the detections it is given: that is all      *)
(* LinearAssignment.tla promises when the costs are unknown.               *)
(*                                                                         *)
(* Operators named after a mistake are wrong versions of the definition    *)
(* after them and not part of the specification.                           *)
(***************************************************************************)
EXTENDS Integers, Sequences, FiniteSets, SequencesExt

CONSTANTS low_threshold, high_threshold, new_track_threshold,
          max_time_lost,   \* frame_rate / 30 * track_buffer
          TrackScores,     \* scores of detections
          MaxDetections,   \* bound: detections of a frame
          MaxFrames,       \* bound: frames between two resets
          MaxResets        \* bound: calls of reset()

ASSUME ByteTrackerAssumption ==
    /\ low_threshold \in Nat /\ high_threshold \in Nat /\ new_track_threshold \in Nat
    /\ low_threshold < high_threshold
    /\ max_time_lost \in Nat
    /\ TrackScores \subseteq Nat /\ MaxDetections \in Nat
    /\ MaxFrames \in Nat /\ MaxResets \in Nat

VARIABLE tr  \* a ByteTracker, and the last update()

\* tracks maps an id to its Track; the vector of the code is in order of ids.
Init_tr ==
    tr = [tracks |-> <<>>, frame_id |-> 0, next_id |-> 1, dets |-> <<>>,
          by |-> {}, out |-> {}, resets |-> 0]

reset ==
    /\ tr.resets < MaxResets
    /\ tr' = [tracks |-> <<>>, frame_id |-> 0, next_id |-> 1, dets |-> <<>>,
              by |-> {}, out |-> {}, resets |-> tr.resets + 1]

\* associate(): a set of (track, detection) pairs, one-to-one.
Associations(tracks, detections) ==
    { m \in SUBSET (tracks \X detections) :
        \A p, q \in m : p[1] = q[1] <=> p[2] = q[2] }

Rows(m) == {p[1] : p \in m}
Cols(m) == {p[2] : p \in m}

\* apply_match() of the tracks in T.
ApplyMatchKeepsFrame(tracks, T, frame) ==
    [t \in DOMAIN tracks |->
       IF t \in T THEN [tracks[t] EXCEPT !.state = "tracked", !.activated = TRUE]
                  ELSE tracks[t]]

ApplyMatch(tracks, T, frame) ==
    [t \in DOMAIN tracks |->
       IF t \in T THEN [tracks[t] EXCEPT !.state = "tracked", !.activated = TRUE,
                                         !.last_frame = frame]
                  ELSE tracks[t]]

SetState(tracks, T, state) ==
    [t \in DOMAIN tracks |-> IF t \in T THEN [tracks[t] EXCEPT !.state = state] ELSE tracks[t]]

LeftoversAll(high, m1) == high

\* remaining_high_: the high detections that the first association left.
Leftovers(high, m1) == high \ Cols(m1)

\* new_candidates_ that are confident enough start tracks.
Starters(dets, candidates) == {d \in candidates : dets[d] >= new_track_threshold}

\* next_id_++ for each of them, in order of index.
IdOf(new, d) == tr.next_id + Cardinality({e \in new : e < d})
NextId(new) == tr.next_id + Cardinality(new)

\* Age out the lost tracks and erase what is removed.
Survivors(tracks, frame) ==
    LET alive == { t \in DOMAIN tracks :
                     /\ tracks[t].state # "removed"
                     /\ ~ /\ tracks[t].state = "lost"
                          /\ frame - tracks[t].last_frame > max_time_lost }
    IN [t \in alive |-> tracks[t]]

\* update() with the scores of the frame's detections.
update(dets) ==
    LET frame == tr.frame_id + 1
        high == {d \in DOMAIN dets : dets[d] >= high_threshold}
        low == {d \in DOMAIN dets : dets[d] < high_threshold /\ dets[d] > low_threshold}
        unconfirmed == {t \in DOMAIN tr.tracks :
                          tr.tracks[t].state = "tracked" /\ ~tr.tracks[t].activated}
        pool == DOMAIN tr.tracks \ unconfirmed
    IN \E m1 \in Associations(pool, high) :
       LET tracks1 == ApplyMatch(tr.tracks, Rows(m1), frame)
           remaining == {t \in pool \ Rows(m1) : tracks1[t].state = "tracked"}
           remaining_high == Leftovers(high, m1)
       IN \E m2 \in Associations(remaining, low),
             m3 \in Associations(unconfirmed, remaining_high) :
          LET tracks2 == SetState(ApplyMatch(tracks1, Rows(m2), frame),
                                  remaining \ Rows(m2), "lost")
              tracks3 == SetState(ApplyMatch(tracks2, Rows(m3), frame),
                                  unconfirmed \ Rows(m3), "removed")
              new == Starters(dets, remaining_high \ Cols(m3))
              started == [t \in tr.next_id..(NextId(new) - 1) |->
                            [state |-> "tracked", activated |-> frame = 1,
                             start_frame |-> frame, last_frame |-> frame]]
              all == [t \in DOMAIN tracks3 \cup DOMAIN started |->
                        IF t \in DOMAIN started THEN started[t] ELSE tracks3[t]]
              tracks == Survivors(all, frame)
          IN tr' = [tr EXCEPT
                      !.tracks = tracks, !.frame_id = frame, !.next_id = NextId(new),
                      !.dets = dets,
                      !.by = m1 \cup m2 \cup m3
                             \cup {<<IdOf(new, d), d>> : d \in new},
                      !.out = {<<t, frame - tracks[t].start_frame + 1>> :
                                 t \in {t \in DOMAIN tracks :
                                          tracks[t].state = "tracked" /\ tracks[t].activated}}]

Next_tr ==
    \/ reset
    \/ /\ tr.frame_id < MaxFrames
       /\ \E dets \in BoundedSeq(TrackScores, MaxDetections) : update(dets)

-----------------------------------------------------------------------------
\* Ids and boxes are never shared.  Through any sequence of frames no detection
\* feeds two tracks and no track gets two detections; every detection that is
\* confident enough to start a track belongs to one afterwards; and a reported
\* object is one of the tracks fed in this frame, with the age counted from the
\* frame its id was given out.
TrackIdentity ==
    /\ \A p, q \in tr.by : p[1] = q[1] <=> p[2] = q[2]
    /\ \A d \in DOMAIN tr.dets :
          tr.dets[d] >= high_threshold /\ tr.dets[d] >= new_track_threshold => d \in Cols(tr.by)
    /\ \A o \in tr.out : o[1] \in Rows(tr.by) /\ o[2] \in 1..tr.frame_id
    /\ Rows(tr.by) \subseteq DOMAIN tr.tracks
    /\ \A t \in DOMAIN tr.tracks : t < tr.next_id

\* What the states mean after every update: a confirmed track was seen in this
\* very frame; a tentative one is brand new, so that the next frame confirms or
\* removes it; a lost one was confirmed before and has been away for at least
\* one frame and at most max_time_lost.
TrackLifeCycle ==
    \A t \in DOMAIN tr.tracks :
        LET track == tr.tracks[t]
            away == tr.frame_id - track.last_frame
        IN \/ track.state = "tracked" /\ track.activated /\ away = 0
           \/ /\ track.state = "tracked" /\ ~track.activated
              /\ away = 0 /\ track.start_frame = tr.frame_id /\ tr.frame_id > 1
           \/ track.state = "lost" /\ track.activated /\ away \in 1..max_time_lost

=============================================================================
