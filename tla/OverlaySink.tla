---------------------------- MODULE OverlaySink ----------------------------
(***************************************************************************)
(* The sink that draws and records (overlay_sink.cpp) with its renderer    *)
(* (overlay.cpp): the trails of the tracks, the video writer, the preview  *)
(* window and its quit key, over several runs.  Drawing is left out; a     *)
(* point of a trail is the sequence number of the frame it was taken from. *)
(*                                                                         *)
(* Operators named after a mistake are wrong versions of the definition    *)
(* after them and not part of the specification.                           *)
(***************************************************************************)
EXTENDS Integers, Sequences, FiniteSets, SequencesExt, Functions

CONSTANTS trail_length,
          ForgetAfter,   \* frames after which a trail is forgotten (30)
          TrackIds,      \* track ids that frames carry
          MaxSequence,   \* bound: frames of a run
          MaxStarts      \* bound: runs

ASSUME OverlaySinkAssumption ==
    /\ trail_length \in Nat /\ ForgetAfter \in Nat
    /\ MaxSequence \in Nat /\ MaxStarts \in Nat

\* trails and last_seen stand for trails_ and last_seen_; writer, window and
\* quit for whether the writer and the window are open and quit_requested;
\* log is a history of the frames of the run, quits one of on_quit().
VARIABLE ov

OverlayOptions == [draw_trails : BOOLEAN, video : BOOLEAN, show : BOOLEAN]

Init_ov ==
    \E options \in OverlayOptions :
        ov = [options |-> options, running |-> FALSE, starts |-> 0,
              trails |-> <<>>, last_seen |-> <<>>, writer |-> FALSE,
              window |-> FALSE, quit |-> FALSE, log |-> <<>>, quits |-> 0]

\* OverlayRenderer::on_start.
renderer_on_start(o) == [o EXCEPT !.trails = <<>>, !.last_seen = <<>>]

\* OverlaySink::on_start: a run begins, after a finished one or after one that
\* never got to on_finish.
on_start ==
    /\ ov.starts < MaxStarts
    /\ ov' = [renderer_on_start(ov) EXCEPT !.running = TRUE, !.starts = @ + 1,
                                           !.quit = FALSE, !.log = <<>>, !.quits = 0]

\* A trail gets a point and loses its oldest ones.
Extended(trail, point) ==
    LET longer == Append(trail, point)
    IN IF Len(longer) > trail_length
       THEN SubSeq(longer, Len(longer) - trail_length + 1, Len(longer)) ELSE longer

TrailOf(trails, id) == IF id \in DOMAIN trails THEN trails[id] ELSE <<>>

GoneEarly(seen, sequence) == sequence >= seen + ForgetAfter

\* The track was seen too long ago.
Gone(seen, sequence) == sequence > seen + ForgetAfter

\* render(): the trails of the frame's tracks grow, then those of tracks that
\* are gone are forgotten.
render(o, sequence, ids) ==
    IF ~o.options.draw_trails THEN o
    ELSE LET known == DOMAIN o.trails \cup ids
             seen == [id \in known |-> IF id \in ids THEN sequence ELSE o.last_seen[id]]
             grown == [id \in known |-> IF id \in ids
                                        THEN Extended(TrailOf(o.trails, id), sequence)
                                        ELSE o.trails[id]]
             kept == {id \in known : ~Gone(seen[id], sequence)}
         IN [o EXCEPT !.trails = Restrict(grown, kept), !.last_seen = Restrict(seen, kept)]

\* consume(): sequences grow, with gaps where frames were dropped.  The video
\* writer is opened with the first frame; the window's key is 'q' or Esc, or
\* it is not.
consume ==
    /\ ov.running
    /\ \E sequence \in 0..MaxSequence, ids \in SUBSET TrackIds, key \in BOOLEAN :
          /\ ov.log # <<>> => sequence > Last(ov.log).sequence
          /\ key => ov.options.show
          /\ LET drawn == render(ov, sequence, ids)
             IN ov' = [drawn EXCEPT
                        !.writer = @ \/ ov.options.video,
                        !.window = @ \/ ov.options.show,
                        !.quit = @ \/ key,
                        !.quits = IF key /\ ~ov.quit THEN @ + 1 ELSE @,
                        !.log = Append(@, [sequence |-> sequence, ids |-> ids])]

\* The video writer does not open: the frame is drawn, and consume() throws.
consume_throws ==
    /\ ov.running
    /\ ov.options.video /\ ~ov.writer
    /\ \E sequence \in 0..MaxSequence, ids \in SUBSET TrackIds :
          ov' = [render(ov, sequence, ids) EXCEPT !.running = FALSE,
                   !.log = Append(@, [sequence |-> sequence, ids |-> ids])]

\* on_finish(): whatever is open is closed.
on_finish ==
    /\ ov.starts > 0
    /\ ov' = [ov EXCEPT !.running = FALSE, !.writer = FALSE, !.window = FALSE]

Next_ov == on_start \/ consume \/ consume_throws \/ on_finish

-----------------------------------------------------------------------------
\* The frames of the run that had track id, as positions in the log.
SightingsOf(log, id) == {i \in 1..Len(log) : id \in log[i].ids}

\* Those since which the track has not been gone: at every later frame it had
\* been seen at most ForgetAfter before.
FollowedSince(log, id) ==
    {i \in SightingsOf(log, id) :
       \A k \in i..Len(log) : \E j \in SightingsOf(log, id) :
          i <= j /\ j <= k /\ log[k].sequence <= log[j].sequence + ForgetAfter}

\* The last trail_length of them.
Shown(log, id) ==
    {i \in FollowedSince(log, id) :
       Cardinality({j \in FollowedSince(log, id) : j > i}) < trail_length}

\* A trail with these points, oldest first.
OldestFirst(trail, points) ==
    /\ {trail[n] : n \in 1..Len(trail)} = points
    /\ \A m, n \in 1..Len(trail) : m < n => trail[m] < trail[n]

\* The trail of a track holds the frames in which it was last seen, oldest
\* first, back to the last time it was gone for too long and at most
\* trail_length of them; a track that is gone has none, so the trails do not
\* pile up as ids are used up.
TrailsTrue ==
    ov.options.draw_trails /\ ov.log # <<>> =>
        LET alive == {id \in TrackIds : FollowedSince(ov.log, id) # {}}
        IN /\ DOMAIN ov.trails = alive /\ DOMAIN ov.last_seen = alive
           /\ \A id \in alive : OldestFirst(ov.trails[id],
                                    {ov.log[i].sequence : i \in Shown(ov.log, id)})
=============================================================================
