---------------------------- MODULE HandOffPolicy ----------------------------
(***************************************************************************)
(* The overload policies of a hand-off and what a push does under each of  *)
(* them, as operators on its contents (a sequence, oldest first; a mailbox *)
(* holds at most one element).  hand_off.hpp, hand_off.cpp.                *)
(* InsertedAtFront is wrong on purpose: the properties are known to catch  *)
(* it.                                                                     *)
(***************************************************************************)
EXTENDS Integers, Sequences

IngressPolicy == {"block", "drop_newest", "latest"}

HandOffResult == {"accepted", "replaced_stale", "dropped_incoming", "closed"}

\* The results that the caller counts as a dropped frame.
is_drop(result) == result \in {"replaced_stale", "dropped_incoming"}

\* Policy of the three hand-offs inside the pipeline.
internal_policy(policy) == IF policy = "latest" THEN "latest" ELSE "block"

\* Is there no room for another element?  A mailbox always has room.
Full(policy, cap, q) == policy # "latest" /\ Len(q) = cap

InsertedAtFront(policy, q, v) ==
    IF policy = "latest" THEN <<v>> ELSE <<v>> \o q

\* Contents after an insertion: a mailbox replaces what nobody took.
Inserted(policy, q, v) == IF policy = "latest" THEN <<v>> ELSE Append(q, v)

\* What the insertion pushes out.
Displaced(policy, q) == IF policy = "latest" THEN q ELSE <<>>

\* What HandOff::push reports for an insertion into contents q.
InsertResult(policy, q) ==
    IF Displaced(policy, q) = <<>> THEN "accepted" ELSE "replaced_stale"
=============================================================================
