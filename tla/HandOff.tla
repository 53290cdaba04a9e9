------------------------------- MODULE HandOff -------------------------------
(***************************************************************************)
(* What a hand-off between two pipeline stages promises, whatever its      *)
(* storage: takt::HandOff (hand_off.hpp, hand_off.cpp), which keeps either *)
(* an SpscRing (policies "block" and "drop_newest") or a LatestSlot        *)
(* (policy "latest").  One producer, one consumer, and anybody may close.  *)
(*                                                                         *)
(* The promise is deliberately not "a closed hand-off takes nothing": the  *)
(* producer looks at the closed flag first and inserts later, so one push  *)
(* that passed the check can still land after close().  `armed' is that    *)
(* window.  SpscRing.tla and LatestSlot.tla are shown to implement this    *)
(* specification, and Pipeline.tla is built from its operations.           *)
(***************************************************************************)
EXTENDS HandOffPolicy

CONSTANTS Policies,  \* the policies that a hand-off may be made with
          Capacity,  \* slots of the ring; unused by "latest"
          Items      \* the numbers the producer gives its elements

ASSUME HandOffAssumption ==
    /\ Policies \subseteq IngressPolicy
    /\ Capacity \in Nat \ {0}
    /\ Items \subseteq Nat \ {0}

VARIABLES policy,  \* policy_, set when the hand-off is made
          queue,   \* elements inserted and not yet popped, oldest first
          closed,
          armed,   \* a push has passed its closed check and not yet inserted
          last,    \* number of the newest element inserted; 0: none
          popped,  \* history: everything pop() returned, in order
          ended    \* pop() has returned nullopt: the consumer is gone

vars == <<policy, queue, closed, armed, last, popped, ended>>

-----------------------------------------------------------------------------
Init ==
    /\ policy \in Policies
    /\ queue = <<>>
    /\ closed = FALSE
    /\ armed = FALSE
    /\ last = 0
    /\ popped = <<>>
    /\ ended = FALSE

PassClosedCheck ==
    /\ ~armed
    /\ ~closed
    /\ armed' = TRUE
    /\ UNCHANGED <<policy, queue, closed, last, popped, ended>>

Insert(v) ==
    /\ armed
    /\ ~Full(policy, Capacity, queue)
    /\ v > last
    /\ queue' = Inserted(policy, queue, v)
    /\ last' = v
    /\ armed' = FALSE
    /\ UNCHANGED <<policy, closed, popped, ended>>

\* No room: drop_newest gives up on the element, block starts over.
Refuse ==
    /\ armed
    /\ Full(policy, Capacity, queue)
    /\ armed' = FALSE
    /\ UNCHANGED <<policy, queue, closed, last, popped, ended>>

Pop ==
    /\ queue # <<>>
    /\ ~ended
    /\ popped' = Append(popped, Head(queue))
    /\ queue' = Tail(queue)
    /\ UNCHANGED <<policy, closed, armed, last, ended>>

EndUndrained ==
    /\ closed
    /\ ~ended
    /\ ended' = TRUE
    /\ UNCHANGED <<policy, queue, closed, armed, last, popped>>

\* pop() returns nullopt: only when closed and drained.
End ==
    /\ closed
    /\ queue = <<>>
    /\ ~ended
    /\ ended' = TRUE
    /\ UNCHANGED <<policy, queue, closed, armed, last, popped>>

Close ==
    /\ closed' = TRUE
    /\ UNCHANGED <<policy, queue, armed, last, popped, ended>>

Next ==
    \/ PassClosedCheck
    \/ \E v \in Items : Insert(v)
    \/ Refuse
    \/ Pop
    \/ End
    \/ Close

Spec == Init /\ [][Next]_vars

-----------------------------------------------------------------------------
Room == IF policy = "latest" THEN 1 ELSE Capacity

TypeOK ==
    /\ policy \in Policies
    /\ queue \in Seq(Items)
    /\ Len(queue) <= Room
    /\ closed \in BOOLEAN
    /\ armed \in BOOLEAN
    /\ last \in Items \cup {0}
    /\ popped \in Seq(Items)
    /\ ended \in BOOLEAN

\* Once the consumer has seen the end of the hand-off at most one element can
\* be left behind, and then it is the push that raced with close(): the check
\* of closed_ in SpscRing::push, LatestSlot::publish and HandOff::push comes
\* before the insertion.
StrandedAtMostOne ==
    /\ ended => closed /\ Len(queue) <= 1
    /\ ended /\ queue # <<>> => ~armed

\* Elements leave in the order in which they were inserted, also when a
\* mailbox skips some of them (capture numbers only grow).
InOrder ==
    /\ \A i, j \in 1..Len(popped) : i < j => popped[i] < popped[j]
    /\ \A i \in 1..Len(popped), j \in 1..Len(queue) : popped[i] < queue[j]
    /\ \A i, j \in 1..Len(queue) : i < j => queue[i] < queue[j]
=============================================================================
