------------------------------ MODULE SpscRing ------------------------------
(***************************************************************************)
(* takt::SpscRing (spsc_ring.hpp) as HandOff uses it: a producer thread in *)
(* HandOff::push, a consumer thread in SpscRing::pop, and threads that     *)
(* call close() at any moment.  One action per access to shared memory:    *)
(* every load, store, fetch_add, wait and notify of the code is a step of  *)
(* its own, steps that touch only a thread's private members are folded    *)
(* into the next one.                                                      *)
(*                                                                         *)
(* Indices and wake-up epochs wrap as the unsigned members do, at IndexMod *)
(* (2^64 in the code) and EpochMod (2^32).                                 *)
(*                                                                         *)
(* Operators named after a mistake (...Missing, ...Skipped, ...OffByOne)   *)
(* are not part of the specification: each is a wrong version of the       *)
(* definition after it, which the properties are known to catch.           *)
(***************************************************************************)
EXTENDS Integers, Sequences, FiniteSets

CONSTANTS Policies,  \* "block" (push), "drop_newest" (try_push)
          Capacity,  \* capacity_
          IndexMod,  \* where head_ and tail_ wrap
          EpochMod,  \* where pushed_ and popped_ wrap
          Closers,   \* calls of close(); "producer" is the producer's own
          MaxOffers, \* bound: elements the producer offers
          Null       \* a moved-from slot

\* capacity_ is a power of two (bit_ceil), so it divides 2^64: a slot index
\* survives the wrap of head_ and tail_.  Between the load of an epoch and the
\* wait on it the epoch moves at most once per free slot, once for a push in
\* progress and once per close().
ASSUME SpscRingAssumption ==
    /\ Policies \subseteq {"block", "drop_newest"}
    /\ Capacity \in Nat \ {0}
    /\ IndexMod \in Nat
    /\ IndexMod > Capacity
    /\ IndexMod % Capacity = 0
    /\ IsFiniteSet(Closers)
    /\ EpochMod \in Nat
    /\ EpochMod > Capacity + Cardinality(Closers) + 1
    /\ MaxOffers \in Nat
    /\ Null \notin Nat

VARIABLES
    policy,                                     \* of the hand-off, fixed
    head, tail, slots, pushed, popped, closed,  \* shared members
    cached_head, cached_tail,                   \* private members
    ppc, item, p_seen,   \* producer: location, element offered, `seen'
    cpc, value, c_seen,  \* consumer: location, element moved out, `seen'
    kpc,                 \* location of each close()
    sent, received,      \* history: elements published, elements popped
    at_close             \* history: Len(sent) when closed_ was first stored

producer == <<ppc, item, p_seen, cached_head>>
consumer == <<cpc, value, c_seen, cached_tail>>
history == <<sent, received, at_close>>
vars == <<policy, head, tail, slots, pushed, popped, closed, producer,
          consumer, kpc, history>>

Offers == 1..MaxOffers
Index == 0..(IndexMod - 1)
Epoch == 0..(EpochMod - 1)

Slot(i) == i % Capacity
IndexSucc(i) == (i + 1) % IndexMod
EpochSucc(e) == (e + 1) % EpochMod

\* Unsigned tail - head.
Distance(t, h) == (t - h) % IndexMod

FullOffByOne(h) == Distance(tail, h) = Capacity + 1

\* Is the ring full, as seen by the producer with head index h?
FullAt(h) == Distance(tail, h) = Capacity

\* notify_one / notify_all: a parked thread goes back to comparing the epoch.
Notified(pc) == IF pc = "parked" THEN "wait" ELSE pc

Init ==
    /\ policy \in Policies
    /\ head = 0 /\ tail = 0
    /\ cached_head = 0 /\ cached_tail = 0
    /\ slots = [i \in 0..(Capacity - 1) |-> Null]
    /\ pushed = 0 /\ popped = 0
    /\ closed = FALSE
    /\ ppc = "idle" /\ item = 0 /\ p_seen = 0
    /\ cpc = "epoch" /\ value = Null /\ c_seen = 0
    /\ kpc = [k \in Closers |-> "idle"]
    /\ sent = <<>> /\ received = <<>> /\ at_close = 0

-----------------------------------------------------------------------------
(* Producer: HandOff::push -> push / closed, try_push -> signal(pushed_).   *)

PushBegin ==
    /\ ppc = "idle"
    /\ item < MaxOffers
    /\ item' = item + 1
    /\ ppc' = IF policy = "block" THEN "epoch" ELSE "closed"
    /\ UNCHANGED <<policy, head, tail, slots, pushed, popped, closed, p_seen,
                   cached_head, consumer, kpc, history>>

PushLoadEpoch ==
    /\ ppc = "epoch"
    /\ p_seen' = popped
    /\ ppc' = "closed"
    /\ UNCHANGED <<policy, head, tail, slots, pushed, popped, closed, item,
                   cached_head, consumer, kpc, history>>

PushCheckClosedSkipped ==
    /\ ppc = "closed"
    /\ ppc' = "try"
    /\ UNCHANGED <<policy, head, tail, slots, pushed, popped, closed, item,
                   p_seen, cached_head, consumer, kpc, history>>

PushCheckClosed ==
    /\ ppc = "closed"
    /\ ppc' = IF closed THEN "idle" ELSE "try"
    /\ UNCHANGED <<policy, head, tail, slots, pushed, popped, closed, item,
                   p_seen, cached_head, consumer, kpc, history>>

PushReloadAhead ==
    /\ ppc = "try"
    /\ FullAt(cached_head)
    /\ cached_head' = IndexSucc(head)
    /\ ppc' = "try"
    /\ UNCHANGED <<policy, head, tail, slots, pushed, popped, closed, item,
                   p_seen, consumer, kpc, history>>

\* Full as far as cached_head_ knows: reload it.  Still full: push() waits,
\* HandOff reports kDroppedIncoming for try_push().
PushReload ==
    /\ ppc = "try"
    /\ FullAt(cached_head)
    /\ cached_head' = head
    /\ ppc' = CASE ~FullAt(head) -> "try"
                [] FullAt(head) /\ policy = "block" -> "wait"
                [] OTHER -> "idle"
    /\ UNCHANGED <<policy, head, tail, slots, pushed, popped, closed, item,
                   p_seen, consumer, kpc, history>>

PushWrite ==
    /\ ppc = "try"
    /\ ~FullAt(cached_head)
    /\ slots' = [slots EXCEPT ![Slot(tail)] = item]
    /\ ppc' = "publish"
    /\ UNCHANGED <<policy, head, tail, pushed, popped, closed, item, p_seen,
                   cached_head, consumer, kpc, history>>

PushPublish ==
    /\ ppc = "publish"
    /\ tail' = IndexSucc(tail)
    /\ sent' = Append(sent, item)
    /\ ppc' = "bump"
    /\ UNCHANGED <<policy, head, slots, pushed, popped, closed, item, p_seen,
                   cached_head, consumer, kpc, received, at_close>>

PushBump ==
    /\ ppc = "bump"
    /\ pushed' = EpochSucc(pushed)
    /\ ppc' = "notify"
    /\ UNCHANGED <<policy, head, tail, slots, popped, closed, item, p_seen,
                   cached_head, consumer, kpc, history>>

PushNotify ==
    /\ ppc = "notify"
    /\ cpc' = Notified(cpc)
    /\ ppc' = "idle"
    /\ UNCHANGED <<policy, head, tail, slots, pushed, popped, closed, item,
                   p_seen, cached_head, value, c_seen, cached_tail, kpc,
                   history>>

\* popped_.wait(seen): compare, and park only if nothing was signalled.
PushWait ==
    /\ ppc = "wait"
    /\ ppc' = IF popped = p_seen THEN "parked" ELSE "epoch"
    /\ UNCHANGED <<policy, head, tail, slots, pushed, popped, closed, item,
                   p_seen, cached_head, consumer, kpc, history>>

-----------------------------------------------------------------------------
(* Consumer: pop, its two try_pop calls and signal(popped_).  The second     *)
(* try_pop, after closed_ was seen, is location "final".                     *)

PopLoadEpoch ==
    /\ cpc = "epoch"
    /\ c_seen' = pushed
    /\ cpc' = "try"
    /\ UNCHANGED <<policy, head, tail, slots, pushed, popped, closed, producer,
                   value, cached_tail, kpc, history>>

\* Empty as far as cached_tail_ knows: reload it.
PopReload ==
    /\ cpc \in {"try", "final"}
    /\ head = cached_tail
    /\ cached_tail' = tail
    /\ cpc' = CASE head # tail -> cpc
                [] head = tail /\ cpc = "try" -> "closed"
                [] OTHER -> "ended"
    /\ UNCHANGED <<policy, head, tail, slots, pushed, popped, closed, producer,
                   value, c_seen, kpc, history>>

PopRead ==
    /\ cpc \in {"try", "final"}
    /\ head # cached_tail
    /\ value' = slots[Slot(head)]
    /\ slots' = [slots EXCEPT ![Slot(head)] = Null]
    /\ cpc' = "release"
    /\ UNCHANGED <<policy, head, tail, pushed, popped, closed, producer,
                   c_seen, cached_tail, kpc, history>>

PopRelease ==
    /\ cpc = "release"
    /\ head' = IndexSucc(head)
    /\ received' = Append(received, value)
    /\ cpc' = "bump"
    /\ UNCHANGED <<policy, tail, slots, pushed, popped, closed, producer,
                   value, c_seen, cached_tail, kpc, sent, at_close>>

PopBumpMissing ==
    /\ cpc = "bump"
    /\ cpc' = "notify"
    /\ UNCHANGED <<policy, head, tail, slots, pushed, popped, closed, producer,
                   value, c_seen, cached_tail, kpc, history>>

PopBump ==
    /\ cpc = "bump"
    /\ popped' = EpochSucc(popped)
    /\ cpc' = "notify"
    /\ UNCHANGED <<policy, head, tail, slots, pushed, closed, producer, value,
                   c_seen, cached_tail, kpc, history>>

\* The element is returned; the stage comes back with the next pop().
PopNotify ==
    /\ cpc = "notify"
    /\ ppc' = Notified(ppc)
    /\ cpc' = "epoch"
    /\ UNCHANGED <<policy, head, tail, slots, pushed, popped, closed, item,
                   p_seen, cached_head, value, c_seen, cached_tail, kpc,
                   history>>

PopCheckClosedNoSecondTry ==
    /\ cpc = "closed"
    /\ cpc' = IF closed THEN "ended" ELSE "wait"
    /\ UNCHANGED <<policy, head, tail, slots, pushed, popped, closed, producer,
                   value, c_seen, cached_tail, kpc, history>>

PopCheckClosed ==
    /\ cpc = "closed"
    /\ cpc' = IF closed THEN "final" ELSE "wait"
    /\ UNCHANGED <<policy, head, tail, slots, pushed, popped, closed, producer,
                   value, c_seen, cached_tail, kpc, history>>

PopWait ==
    /\ cpc = "wait"
    /\ cpc' = IF pushed = c_seen THEN "parked" ELSE "epoch"
    /\ UNCHANGED <<policy, head, tail, slots, pushed, popped, closed, producer,
                   value, c_seen, cached_tail, kpc, history>>

-----------------------------------------------------------------------------
(* close(), from any thread.  The producer closes when it has nothing left   *)
(* to push (end of the capture loop, end of run_stage).                      *)

CloseStore(k) ==
    /\ kpc[k] = "idle"
    /\ k = "producer" => ppc = "idle"
    /\ ppc' = IF k = "producer" THEN "gone" ELSE ppc
    /\ closed' = TRUE
    /\ at_close' = IF closed THEN at_close ELSE Len(sent)
    /\ kpc' = [kpc EXCEPT ![k] = "bump_pushed"]
    /\ UNCHANGED <<policy, head, tail, slots, pushed, popped, item, p_seen,
                   cached_head, consumer, sent, received>>

CloseBumpPushedMissing(k) ==
    /\ kpc[k] = "bump_pushed"
    /\ kpc' = [kpc EXCEPT ![k] = "notify_pushed"]
    /\ UNCHANGED <<policy, head, tail, slots, pushed, popped, closed, producer,
                   consumer, history>>

CloseBumpPushed(k) ==
    /\ kpc[k] = "bump_pushed"
    /\ pushed' = EpochSucc(pushed)
    /\ kpc' = [kpc EXCEPT ![k] = "notify_pushed"]
    /\ UNCHANGED <<policy, head, tail, slots, popped, closed, producer,
                   consumer, history>>

CloseNotifyPushed(k) ==
    /\ kpc[k] = "notify_pushed"
    /\ cpc' = Notified(cpc)
    /\ kpc' = [kpc EXCEPT ![k] = "bump_popped"]
    /\ UNCHANGED <<policy, head, tail, slots, pushed, popped, closed, producer,
                   value, c_seen, cached_tail, history>>

CloseBumpPopped(k) ==
    /\ kpc[k] = "bump_popped"
    /\ popped' = EpochSucc(popped)
    /\ kpc' = [kpc EXCEPT ![k] = "notify_popped"]
    /\ UNCHANGED <<policy, head, tail, slots, pushed, closed, producer,
                   consumer, history>>

CloseNotifyPopped(k) ==
    /\ kpc[k] = "notify_popped"
    /\ ppc' = Notified(ppc)
    /\ kpc' = [kpc EXCEPT ![k] = "done"]
    /\ UNCHANGED <<policy, head, tail, slots, pushed, popped, closed, item,
                   p_seen, cached_head, consumer, history>>

-----------------------------------------------------------------------------
\* The steps of a push() under way; starting another one is up to the caller.
PushStep ==
    \/ PushLoadEpoch \/ PushCheckClosed \/ PushReload \/ PushWrite
    \/ PushPublish \/ PushBump \/ PushNotify \/ PushWait

PopStep ==
    \/ PopLoadEpoch \/ PopReload \/ PopRead \/ PopRelease \/ PopBump
    \/ PopNotify \/ PopCheckClosed \/ PopWait

\* The rest of a close() that has begun.
CloseStep(k) ==
    \/ CloseBumpPushed(k) \/ CloseNotifyPushed(k)
    \/ CloseBumpPopped(k) \/ CloseNotifyPopped(k)

Next ==
    \/ PushBegin
    \/ PushStep
    \/ PopStep
    \/ \E k \in Closers : CloseStore(k) \/ CloseStep(k)

\* A thread that can take its next step eventually does.  Nothing obliges the
\* producer to push, or anyone to close.
Fairness ==
    /\ WF_vars(PushStep)
    /\ WF_vars(PopStep)
    /\ \A k \in Closers : WF_vars(CloseStep(k))

Spec == Init /\ [][Next]_vars /\ Fairness

-----------------------------------------------------------------------------
TypeOK ==
    /\ policy \in Policies
    /\ head \in Index /\ tail \in Index
    /\ cached_head \in Index /\ cached_tail \in Index
    /\ slots \in [0..(Capacity - 1) -> Offers \cup {Null}]
    /\ pushed \in Epoch /\ popped \in Epoch
    /\ closed \in BOOLEAN
    /\ ppc \in {"idle", "epoch", "closed", "try", "publish", "bump", "notify",
                "wait", "parked", "gone"}
    /\ item \in 0..MaxOffers /\ p_seen \in Epoch
    /\ cpc \in {"epoch", "try", "release", "bump", "notify", "closed", "final",
                "wait", "parked", "ended"}
    /\ value \in Offers \cup {Null} /\ c_seen \in Epoch
    /\ kpc \in [Closers -> {"idle", "bump_pushed", "notify_pushed",
                            "bump_popped", "notify_popped", "done"}]
    /\ sent \in Seq(Offers) /\ received \in Seq(Offers \cup {Null})
    /\ at_close \in Nat

\* The consumer gets exactly what the producer published, in that order:
\* nothing lost, duplicated, reordered or torn, also when the indices wrap.
FifoDelivery ==
    /\ Len(received) <= Len(sent)
    /\ \A i \in 1..Len(received) : received[i] = sent[i]

AboutToWrite == ppc = "try" /\ ~FullAt(cached_head)
AboutToRead == cpc \in {"try", "final"} /\ head # cached_tail

\* The plain accesses to slots_ never race and never hit the wrong slot: a
\* push writes only a slot that pop() has emptied, a pop reads only a slot
\* that holds an element, and the two are never about to touch the same one.
SlotExclusion ==
    /\ AboutToWrite => slots[Slot(tail)] = Null
    /\ AboutToRead => slots[Slot(head)] # Null
    /\ AboutToWrite /\ AboutToRead => Slot(tail) # Slot(head)

\* "Returns nullopt only once the ring is closed and drained, so no element
\* pushed before close() is ever lost" (pop): when pop() has reported the end,
\* everything published before closed_ was stored has been received.
DrainedAtEnd == cpc = "ended" => closed /\ Len(received) >= at_close

\* close() ends the consumer, however it is blocked.
CloseEndsConsumer == closed ~> cpc = "ended"

\* Every push() returns: a full ring blocks it only until the consumer makes
\* room or somebody closes.
PushReturns == ppc = "epoch" ~> ppc = "idle"

\* The ring implements the hand-off that the pipeline relies on.
Ring == INSTANCE HandOff WITH
            Items <- Offers,
            queue <- SubSeq(sent, Len(received) + 1, Len(sent)),
            armed <- ppc \in {"try", "publish"},
            last <- IF sent = <<>> THEN 0 ELSE sent[Len(sent)],
            popped <- received,
            ended <- cpc = "ended"

ImplementsHandOff == Ring!Spec
=============================================================================
