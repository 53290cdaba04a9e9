----------------------------- MODULE LatestSlot -----------------------------
(***************************************************************************)
(* takt::LatestSlot (latest_slot.hpp), the mailbox behind the policy       *)
(* "latest": three slots rotate between the producer (back), the consumer  *)
(* (front) and the shared middle.  One action per access to shared memory; *)
(* the producer is in HandOff::push, the consumer in take(), and threads   *)
(* call close() at any moment.                                             *)
(*                                                                         *)
(* Operators named after a mistake (...Skipped, ...Missing, ...) are wrong *)
(* versions of the definition after them and not part of the specification.*)
(***************************************************************************)
EXTENDS Integers, Sequences, FiniteSets

CONSTANTS EpochMod,  \* where published_ wraps
          Closers,   \* calls of close(); "producer" is the producer's own
          MaxOffers, \* bound: elements the producer offers
          Null       \* an empty slot

\* The producer never waits, so nothing but the number of publications bounds
\* how far the epoch moves between the consumer's load and its wait.
ASSUME LatestSlotAssumption ==
    /\ IsFiniteSet(Closers)
    /\ MaxOffers \in Nat
    /\ EpochMod \in Nat
    /\ EpochMod > MaxOffers + Cardinality(Closers)
    /\ Null \notin Nat

VARIABLES
    slots, middle, published, closed,  \* shared members
    back, front,                       \* private members
    ppc, item,                         \* producer: location, element offered
    cpc, seen,                         \* consumer: location, epoch loaded
    kpc,                               \* location of each close()
    displaced,                         \* history: values handed back, in order
    received,                          \* history: values taken, in order
    last                               \* history: newest value published

producer == <<ppc, item, back>>
consumer == <<cpc, seen, front>>
history == <<displaced, received, last>>
vars == <<slots, middle, published, closed, producer, consumer, kpc, history>>

Offers == 1..MaxOffers
Slots == 0..2
EpochSucc(e) == (e + 1) % EpochMod
Notified(pc) == IF pc = "parked" THEN "wait" ELSE pc

Init ==
    /\ slots = [i \in Slots |-> Null]
    /\ middle = [index |-> 1, fresh |-> FALSE]
    /\ back = 0 /\ front = 2
    /\ published = 0 /\ closed = FALSE
    /\ ppc = "idle" /\ item = 0
    /\ cpc = "epoch" /\ seen = 0
    /\ kpc = [k \in Closers |-> "idle"]
    /\ displaced = <<>> /\ received = <<>> /\ last = 0

-----------------------------------------------------------------------------
(* Producer: HandOff::push -> closed, publish.                               *)

PushBegin ==
    /\ ppc = "idle"
    /\ item < MaxOffers
    /\ item' = item + 1
    /\ ppc' = "closed"
    /\ UNCHANGED <<slots, middle, published, closed, back, consumer, kpc,
                   history>>

\* HandOff's own look at closed(): kClosed.
PushCheckClosed ==
    /\ ppc = "closed"
    /\ ppc' = IF closed THEN "idle" ELSE "publish"
    /\ UNCHANGED <<slots, middle, published, closed, item, back, consumer, kpc,
                   history>>

PublishCheckClosedSkipped ==
    /\ ppc = "publish"
    /\ ppc' = "write"
    /\ UNCHANGED <<slots, middle, published, closed, item, back, consumer, kpc,
                   history>>

\* publish() looks again; it hands the value itself back when closed.
PublishCheckClosed ==
    /\ ppc = "publish"
    /\ ppc' = IF closed THEN "idle" ELSE "write"
    /\ displaced' = IF closed THEN Append(displaced, item) ELSE displaced
    /\ UNCHANGED <<slots, middle, published, closed, item, back, consumer, kpc,
                   received, last>>

PublishWrite ==
    /\ ppc = "write"
    /\ slots' = [slots EXCEPT ![back] = item]
    /\ ppc' = "exchange"
    /\ UNCHANGED <<middle, published, closed, item, back, consumer, kpc,
                   history>>

PublishExchangeKeepsStale ==
    /\ ppc = "exchange"
    /\ middle' = [index |-> back, fresh |-> TRUE]
    /\ back' = middle.index
    /\ last' = item
    /\ ppc' = "bump"
    /\ UNCHANGED <<slots, published, closed, item, consumer, kpc, displaced,
                   received>>

PublishExchange ==
    /\ ppc = "exchange"
    /\ middle' = [index |-> back, fresh |-> TRUE]
    /\ back' = middle.index
    /\ last' = item
    /\ ppc' = IF middle.fresh THEN "displace" ELSE "bump"
    /\ UNCHANGED <<slots, published, closed, item, consumer, kpc, displaced,
                   received>>

PublishDisplace ==
    /\ ppc = "displace"
    /\ displaced' = Append(displaced, slots[back])
    /\ slots' = [slots EXCEPT ![back] = Null]
    /\ ppc' = "bump"
    /\ UNCHANGED <<middle, published, closed, item, back, consumer, kpc,
                   received, last>>

PublishBumpMissing ==
    /\ ppc = "bump"
    /\ ppc' = "notify"
    /\ UNCHANGED <<slots, middle, published, closed, item, back, consumer, kpc,
                   history>>

PublishBump ==
    /\ ppc = "bump"
    /\ published' = EpochSucc(published)
    /\ ppc' = "notify"
    /\ UNCHANGED <<slots, middle, closed, item, back, consumer, kpc, history>>

PublishNotify ==
    /\ ppc = "notify"
    /\ cpc' = Notified(cpc)
    /\ ppc' = "idle"
    /\ UNCHANGED <<slots, middle, published, closed, item, back, seen, front,
                   kpc, history>>

-----------------------------------------------------------------------------
(* Consumer: take and its two try_take calls; "final" is the second one.     *)

TakeLoadEpoch ==
    /\ cpc = "epoch"
    /\ seen' = published
    /\ cpc' = "try"
    /\ UNCHANGED <<slots, middle, published, closed, producer, front, kpc,
                   history>>

TakeLookNoFreshBit ==
    /\ cpc \in {"try", "final"}
    /\ cpc' = "exchange"
    /\ UNCHANGED <<slots, middle, published, closed, producer, seen, front,
                   kpc, history>>

\* The relaxed look at the fresh bit.
TakeLook ==
    /\ cpc \in {"try", "final"}
    /\ cpc' = CASE middle.fresh -> "exchange"
                [] ~middle.fresh /\ cpc = "try" -> "closed"
                [] OTHER -> "ended"
    /\ UNCHANGED <<slots, middle, published, closed, producer, seen, front,
                   kpc, history>>

TakeExchange ==
    /\ cpc = "exchange"
    /\ middle' = [index |-> front, fresh |-> FALSE]
    /\ front' = middle.index
    /\ cpc' = "move"
    /\ UNCHANGED <<slots, published, closed, producer, seen, kpc, history>>

\* Moves the value out and returns it; the stage comes back with take().
TakeMove ==
    /\ cpc = "move"
    /\ received' = Append(received, slots[front])
    /\ slots' = [slots EXCEPT ![front] = Null]
    /\ cpc' = "epoch"
    /\ UNCHANGED <<middle, published, closed, producer, seen, front, kpc,
                   displaced, last>>

TakeCheckClosed ==
    /\ cpc = "closed"
    /\ cpc' = IF closed THEN "final" ELSE "wait"
    /\ UNCHANGED <<slots, middle, published, closed, producer, seen, front,
                   kpc, history>>

TakeWait ==
    /\ cpc = "wait"
    /\ cpc' = IF published = seen THEN "parked" ELSE "epoch"
    /\ UNCHANGED <<slots, middle, published, closed, producer, seen, front,
                   kpc, history>>

-----------------------------------------------------------------------------
CloseStore(k) ==
    /\ kpc[k] = "idle"
    /\ k = "producer" => ppc = "idle"
    /\ ppc' = IF k = "producer" THEN "gone" ELSE ppc
    /\ closed' = TRUE
    /\ kpc' = [kpc EXCEPT ![k] = "bump"]
    /\ UNCHANGED <<slots, middle, published, item, back, consumer, displaced,
                   received, last>>

CloseBumpMissing(k) ==
    /\ kpc[k] = "bump"
    /\ kpc' = [kpc EXCEPT ![k] = "notify"]
    /\ UNCHANGED <<slots, middle, published, closed, producer, consumer,
                   history>>

CloseBump(k) ==
    /\ kpc[k] = "bump"
    /\ published' = EpochSucc(published)
    /\ kpc' = [kpc EXCEPT ![k] = "notify"]
    /\ UNCHANGED <<slots, middle, closed, producer, consumer, history>>

CloseNotify(k) ==
    /\ kpc[k] = "notify"
    /\ cpc' = Notified(cpc)
    /\ kpc' = [kpc EXCEPT ![k] = "done"]
    /\ UNCHANGED <<slots, middle, published, closed, producer, seen, front,
                   history>>

-----------------------------------------------------------------------------
PushStep ==
    \/ PushCheckClosed \/ PublishCheckClosed \/ PublishWrite
    \/ PublishExchange \/ PublishDisplace \/ PublishBump \/ PublishNotify

TakeStep ==
    \/ TakeLoadEpoch \/ TakeLook \/ TakeExchange \/ TakeMove
    \/ TakeCheckClosed \/ TakeWait

CloseStep(k) == CloseBump(k) \/ CloseNotify(k)

Next ==
    \/ PushBegin
    \/ PushStep
    \/ TakeStep
    \/ \E k \in Closers : CloseStore(k) \/ CloseStep(k)

\* As for SpscRing: threads run, nobody is obliged to push or to close.
Fairness ==
    /\ WF_vars(PushStep)
    /\ WF_vars(TakeStep)
    /\ \A k \in Closers : WF_vars(CloseStep(k))

Spec == Init /\ [][Next]_vars /\ Fairness

-----------------------------------------------------------------------------
TypeOK ==
    /\ slots \in [Slots -> Offers \cup {Null}]
    /\ middle \in [index : Slots, fresh : BOOLEAN]
    /\ published \in 0..(EpochMod - 1)
    /\ closed \in BOOLEAN
    /\ back \in Slots /\ front \in Slots
    /\ ppc \in {"idle", "closed", "publish", "write", "exchange", "displace",
                "bump", "notify", "gone"}
    /\ item \in 0..MaxOffers
    /\ cpc \in {"epoch", "try", "exchange", "move", "closed", "final", "wait",
                "parked", "ended"}
    /\ seen \in 0..(EpochMod - 1)
    /\ kpc \in [Closers -> {"idle", "bump", "notify", "done"}]
    /\ displaced \in Seq(Offers \cup {Null})
    /\ received \in Seq(Offers \cup {Null})
    /\ last \in 0..MaxOffers

\* The places where value v is: a slot, the caller's hands, the consumer's.
Copies(v) ==
    Cardinality({i \in Slots : slots[i] = v})
    + Cardinality({i \in 1..Len(displaced) : displaced[i] = v})
    + Cardinality({i \in 1..Len(received) : received[i] = v})

\* The rotation of the three indices keeps the threads apart and loses
\* nothing: back_, front_ and the middle are always three different slots, a
\* middle slot without the fresh bit is empty and one with it is not, the
\* producer never writes over a value and the consumer never moves out of an
\* empty slot.  "Only the consumer clears the fresh bit, so it is still set
\* here" (try_take): what the consumer saw before its exchange still holds.
Rotation ==
    /\ back # front /\ back # middle.index /\ front # middle.index
    /\ middle.fresh <=> slots[middle.index] # Null
    /\ ppc = "write" => slots[back] = Null
    /\ ppc = "displace" => slots[back] # Null
    /\ cpc = "exchange" => middle.fresh
    /\ cpc = "move" => slots[front] # Null

\* Every published value is in exactly one place: in a slot, handed back to
\* the producer as displaced (and counted as a drop there), or received.
Conservation ==
    /\ \A v \in Offers : Copies(v) <= 1
    /\ \A v \in 1..last : Copies(v) = 1

\* The newest value always gets through: after a publication the consumer
\* takes it or a later one, unless somebody closes.
NewestGetsThrough ==
    \A v \in Offers :
        last = v ~> closed \/ \E i \in 1..Len(received) : received[i] >= v

\* close() ends the consumer, however it is blocked.
CloseEndsConsumer == closed ~> cpc = "ended"

\* The mailbox implements the hand-off that the pipeline relies on.
Mailbox == INSTANCE HandOff WITH
            Policies <- {"latest"},
            policy <- "latest",
            Capacity <- 1,
            Items <- Offers,
            queue <- IF middle.fresh THEN <<slots[middle.index]>> ELSE <<>>,
            armed <- ppc \in {"write", "exchange"},
            popped <- IF cpc = "move" THEN Append(received, slots[front])
                                      ELSE received,
            ended <- cpc = "ended"

ImplementsHandOff == Mailbox!Spec
=============================================================================
