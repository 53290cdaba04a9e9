-------------------------- MODULE LatestSlot_proofs --------------------------
(***************************************************************************)
(* The mailbox for any number of values and of close() calls: the rotation *)
(* of its three slots, that no value is lost or seen twice, and that it    *)
(* implements HandOff.                                                     *)
(*                                                                         *)
(* Rotation is not inductive: it says what the slots in use contain, and   *)
(* an exchange brings back the ones that were not.  Ownership says what is *)
(* in each of the three at every location.  Conservation counts copies;    *)
(* that the count is one rests on the numbers of the values (Numbering),   *)
(* which tell a new one from all that were ever stored, and on comparing   *)
(* the places with each other (OnePlaceEach) instead of counting them.     *)
(***************************************************************************)
EXTENDS LatestSlot, FiniteSetTheorems, SequenceTheorems, TLAPS

\* Each of the three slots belongs to somebody, and is empty but for the value
\* its owner is at work on.
Ownership ==
    /\ back # front /\ back # middle.index /\ front # middle.index
    /\ middle.fresh <=> slots[middle.index] # Null
    /\ ppc = "exchange" => slots[back] = item
    /\ ppc = "displace" => slots[back] # Null
    /\ ppc \notin {"exchange", "displace"} => slots[back] = Null
    /\ cpc = "move" <=> slots[front] # Null
    /\ cpc = "exchange" => middle.fresh
    /\ cpc \in {"final", "ended"} => closed

\* Values are published in the order of their numbers and without a gap: one
\* that is turned away finds the mailbox closed for good.
Numbering ==
    /\ last <= item
    /\ ppc \in {"publish", "write", "exchange"} => item = last + 1
    /\ ppc \in {"displace", "bump", "notify"} => item = last
    /\ ppc = "closed" /\ ~closed => item = last + 1
    /\ ppc = "idle" /\ ~closed => item = last

\* No place holds a value that was not published yet, but for the slot that
\* the producer has written and the value a closed mailbox gave back.
Published ==
    /\ \A i \in Slots : slots[i] # Null =>
          \/ slots[i] \in 1..last
          \/ ppc = "exchange" /\ i = back
    /\ \A i \in 1..Len(received) : received[i] \in 1..last
    /\ \A i \in 1..Len(displaced) :
          \/ displaced[i] \in 1..last
          \/ /\ displaced[i] \in 1..item
             /\ closed /\ ppc \in {"idle", "closed", "gone"}

\* No two places hold the same value.
OnePlaceEach ==
    /\ \A i, j \in Slots : slots[i] = slots[j] /\ slots[i] # Null => i = j
    /\ \A i, j \in 1..Len(received) : received[i] = received[j] => i = j
    /\ \A i, j \in 1..Len(displaced) : displaced[i] = displaced[j] => i = j
    /\ \A i \in Slots, j \in 1..Len(received) : slots[i] # received[j]
    /\ \A i \in Slots, j \in 1..Len(displaced) : slots[i] # displaced[j]
    /\ \A i \in 1..Len(received), j \in 1..Len(displaced) :
          received[i] # displaced[j]

\* Every published value is somewhere.
NothingLost ==
    \A v \in 1..last :
        \/ \E i \in Slots : slots[i] = v
        \/ \E i \in 1..Len(received) : received[i] = v
        \/ \E i \in 1..Len(displaced) : displaced[i] = v

IInv ==
    TypeOK /\ Ownership /\ Numbering /\ Published /\ OnePlaceEach /\ NothingLost

-----------------------------------------------------------------------------
\* What the proofs use of the constants.
LEMMA ConstantFacts ==
  /\ MaxOffers \in Nat /\ EpochMod \in Nat /\ 0 < EpochMod
  /\ Null \notin Nat
  /\ \A e \in 0..(EpochMod - 1) : EpochSucc(e) \in 0..(EpochMod - 1)
<1>1. Cardinality(Closers) \in Nat
  BY LatestSlotAssumption, FS_CardinalityType
<1>2. MaxOffers \in Nat /\ EpochMod \in Nat /\ 0 < EpochMod /\ Null \notin Nat
  BY <1>1, LatestSlotAssumption
<1> QED  BY <1>2 DEF EpochSucc

\* A new mailbox is empty.
LEMMA InvInit == Init => IInv
<1> SUFFICES ASSUME Init PROVE IInv
  OBVIOUS
<1>1. TypeOK
  <2>1. /\ slots \in [Slots -> Offers \cup {Null}]
        /\ kpc \in [Closers -> {"idle", "bump", "notify", "done"}]
    BY DEF Init
  <2>2. middle \in [index : Slots, fresh : BOOLEAN] /\ closed \in BOOLEAN
    <3>1. 1 \in Slots /\ FALSE \in BOOLEAN
      BY DEF Slots
    <3> QED  BY <3>1, Zenon DEF Init
  <2>3. /\ published \in 0..(EpochMod - 1) /\ seen \in 0..(EpochMod - 1)
        /\ back \in Slots /\ front \in Slots
        /\ item \in 0..MaxOffers /\ last \in 0..MaxOffers
    BY ConstantFacts DEF Init, Slots
  <2>4. /\ displaced \in Seq(Offers \cup {Null})
        /\ received \in Seq(Offers \cup {Null})
    BY DEF Init
  <2> QED  BY <2>1, <2>2, <2>3, <2>4 DEF Init, TypeOK
<1>2. Len(received) = 0 /\ Len(displaced) = 0
  BY DEF Init
<1>3. Ownership /\ Numbering
  BY DEF Init, Ownership, Numbering, Slots
<1>4. Published /\ OnePlaceEach /\ NothingLost
  BY <1>2 DEF Init, Published, OnePlaceEach, NothingLost, Slots
<1> QED  BY <1>1, <1>3, <1>4 DEF IInv

\* The types survive every step.
LEMMA TypeStep == IInv /\ [Next]_vars => TypeOK'
<1> SUFFICES ASSUME IInv, [Next]_vars PROVE TypeOK'
  OBVIOUS
<1> USE ConstantFacts DEF IInv, TypeOK, Notified
<1>1. CASE PushBegin  BY <1>1 DEF PushBegin, consumer, history
<1>2. CASE PushCheckClosed  BY <1>2 DEF PushCheckClosed, consumer, history
<1>3. CASE PublishCheckClosed
  <2>1. item \in Offers
    BY <1>3 DEF PublishCheckClosed, Numbering, Offers
  <2> QED  BY <1>3, <2>1 DEF PublishCheckClosed, consumer
<1>4. CASE PublishWrite
  <2>1. item \in Offers
    BY <1>4 DEF PublishWrite, Numbering, Offers
  <2> QED  BY <1>4, <2>1 DEF PublishWrite, consumer, history
<1>5. CASE PublishExchange  BY <1>5 DEF PublishExchange, consumer
<1>6. CASE PublishDisplace  BY <1>6 DEF PublishDisplace, consumer
<1>7. CASE PublishBump \/ PublishNotify
  BY <1>7 DEF PublishBump, PublishNotify, consumer, history
<1>8. CASE TakeLoadEpoch \/ TakeLook \/ TakeCheckClosed \/ TakeWait
  BY <1>8 DEF TakeLoadEpoch, TakeLook, TakeCheckClosed, TakeWait, producer,
              history
<1>9. CASE TakeExchange  BY <1>9 DEF TakeExchange, producer, history
<1>10. CASE TakeMove  BY <1>10 DEF TakeMove, producer
<1>11. ASSUME NEW k \in Closers, CloseStore(k) PROVE TypeOK'
  BY <1>11 DEF CloseStore, consumer
<1>12. ASSUME NEW k \in Closers, CloseStep(k) PROVE TypeOK'
  BY <1>12 DEF CloseStep, CloseBump, CloseNotify, producer, consumer, history
<1>13. CASE UNCHANGED vars
  BY <1>13 DEF vars, producer, consumer, history
<1> QED
  BY <1>1, <1>2, <1>3, <1>4, <1>5, <1>6, <1>7, <1>8, <1>9, <1>10, <1>11,
     <1>12, <1>13
  DEF Next, PushStep, TakeStep

\* The two exchanges swap slots whose contents are known, everything else
\* touches a slot of its own.
LEMMA OwnershipStep == IInv /\ [Next]_vars => Ownership'
<1> SUFFICES ASSUME IInv, [Next]_vars PROVE Ownership'
  OBVIOUS
<1> USE ConstantFacts DEF IInv, TypeOK, Ownership, Notified
<1>1. CASE PushBegin \/ PushCheckClosed \/ PublishCheckClosed \/ PublishBump
           \/ PublishNotify
  BY <1>1 DEF PushBegin, PushCheckClosed, PublishCheckClosed, PublishBump,
              PublishNotify, consumer, history
<1>2. CASE PublishWrite
  <2>1. item # Null
    BY <1>2 DEF PublishWrite
  <2> QED  BY <1>2, <2>1 DEF PublishWrite, consumer, history
<1>3. CASE PublishExchange
  <2>1. slots[back] # Null
    BY <1>3 DEF PublishExchange
  <2> QED  BY <1>3, <2>1 DEF PublishExchange, consumer
<1>4. CASE PublishDisplace  BY <1>4 DEF PublishDisplace, consumer
<1>5. CASE TakeLoadEpoch \/ TakeLook \/ TakeCheckClosed \/ TakeWait
  BY <1>5 DEF TakeLoadEpoch, TakeLook, TakeCheckClosed, TakeWait, producer,
              history
<1>6. CASE TakeExchange  BY <1>6 DEF TakeExchange, producer, history
<1>7. CASE TakeMove  BY <1>7 DEF TakeMove, producer
<1>8. ASSUME NEW k \in Closers, CloseStore(k) PROVE Ownership'
  BY <1>8 DEF CloseStore, consumer
<1>9. ASSUME NEW k \in Closers, CloseStep(k) PROVE Ownership'
  BY <1>9 DEF CloseStep, CloseBump, CloseNotify, producer, consumer, history
<1>10. CASE UNCHANGED vars
  BY <1>10 DEF vars, producer, consumer, history
<1> QED
  BY <1>1, <1>2, <1>3, <1>4, <1>5, <1>6, <1>7, <1>8, <1>9, <1>10
  DEF Next, PushStep, TakeStep

\* A push that is turned away leaves a closed mailbox behind, so the next
\* number that is published follows the last one.
LEMMA NumberingStep == IInv /\ [Next]_vars => Numbering'
<1> SUFFICES ASSUME IInv, [Next]_vars PROVE Numbering'
  OBVIOUS
<1> USE ConstantFacts DEF IInv, TypeOK, Numbering
<1>1. CASE PushStep \/ PushBegin
  <2>1. CASE PushBegin  BY <2>1 DEF PushBegin, history
  <2>2. CASE PushCheckClosed  BY <2>2 DEF PushCheckClosed, history
  <2>3. CASE PublishCheckClosed  BY <2>3 DEF PublishCheckClosed
  <2>4. CASE PublishWrite  BY <2>4 DEF PublishWrite, history
  <2>5. CASE PublishExchange  BY <2>5 DEF PublishExchange
  <2>6. CASE PublishDisplace  BY <2>6 DEF PublishDisplace
  <2>7. CASE PublishBump \/ PublishNotify
    BY <2>7 DEF PublishBump, PublishNotify, history
  <2> QED  BY <1>1, <2>1, <2>2, <2>3, <2>4, <2>5, <2>6, <2>7 DEF PushStep
<1>3. CASE TakeStep
  BY <1>3 DEF TakeStep, TakeLoadEpoch, TakeLook, TakeExchange, TakeMove,
              TakeCheckClosed, TakeWait, producer, history
<1>4. ASSUME NEW k \in Closers, CloseStore(k) \/ CloseStep(k)
      PROVE  Numbering'
  BY <1>4 DEF CloseStore, CloseStep, CloseBump, CloseNotify, producer, history
<1>5. CASE UNCHANGED vars  BY <1>5 DEF vars, producer, history
<1> QED  BY <1>1, <1>3, <1>4, <1>5 DEF Next

-----------------------------------------------------------------------------
\* A step that moves no value and publishes none; the producer's slot stays
\* what it was if it holds a value.
Quiet ==
    /\ UNCHANGED <<slots, received, displaced, last>>
    /\ \/ ppc # "exchange" /\ ppc' # "exchange"
       \/ ppc' = ppc /\ back' = back
    /\ item <= item'
    /\ closed => closed'
    /\ ppc \in {"idle", "closed", "gone"} /\ closed
       => ppc' \in {"idle", "closed", "gone"}

\* A step is quiet or one of the five that are not: the producer writes,
\* publishes, takes out what was displaced or is given its value back, and the
\* consumer moves one out.
LEMMA Moves ==
  ASSUME IInv, [Next]_vars
  PROVE  \/ PublishCheckClosed /\ closed
         \/ PublishWrite \/ PublishExchange \/ PublishDisplace \/ TakeMove
         \/ Quiet
<1>t. item \in Nat /\ closed \in BOOLEAN
  BY ConstantFacts DEF IInv, TypeOK
<1>1. PushBegin => Quiet
  BY <1>t DEF PushBegin, Quiet, history
<1>2. PushCheckClosed => Quiet
  BY <1>t DEF PushCheckClosed, Quiet, history
<1>3. PublishBump \/ PublishNotify => Quiet
  BY <1>t DEF PublishBump, PublishNotify, Quiet, history
<1>4. PublishCheckClosed /\ ~closed => Quiet
  BY <1>t DEF PublishCheckClosed, Quiet
<1>5. TakeLoadEpoch \/ TakeLook \/ TakeExchange \/ TakeCheckClosed \/ TakeWait
      => Quiet
  BY <1>t DEF TakeLoadEpoch, TakeLook, TakeExchange, TakeCheckClosed, TakeWait,
              Quiet, producer, history
<1>6. ASSUME NEW k \in Closers, CloseStore(k) PROVE Quiet
  BY <1>t, <1>6 DEF CloseStore, Quiet
<1>7. ASSUME NEW k \in Closers, CloseStep(k) PROVE Quiet
  BY <1>t, <1>7 DEF CloseStep, CloseBump, CloseNotify, Quiet, producer, history
<1>8. UNCHANGED vars => Quiet
  BY <1>t DEF vars, Quiet, producer, history
<1> QED
  BY <1>1, <1>2, <1>3, <1>4, <1>5, <1>6, <1>7, <1>8
  DEF Next, PushStep, TakeStep

\* Appending adds one index.
LEMMA Longer ==
  ASSUME NEW S, NEW s \in Seq(S), NEW e \in S
  PROVE  /\ 1..Len(Append(s, e)) = (1..Len(s)) \cup {Len(s) + 1}
         /\ Len(s) + 1 \notin 1..Len(s)
         /\ Append(s, e)[Len(s) + 1] = e
         /\ \A i \in 1..Len(s) : Append(s, e)[i] = s[i]
OBVIOUS

\* Slot b of f is emptied into a new place n of r, with g and q the slots and
\* the places afterwards; d are places that are left alone.
LEMMA MoveOut ==
  ASSUME NEW f, NEW g, NEW b \in Slots, f[b] # Null, g[b] = Null,
         \A i \in Slots : i # b => g[i] = f[i],
         NEW I, NEW n, n \notin I, NEW r, NEW q, q[n] = f[b],
         \A i \in I : q[i] = r[i] /\ r[i] # Null,
         NEW J, NEW d, \A j \in J : d[j] # Null,
         \A i, j \in Slots : f[i] = f[j] /\ f[i] # Null => i = j,
         \A i, j \in I : r[i] = r[j] => i = j,
         \A i \in Slots, j \in I : f[i] # r[j],
         \A i \in Slots, j \in J : f[i] # d[j],
         \A i \in I, j \in J : r[i] # d[j]
  PROVE  /\ \A i, j \in Slots : g[i] = g[j] /\ g[i] # Null => i = j
         /\ \A i, j \in I \cup {n} : q[i] = q[j] => i = j
         /\ \A i \in Slots, j \in I \cup {n} : g[i] # q[j]
         /\ \A i \in Slots, j \in J : g[i] # d[j]
         /\ \A i \in I \cup {n}, j \in J : q[i] # d[j]
         /\ \A v : v # Null /\ (\E i \in Slots : f[i] = v)
                   => \/ \E i \in Slots : g[i] = v
                      \/ \E i \in I \cup {n} : q[i] = v
         /\ \A v : (\E i \in I : r[i] = v) => \E i \in I \cup {n} : q[i] = v
<1>1. \A i, j \in Slots : g[i] = g[j] /\ g[i] # Null => i = j
  OBVIOUS
<1>2. \A i, j \in I \cup {n} : q[i] = q[j] => i = j
  OBVIOUS
<1>3. \A i \in Slots, j \in I \cup {n} : g[i] # q[j]
  OBVIOUS
<1>4. \A i \in Slots, j \in J : g[i] # d[j]
  OBVIOUS
<1>5. \A i \in I \cup {n}, j \in J : q[i] # d[j]
  OBVIOUS
<1>6. \A v : v # Null /\ (\E i \in Slots : f[i] = v)
             => (\E i \in Slots : g[i] = v) \/ (\E i \in I \cup {n} : q[i] = v)
  OBVIOUS
<1>7. \A v : (\E i \in I : r[i] = v) => \E i \in I \cup {n} : q[i] = v
  OBVIOUS
<1> QED  BY <1>1, <1>2, <1>3, <1>4, <1>5, <1>6, <1>7

\* What the five steps do to the places.  A value that is written or given
\* back is newer than all that are stored; a value that is moved out comes
\* from the slot that is emptied.
LEMMA PlacesStep ==
  IInv /\ [Next]_vars => Published' /\ OnePlaceEach' /\ NothingLost'
<1> SUFFICES ASSUME IInv, [Next]_vars
             PROVE  Published' /\ OnePlaceEach' /\ NothingLost'
  OBVIOUS
<1> USE ConstantFacts
<1>t. /\ slots \in [Slots -> Offers \cup {Null}]
      /\ received \in Seq(Offers \cup {Null})
      /\ displaced \in Seq(Offers \cup {Null})
      /\ back \in Slots /\ front \in Slots
      /\ item \in Nat /\ last \in Nat /\ last <= item
      /\ Len(received) \in Nat /\ Len(displaced) \in Nat
      /\ Offers \subseteq Nat /\ 0 \notin Offers
  BY DEF IInv, TypeOK, Numbering, Offers
<1>i. Published /\ OnePlaceEach /\ NothingLost
  BY DEF IInv
<1>1. CASE PublishCheckClosed /\ closed
  <2>1. /\ displaced' = Append(displaced, item) /\ ppc' = "idle"
        /\ UNCHANGED <<slots, received, last, item, closed>>
        /\ ppc = "publish" /\ closed /\ item = last + 1
    BY <1>1 DEF PublishCheckClosed, IInv, Numbering
  <2>2. item \in 1..item /\ item \in Offers
    BY <1>t, <2>1 DEF IInv, TypeOK, Offers
  <2>3. /\ 1..Len(displaced') = (1..Len(displaced)) \cup {Len(displaced) + 1}
        /\ displaced'[Len(displaced) + 1] = item
        /\ \A i \in 1..Len(displaced) : displaced'[i] = displaced[i]
    BY <1>t, <2>1, <2>2, Longer
  <2>4. /\ \A i \in Slots : slots[i] # Null => slots[i] \in 1..last
        /\ \A i \in 1..Len(received) : received[i] \in 1..last
        /\ \A i \in 1..Len(displaced) : displaced[i] \in 1..last
    BY <1>i, <2>1 DEF Published
  <2>5. \A v \in 1..last : v # item /\ v # Null
    BY <1>t, <2>1
  <2>7. item # Null
    BY <1>t
  <2>8. Published'
    BY <2>1, <2>2, <2>3, <2>4 DEF Published
  <2>9. OnePlaceEach'
    BY <1>i, <2>1, <2>3, <2>4, <2>5, <2>7 DEF OnePlaceEach
  <2>10. NothingLost'
    BY <1>i, <2>1, <2>3 DEF NothingLost
  <2> QED  BY <2>8, <2>9, <2>10
<1>2. CASE PublishWrite
  <2>1. /\ slots' = [slots EXCEPT ![back] = item]
        /\ ppc = "write" /\ ppc' = "exchange" /\ slots[back] = Null
        /\ UNCHANGED <<received, displaced, last, item, closed, back>>
        /\ item = last + 1
    BY <1>2 DEF PublishWrite, IInv, Numbering, Ownership, history
  <2>2. slots'[back] = item /\ \A i \in Slots : i # back => slots'[i] = slots[i]
    BY <1>t, <2>1
  <2>3. /\ \A i \in Slots : slots[i] # Null => slots[i] \in 1..last
        /\ \A i \in 1..Len(received) : received[i] \in 1..last
        /\ \A i \in 1..Len(displaced) : displaced[i] \in 1..last
    BY <1>i, <2>1 DEF Published
  <2>4. \A v \in 1..last : v # item /\ v # Null
    BY <1>t, <2>1
  <2>5. item # Null
    BY <1>t
  <2>6. Published'
    BY <2>1, <2>2, <2>3 DEF Published
  <2>7. OnePlaceEach'
    BY <1>i, <2>1, <2>2, <2>3, <2>4, <2>5 DEF OnePlaceEach
  <2>8. NothingLost'
    BY <1>i, <2>1, <2>2, <2>4 DEF NothingLost
  <2> QED  BY <2>6, <2>7, <2>8
<1>3. CASE PublishExchange
  <2>1. /\ UNCHANGED <<slots, received, displaced, item, closed>>
        /\ last' = item /\ item = last + 1 /\ ppc = "exchange"
        /\ ppc' \notin {"exchange", "idle", "closed", "gone"}
        /\ slots[back] = item
    BY <1>3 DEF PublishExchange, IInv, Numbering, Ownership
  <2>2. 1..last' = (1..last) \cup {item}
    BY <1>t, <2>1
  <2>3. Published'
    BY <1>i, <2>1, <2>2 DEF Published
  <2>4. OnePlaceEach'
    BY <1>i, <2>1 DEF OnePlaceEach
  <2>5. NothingLost'
    BY <1>t, <1>i, <2>1, <2>2 DEF NothingLost
  <2> QED  BY <2>3, <2>4, <2>5
<1>4. CASE PublishDisplace
  <2>1. /\ displaced' = Append(displaced, slots[back])
        /\ slots' = [slots EXCEPT ![back] = Null]
        /\ ppc = "displace" /\ ppc' = "bump" /\ slots[back] # Null
        /\ UNCHANGED <<received, last, item, closed, back>>
    BY <1>4 DEF PublishDisplace, IInv, Ownership
  <2>2. slots'[back] = Null /\ \A i \in Slots : i # back => slots'[i] = slots[i]
    BY <1>t, <2>1
  <2>3. /\ 1..Len(displaced') = (1..Len(displaced)) \cup {Len(displaced) + 1}
        /\ displaced'[Len(displaced) + 1] = slots[back]
        /\ \A i \in 1..Len(displaced) : displaced'[i] = displaced[i]
        /\ Len(displaced) + 1 \notin 1..Len(displaced)
    <3>1. slots[back] \in Offers \cup {Null}
      BY <1>t
    <3> QED  BY <1>t, <2>1, <3>1, Longer
  <2>5. /\ \A i \in Slots : slots[i] # Null => slots[i] \in 1..last
        /\ \A i \in 1..Len(received) : received[i] \in 1..last
        /\ \A i \in 1..Len(displaced) : displaced[i] \in 1..last
        /\ Null \notin 1..last
    BY <1>t, <1>i, <2>1 DEF Published
  <2>6. Published'
    BY <1>t, <2>1, <2>2, <2>3, <2>5 DEF Published
  <2>7. /\ \A i \in 1..Len(displaced) : displaced[i] # Null
        /\ \A i \in 1..Len(received) : received[i] # Null
    BY <1>t, <1>i, <2>5 DEF Published
  <2>8. /\ \A i, j \in Slots : slots'[i] = slots'[j] /\ slots'[i] # Null => i = j
        /\ \A i, j \in 1..Len(displaced') : displaced'[i] = displaced'[j] => i = j
        /\ \A i \in Slots, j \in 1..Len(displaced') : slots'[i] # displaced'[j]
        /\ \A i \in Slots, j \in 1..Len(received) : slots'[i] # received[j]
        /\ \A i \in 1..Len(displaced'), j \in 1..Len(received) :
              displaced'[i] # received[j]
        /\ \A v : v # Null /\ (\E i \in Slots : slots[i] = v)
                  => \/ \E i \in Slots : slots'[i] = v
                     \/ \E i \in 1..Len(displaced') : displaced'[i] = v
        /\ \A v : (\E i \in 1..Len(displaced) : displaced[i] = v)
                  => \E i \in 1..Len(displaced') : displaced'[i] = v
    <3>1. /\ \A i, j \in Slots : slots[i] = slots[j] /\ slots[i] # Null => i = j
          /\ \A i, j \in 1..Len(displaced) : displaced[i] = displaced[j] => i = j
          /\ \A i \in Slots, j \in 1..Len(displaced) : slots[i] # displaced[j]
          /\ \A i \in Slots, j \in 1..Len(received) : slots[i] # received[j]
          /\ \A i \in 1..Len(displaced), j \in 1..Len(received) :
                displaced[i] # received[j]
      BY <1>i DEF OnePlaceEach
    <3>2. back \in Slots
      BY <1>t
    <3>3. slots[back] # Null
      BY <2>1
    <3> HIDE ConstantFacts
    <3> QED  BY <2>2, <2>3, <2>7, <3>1, <3>2, <3>3, MoveOut, SMTT(60)
  <2>9. OnePlaceEach'
    BY <1>i, <2>1, <2>8 DEF OnePlaceEach
  <2>10. NothingLost'
    <3> SUFFICES ASSUME NEW v \in 1..last
                 PROVE  \/ \E i \in Slots : slots'[i] = v
                        \/ \E i \in 1..Len(received') : received'[i] = v
                        \/ \E i \in 1..Len(displaced') : displaced'[i] = v
      BY <2>1 DEF NothingLost
    <3>1. v # Null
      BY <1>t
    <3>2. \/ \E i \in Slots : slots[i] = v
          \/ \E i \in 1..Len(received) : received[i] = v
          \/ \E i \in 1..Len(displaced) : displaced[i] = v
      BY <1>i DEF NothingLost
    <3> QED  BY <2>1, <2>8, <3>1, <3>2
  <2> QED  BY <2>6, <2>9, <2>10
<1>5. CASE TakeMove
  <2>1. /\ received' = Append(received, slots[front])
        /\ slots' = [slots EXCEPT ![front] = Null]
        /\ slots[front] # Null /\ front # back
        /\ UNCHANGED <<displaced, last, item, closed, back, ppc>>
    BY <1>5 DEF TakeMove, IInv, Ownership, producer
  <2>2. /\ slots'[front] = Null
        /\ \A i \in Slots : i # front => slots'[i] = slots[i]
    BY <1>t, <2>1
  <2>3. /\ 1..Len(received') = (1..Len(received)) \cup {Len(received) + 1}
        /\ received'[Len(received) + 1] = slots[front]
        /\ \A i \in 1..Len(received) : received'[i] = received[i]
        /\ Len(received) + 1 \notin 1..Len(received)
    <3> DEFINE S == Offers \cup {Null}
               e == slots[front]
    <3>1. e \in S /\ received \in Seq(S) /\ received' = Append(received, e)
      BY <1>t, <2>1
    <3> HIDE DEF S, e
    <3> HIDE ConstantFacts
    <3>2. /\ 1..Len(Append(received, e)) = (1..Len(received)) \cup {Len(received) + 1}
          /\ Len(received) + 1 \notin 1..Len(received)
          /\ Append(received, e)[Len(received) + 1] = e
          /\ \A i \in 1..Len(received) : Append(received, e)[i] = received[i]
      BY <3>1, Longer
    <3> QED  BY <3>1, <3>2 DEF e
  <2>5. /\ slots[front] \in 1..last
        /\ \A i \in 1..Len(received) : received[i] \in 1..last
        /\ \A i \in 1..Len(displaced) : displaced[i] # Null
        /\ Null \notin 1..last
    BY <1>t, <1>i, <2>1 DEF Published
  <2>6. Published'
    BY <1>t, <1>i, <2>1, <2>2, <2>3, <2>5 DEF Published
  <2>7. /\ \A i \in 1..Len(received) : received[i] # Null
        /\ \A i \in 1..Len(displaced) : displaced[i] # Null
    BY <1>t, <1>i, <2>5 DEF Published
  <2>8. /\ \A i, j \in Slots : slots'[i] = slots'[j] /\ slots'[i] # Null => i = j
        /\ \A i, j \in 1..Len(received') : received'[i] = received'[j] => i = j
        /\ \A i \in Slots, j \in 1..Len(received') : slots'[i] # received'[j]
        /\ \A i \in Slots, j \in 1..Len(displaced) : slots'[i] # displaced[j]
        /\ \A i \in 1..Len(received'), j \in 1..Len(displaced) :
              received'[i] # displaced[j]
        /\ \A v : v # Null /\ (\E i \in Slots : slots[i] = v)
                  => \/ \E i \in Slots : slots'[i] = v
                     \/ \E i \in 1..Len(received') : received'[i] = v
        /\ \A v : (\E i \in 1..Len(received) : received[i] = v)
                  => \E i \in 1..Len(received') : received'[i] = v
    <3>1. /\ \A i, j \in Slots : slots[i] = slots[j] /\ slots[i] # Null => i = j
          /\ \A i, j \in 1..Len(received) : received[i] = received[j] => i = j
          /\ \A i \in Slots, j \in 1..Len(received) : slots[i] # received[j]
          /\ \A i \in Slots, j \in 1..Len(displaced) : slots[i] # displaced[j]
          /\ \A i \in 1..Len(received), j \in 1..Len(displaced) :
                received[i] # displaced[j]
      BY <1>i DEF OnePlaceEach
    <3>2. front \in Slots
      BY <1>t
    <3>3. slots[front] # Null
      BY <2>1
    <3> HIDE ConstantFacts
    <3> QED  BY <2>2, <2>3, <2>7, <3>1, <3>2, <3>3, MoveOut, SMTT(60)
  <2>9. OnePlaceEach'
    <3> HIDE ConstantFacts
    <3>1. /\ displaced' = displaced
          /\ \A i, j \in 1..Len(displaced) : displaced[i] = displaced[j] => i = j
      BY <1>i, <2>1 DEF OnePlaceEach
    <3> QED  BY <2>8, <3>1 DEF OnePlaceEach
  <2>10. NothingLost'
    <3> SUFFICES ASSUME NEW v \in 1..last
                 PROVE  \/ \E i \in Slots : slots'[i] = v
                        \/ \E i \in 1..Len(received') : received'[i] = v
                        \/ \E i \in 1..Len(displaced') : displaced'[i] = v
      BY <2>1 DEF NothingLost
    <3>1. v # Null
      BY <1>t
    <3>2. \/ \E i \in Slots : slots[i] = v
          \/ \E i \in 1..Len(received) : received[i] = v
          \/ \E i \in 1..Len(displaced) : displaced[i] = v
      BY <1>i DEF NothingLost
    <3> QED  BY <2>1, <2>8, <3>1, <3>2
  <2> QED  BY <2>6, <2>9, <2>10
<1>6. CASE Quiet
  <2>1. 1..item \subseteq 1..item'
    <3>1. item' \in Nat
      BY TypeStep DEF TypeOK
    <3> QED  BY <1>t, <1>6, <3>1 DEF Quiet
  <2>2. Published'
    BY <1>i, <1>6, <2>1 DEF Quiet, Published
  <2>3. OnePlaceEach' /\ NothingLost'
    BY <1>i, <1>6 DEF Quiet, OnePlaceEach, NothingLost
  <2> QED  BY <2>2, <2>3
<1> QED  BY <1>1, <1>2, <1>3, <1>4, <1>5, <1>6, Moves

\* The inductive invariant of the mailbox.
THEOREM Invariance == Spec => []IInv
<1>1. Init => IInv
  BY InvInit
<1>2. IInv /\ [Next]_vars => IInv'
  BY TypeStep, OwnershipStep, NumberingStep, PlacesStep DEF IInv
<1> QED  BY <1>1, <1>2, PTL DEF Spec

-----------------------------------------------------------------------------
\* The rotation of the three slots keeps producer and consumer apart and the
\* fresh bit tells whether the middle one holds a value, at every access.
THEOREM RotationHolds == Spec => []Rotation
<1>1. IInv => Rotation
  BY DEF IInv, Ownership, Rotation
<1> QED  BY <1>1, Invariance, PTL

\* The places of v among those with indices I.
Places(I, f, v) == {i \in I : f[i] = v}

\* How often a value occurs in places that are all different.
LEMMA CountOne ==
  ASSUME NEW I, NEW f, NEW v, \A i, j \in I : f[i] = v /\ f[j] = v => i = j
  PROVE  /\ (\E i \in I : f[i] = v) => Cardinality(Places(I, f, v)) = 1
         /\ ~(\E i \in I : f[i] = v) => Cardinality(Places(I, f, v)) = 0
<1>1. ASSUME NEW k \in I, f[k] = v PROVE Cardinality(Places(I, f, v)) = 1
  <2>1. Places(I, f, v) = {k}
    BY <1>1 DEF Places
  <2> QED  BY <2>1, FS_Singleton
<1>2. ASSUME ~(\E i \in I : f[i] = v) PROVE Cardinality(Places(I, f, v)) = 0
  <2>1. Places(I, f, v) = {}
    BY <1>2 DEF Places
  <2> QED  BY <2>1, FS_EmptySet
<1> QED  BY <1>1, <1>2

\* publish() and take() neither lose nor duplicate a value: what was published
\* is in one slot, was handed back once or was received once.
THEOREM ConservationHolds == Spec => []Conservation
<1>1. IInv => Conservation
  <2> SUFFICES ASSUME IInv, NEW v \in Offers
               PROVE  Copies(v) <= 1 /\ (v \in 1..last => Copies(v) = 1)
    <3>1. ASSUME IInv PROVE 1..last \subseteq Offers
      <4>1. last \in 0..MaxOffers /\ MaxOffers \in Nat
        BY <3>1, ConstantFacts DEF IInv, TypeOK
      <4> QED  BY <4>1 DEF Offers
    <3> QED  BY <3>1 DEF Conservation
  <2> DEFINE InSlot == \E i \in Slots : slots[i] = v
             Gone == \E i \in 1..Len(displaced) : displaced[i] = v
             Taken == \E i \in 1..Len(received) : received[i] = v
             a == Cardinality(Places(Slots, slots, v))
             b == Cardinality(Places(1..Len(displaced), displaced, v))
             c == Cardinality(Places(1..Len(received), received, v))
  <2>1. v # Null
    BY ConstantFacts DEF Offers
  <2>2. (InSlot => a = 1) /\ (~InSlot => a = 0)
    <3>1. \A i, j \in Slots : slots[i] = v /\ slots[j] = v => i = j
      BY <2>1 DEF IInv, OnePlaceEach
    <3> QED  BY <3>1, CountOne
  <2>3. (Gone => b = 1) /\ (~Gone => b = 0)
    <3>1. \A i, j \in 1..Len(displaced) :
             displaced[i] = v /\ displaced[j] = v => i = j
      BY DEF IInv, OnePlaceEach
    <3> QED  BY <3>1, CountOne
  <2>4. (Taken => c = 1) /\ (~Taken => c = 0)
    <3>1. \A i, j \in 1..Len(received) :
             received[i] = v /\ received[j] = v => i = j
      BY DEF IInv, OnePlaceEach
    <3> QED  BY <3>1, CountOne
  <2>5. ~(InSlot /\ Gone) /\ ~(InSlot /\ Taken) /\ ~(Gone /\ Taken)
    BY DEF IInv, OnePlaceEach
  <2>6. v \in 1..last => InSlot \/ Gone \/ Taken
    BY DEF IInv, NothingLost
  <2>7. Copies(v) = a + b + c
    BY DEF Copies, Places
  <2> HIDE DEF InSlot, Gone, Taken, a, b, c
  <2> QED  BY <2>2, <2>3, <2>4, <2>5, <2>6, <2>7
<1> QED  BY <1>1, Invariance, PTL

-----------------------------------------------------------------------------
Queue == IF middle.fresh THEN <<slots[middle.index]>> ELSE <<>>
Armed == ppc \in {"write", "exchange"}
Popped == IF cpc = "move" THEN Append(received, slots[front]) ELSE received

\* A step that leaves contents, end and results alone is invisible.
LEMMA Invisible ==
  ASSUME Queue' = Queue, Popped' = Popped, UNCHANGED <<closed, last>>,
         Armed' <=> Armed,
         cpc' = "ended" <=> cpc = "ended"
  PROVE  UNCHANGED Mailbox!vars
BY DEF Mailbox!vars, Queue, Popped, Armed

\* An empty mailbox is a new hand-off.
LEMMA InitMaps == Init => Mailbox!Init
BY DEF Init, Mailbox!Init

\* Every access of publish(), take() and close() to shared memory is an
\* operation of the abstract hand-off, or invisible: the producer's exchange
\* inserts, the consumer's pops, and the second look that finds no fresh bit
\* ends the consumer.
LEMMA StepMaps == IInv /\ [Next]_vars => [Mailbox!Next]_(Mailbox!vars)
<1> SUFFICES ASSUME IInv, [Next]_vars
             PROVE  Mailbox!Next \/ UNCHANGED Mailbox!vars
  OBVIOUS
<1>t. /\ slots \in [Slots -> Offers \cup {Null}]
      /\ middle \in [index : Slots, fresh : BOOLEAN]
      /\ back \in Slots /\ front \in Slots
      /\ item \in Nat /\ last \in Nat /\ item <= MaxOffers /\ MaxOffers \in Nat
  BY ConstantFacts DEF IInv, TypeOK
<1>o. Ownership /\ Numbering
  BY DEF IInv
<1>1. CASE PublishCheckClosed /\ ~closed
  <2>1. Mailbox!PassClosedCheck
    BY <1>1 DEF PublishCheckClosed, Mailbox!PassClosedCheck, consumer
  <2> QED  BY <2>1 DEF Mailbox!Next
<1>2. CASE PublishCheckClosed /\ closed
  BY <1>2, Invisible
  DEF PublishCheckClosed, Queue, Popped, Armed, consumer
<1>3. CASE PublishWrite
  <2>1. slots'[middle.index] = slots[middle.index] /\ slots'[front] = slots[front]
    BY <1>t, <1>o, <1>3 DEF PublishWrite, Ownership
  <2> QED
    BY <1>3, <2>1, Invisible
    DEF PublishWrite, Queue, Popped, Armed, consumer, history
<1>4. CASE PublishExchange
  <2>1. item = last + 1 /\ item \in Offers /\ slots[back] = item
    BY <1>t, <1>o, <1>4 DEF PublishExchange, Numbering, Ownership, Offers
  <2>2. /\ middle'.fresh /\ middle'.index = back /\ slots' = slots
        /\ UNCHANGED <<closed, received, cpc, front>>
        /\ ppc = "exchange" /\ ppc' \in {"displace", "bump"} /\ last' = item
    BY <1>4 DEF PublishExchange, consumer
  <2>3. Queue' = <<item>> /\ Popped' = Popped
    BY <2>1, <2>2 DEF Queue, Popped
  <2>4. item > last
    BY <1>t, <2>1
  <2>5. Mailbox!Insert(item)
    BY <2>2, <2>3, <2>4
    DEF Mailbox!Insert, Mailbox!Full, Mailbox!Inserted, Queue, Popped
  <2> QED  BY <2>1, <2>5 DEF Mailbox!Next
<1>5. CASE PublishDisplace
  <2>1. slots'[middle.index] = slots[middle.index] /\ slots'[front] = slots[front]
    BY <1>t, <1>o, <1>5 DEF PublishDisplace, Ownership
  <2> QED
    BY <1>5, <2>1, Invisible
    DEF PublishDisplace, Queue, Popped, Armed, consumer
<1>6. CASE PushBegin \/ PushCheckClosed \/ PublishBump \/ PublishNotify
  BY <1>6, Invisible
  DEF PushBegin, PushCheckClosed, PublishBump, PublishNotify, Notified, Queue,
      Popped, Armed, consumer, history
<1>7. CASE TakeLook
  <2>1. CASE cpc = "final" /\ ~middle.fresh
    <3>1. closed
      BY <1>o, <2>1 DEF Ownership
    <3>2. Mailbox!End
      BY <1>7, <2>1, <3>1
      DEF TakeLook, Mailbox!End, producer, history
    <3> QED  BY <3>2 DEF Mailbox!Next
  <2>2. CASE ~(cpc = "final" /\ ~middle.fresh)
    BY <1>7, <2>2, Invisible
    DEF TakeLook, Queue, Popped, Armed, producer, history
  <2> QED  BY <2>1, <2>2
<1>8. CASE TakeExchange
  <2>1. /\ cpc = "exchange" /\ cpc' = "move" /\ middle.fresh /\ ~middle'.fresh
        /\ front' = middle.index /\ slots' = slots /\ received' = received
        /\ UNCHANGED <<closed, ppc, last>>
    BY <1>o, <1>8 DEF TakeExchange, Ownership, producer, history
  <2>2. /\ Queue = <<slots[middle.index]>> /\ Queue' = <<>>
        /\ Popped = received /\ Popped' = Append(received, slots[middle.index])
    BY <2>1 DEF Queue, Popped
  <2>3. Head(Queue) = slots[middle.index] /\ Tail(Queue) = <<>> /\ Queue # <<>>
    BY <2>2
  <2>4. Mailbox!Pop
    BY <2>1, <2>2, <2>3 DEF Mailbox!Pop, Queue, Popped
  <2> QED  BY <2>4 DEF Mailbox!Next
<1>9. CASE TakeMove
  <2>1. slots'[middle.index] = slots[middle.index]
    BY <1>t, <1>o, <1>9 DEF TakeMove, Ownership
  <2> QED
    BY <1>9, <2>1, Invisible DEF TakeMove, Queue, Popped, Armed, producer
<1>10. CASE TakeLoadEpoch \/ TakeCheckClosed \/ TakeWait
  BY <1>10, Invisible
  DEF TakeLoadEpoch, TakeCheckClosed, TakeWait, Queue, Popped, Armed, producer,
      history
<1>11. ASSUME NEW k \in Closers, CloseStore(k) PROVE Mailbox!Next
  <2>1. Mailbox!Close
    BY <1>11 DEF CloseStore, Mailbox!Close, consumer
  <2> QED  BY <2>1 DEF Mailbox!Next
<1>12. ASSUME NEW k \in Closers, CloseStep(k) PROVE UNCHANGED Mailbox!vars
  BY <1>12, Invisible
  DEF CloseStep, CloseBump, CloseNotify, Notified, Queue, Popped, Armed,
      producer, consumer, history
<1>13. CASE UNCHANGED vars
  BY <1>13, Invisible
  DEF vars, Queue, Popped, Armed, producer, consumer, history
<1> QED
  BY <1>1, <1>2, <1>3, <1>4, <1>5, <1>6, <1>7, <1>8, <1>9, <1>10, <1>11,
     <1>12, <1>13
  DEF Next, PushStep, TakeStep

\* The mailbox implements the hand-off that the pipeline is built on: every
\* behaviour of publish(), take() and close() is one of HandOff.
THEOREM Implementation == Spec => ImplementsHandOff
<1>1. Init => Mailbox!Init
  BY InitMaps
<1>2. IInv /\ [Next]_vars => [Mailbox!Next]_(Mailbox!vars)
  BY StepMaps
<1> QED
  BY <1>1, <1>2, Invariance, PTL DEF Spec, ImplementsHandOff, Mailbox!Spec
=============================================================================
