--------------------------- MODULE SpscRing_proofs ---------------------------
(***************************************************************************)
(* Safety of SpscRing for every capacity, every width of the indices and   *)
(* epochs, every number of elements and of closing threads.                *)
(*                                                                         *)
(* Elements are numbered from 0 in the order of publication: element p is  *)
(* sent[p + 1] and lives in slot p % Capacity.  The invariant says where   *)
(* each element is in terms of these unwrapped numbers, and that head_,    *)
(* tail_ and the two cached indices are such numbers modulo IndexMod.      *)
(***************************************************************************)
EXTENDS SpscRing, FiniteSetTheorems, SequenceTheorems, TLAPS

-----------------------------------------------------------------------------
(* Facts about the remainder that a ring buffer rests on: when counters are  *)
(* kept modulo M, their differences and successors, and their images modulo  *)
(* a divisor of M, are still the right ones.                                 *)

\* Division with remainder.
LEMMA DivMod ==
  ASSUME NEW M \in Nat \ {0}, NEW a \in Int
  PROVE  /\ a % M \in 0..(M - 1)
         /\ a \div M \in Int
         /\ a = M * (a \div M) + (a % M)
  OBVIOUS

\* Multiples of M are M apart.
LEMMA MultipleGap ==
  ASSUME NEW M \in Nat \ {0}, NEW q \in Int, NEW p \in Int, q < p
  PROVE  M * p >= M * q + M
<1>1. PICK d \in Nat : p = q + 1 + d
  <2>1. p - q - 1 \in Nat /\ p = q + 1 + (p - q - 1)
    OBVIOUS
  <2> QED  BY <2>1
<1>2. M * p = M * q + M + M * d
  BY <1>1
<1>3. M * d >= 0
  OBVIOUS
<1> QED  BY <1>2, <1>3

\* The remainder is unique.
LEMMA ModUnique ==
  ASSUME NEW M \in Nat \ {0}, NEW q \in Int, NEW r \in 0..(M - 1),
         NEW a \in Int, a = M * q + r
  PROVE  a % M = r
<1> DEFINE p == a \div M
           s == a % M
<1>1. p \in Int /\ s \in 0..(M - 1) /\ a = M * p + s
  BY DivMod
<1> HIDE DEF p, s
<1>2. M * p \in Int /\ M * q \in Int
  BY <1>1
<1>3. ~(p < q)
  <2> SUFFICES ASSUME p < q PROVE FALSE
    OBVIOUS
  <2>1. M * q >= M * p + M
    BY <1>1, MultipleGap
  <2> QED  BY <1>1, <1>2, <2>1
<1>4. ~(q < p)
  <2> SUFFICES ASSUME q < p PROVE FALSE
    OBVIOUS
  <2>1. M * p >= M * q + M
    BY <1>1, MultipleGap
  <2> QED  BY <1>1, <1>2, <2>1
<1>5. p = q
  BY <1>1, <1>3, <1>4
<1>6. s = r
  BY <1>1, <1>2, <1>5
<1> QED  BY <1>6 DEF s

\* Wrapped counters less than M apart keep their difference.
LEMMA ModDifference ==
  ASSUME NEW M \in Nat \ {0}, NEW a \in Nat, NEW b \in Nat, b <= a, a - b < M
  PROVE  ((a % M) - (b % M)) % M = a - b
<1> DEFINE p == a \div M
           q == b \div M
           r == a % M
           s == b % M
<1>1. p \in Int /\ q \in Int /\ r \in 0..(M - 1) /\ s \in 0..(M - 1)
  BY DivMod
<1>2. a = M * p + r /\ b = M * q + s
  BY DivMod
<1> HIDE DEF p, q, r, s
<1>3. /\ M * p \in Int /\ M * q \in Int /\ q - p \in Int
      /\ M * (q - p) = M * q - M * p
  BY <1>1
<1> DEFINE d == a - b
           e == r - s
           m == q - p
<1>4. m \in Int /\ d \in 0..(M - 1) /\ e \in Int /\ e = M * m + d
  BY <1>1, <1>2, <1>3
<1> HIDE DEF d, e, m
<1>5. e % M = d
  BY <1>4, ModUnique
<1> QED  BY <1>5 DEF d, e, r, s

\* Numbers less than M apart have different remainders.
LEMMA ModInjective ==
  ASSUME NEW M \in Nat \ {0}, NEW a \in Nat, NEW b \in Nat, b < a, a - b < M
  PROVE  a % M # b % M
<1> SUFFICES ASSUME a % M = b % M PROVE FALSE
  OBVIOUS
<1>1. (a % M) - (b % M) = 0
  BY DivMod
<1>2. 0 % M = 0
  <2>1. 0 = M * 0 + 0
    OBVIOUS
  <2> QED  BY <2>1, ModUnique
<1>3. b <= a
  OBVIOUS
<1>4. ((a % M) - (b % M)) % M = a - b
  BY <1>3, ModDifference, Zenon
<1> QED  BY <1>1, <1>2, <1>4

\* Incrementing a wrapped counter.
LEMMA ModSuccessor ==
  ASSUME NEW M \in Nat \ {0}, NEW a \in Nat
  PROVE  ((a % M) + 1) % M = (a + 1) % M
<1> DEFINE p == (a + 1) \div M
           r == (a + 1) % M
           q == a \div M
           s == a % M
<1>1. p \in Int /\ r \in 0..(M - 1) /\ a + 1 = M * p + r
  BY DivMod
<1>2. q \in Int /\ s \in 0..(M - 1) /\ a = M * q + s
  BY DivMod
<1> HIDE DEF p, q, r, s
<1>3. /\ M * p \in Int /\ M * q \in Int /\ p - q \in Int
      /\ M * (p - q) = M * p - M * q
  BY <1>1, <1>2
<1>4. s + 1 = M * (p - q) + r
  BY <1>1, <1>2, <1>3
<1>5. (s + 1) % M = r
  BY <1>1, <1>2, <1>3, <1>4, ModUnique
<1> QED  BY <1>5 DEF r, s

\* Wrapping at a multiple of C does not change the remainder modulo C.
LEMMA ModNested ==
  ASSUME NEW M \in Nat \ {0}, NEW C \in Nat \ {0}, M % C = 0, NEW a \in Nat
  PROVE  (a % M) % C = a % C
<1> DEFINE k == M \div C
           p == a \div M
           r == a % M
           q == r \div C
           s == r % C
<1>0. a \in Int /\ M \in Int
  OBVIOUS
<1>1. k \in Int /\ M = C * k + (M % C)
  BY <1>0, DivMod, Zenon
<1>2. p \in Int /\ r \in 0..(M - 1) /\ a = M * p + r
  BY <1>0, DivMod, Zenon
<1>3. r \in Int
  BY <1>2
<1>4. q \in Int /\ s \in 0..(C - 1) /\ r = C * q + s
  BY <1>3, DivMod
<1> HIDE DEF k, p, q, r, s
<1>5. M = C * k
  BY <1>1
<1>6. M * p = C * (k * p) /\ k * p \in Int
  BY <1>1, <1>2, <1>5
<1> DEFINE n == k * p + q
<1>7. C * n = C * (k * p) + C * q /\ n \in Int
  BY <1>4, <1>6
<1> HIDE DEF n
<1>8. a = C * n + s
  BY <1>2, <1>4, <1>6, <1>7
<1>9. a % C = s
  BY <1>0, <1>4, <1>7, <1>8, ModUnique
<1> QED  BY <1>9 DEF s, r

\* The remainder is periodic.
LEMMA ModPeriod ==
  ASSUME NEW C \in Nat \ {0}, NEW a \in Nat
  PROVE  (a + C) % C = a % C
<1> DEFINE q == a \div C
           s == a % C
           b == a + C
           m == q + 1
<1>1. q \in Int /\ s \in 0..(C - 1) /\ a = C * q + s
  BY DivMod
<1> HIDE DEF q, s
<1>2. C * q \in Int /\ C * m = C * q + C
  BY <1>1
<1>3. b \in Int /\ m \in Int /\ b = C * m + s
  BY <1>1, <1>2
<1> HIDE DEF b, m
<1>4. b % C = s
  BY <1>1, <1>3, ModUnique
<1> QED  BY <1>4 DEF b, s

-----------------------------------------------------------------------------
(* The invariant.                                                            *)

Idx(p) == p % IndexMod

Offered == ppc \notin {"idle", "gone"} => item \in Offers

Indices ==
    /\ head = Idx(Len(received))
    /\ tail = Idx(Len(sent))
    /\ Len(received) <= Len(sent)
    /\ Len(sent) <= Len(received) + Capacity

\* The producer's view of head_ is old but safe.
CachedHead ==
    \E c \in 0..Len(received) :
        /\ cached_head = Idx(c)
        /\ Len(sent) <= c + Capacity
        /\ ppc = "publish" => Len(sent) < c + Capacity

\* The consumer's view of tail_ is old but safe.
CachedTail ==
    \E c \in Len(received)..Len(sent) :
        /\ cached_tail = Idx(c)
        /\ cpc = "release" => Len(received) < c

\* Published and not yet moved out.
Filled ==
    \A p \in Len(received)..(Len(sent) - 1) :
        ~(cpc = "release" /\ p = Len(received)) => slots[Slot(p)] = sent[p + 1]

\* Free for the elements to come.
Vacant ==
    \A p \in Len(sent)..(Len(received) + Capacity - 1) :
        ~(ppc = "publish" /\ p = Len(sent)) => slots[Slot(p)] = Null

InProducersHands == ppc = "publish" => slots[Slot(Len(sent))] = item

InConsumersHands ==
    cpc = "release" =>
        /\ slots[Slot(Len(received))] = Null
        /\ value = sent[Len(received) + 1]

Closing ==
    /\ cpc \in {"final", "ended"} => closed
    /\ closed => at_close <= Len(sent)
    /\ cpc = "ended" => at_close <= Len(received)

\* Where everything is.
Placement ==
    /\ Indices
    /\ CachedHead
    /\ CachedTail
    /\ Filled
    /\ Vacant
    /\ InProducersHands
    /\ InConsumersHands
    /\ FifoDelivery

\* The inductive invariant.
IInv == TypeOK /\ Offered /\ Placement /\ Closing

-----------------------------------------------------------------------------
\* What the provers need to know of the constants.
LEMMA ConstantFacts ==
  /\ Capacity \in Nat \ {0}
  /\ IndexMod \in Nat \ {0} /\ IndexMod > Capacity /\ IndexMod % Capacity = 0
  /\ EpochMod \in Nat \ {0}
  /\ MaxOffers \in Nat
  /\ Null \notin Nat
<1>1. Cardinality(Closers) \in Nat
  BY FS_CardinalityType, SpscRingAssumption
<1> QED  BY <1>1, SpscRingAssumption

\* The slot of an element: elements fewer than Capacity apart have different
\* ones, and the wrap of the index does not move an element to another slot.
LEMMA SlotFacts ==
  /\ \A p \in Nat : Slot(p) \in 0..(Capacity - 1)
  /\ \A p, q \in Nat : p < q /\ q - p < Capacity => Slot(p) # Slot(q)
  /\ \A p \in Nat : Slot(p + Capacity) = Slot(p)
  /\ \A p \in Nat : Slot(Idx(p)) = Slot(p)
<1>1. ASSUME NEW p \in Nat PROVE Slot(p) \in 0..(Capacity - 1)
  BY ConstantFacts, DivMod DEF Slot
<1>2. ASSUME NEW p \in Nat, NEW q \in Nat, p < q, q - p < Capacity
      PROVE  Slot(p) # Slot(q)
  BY <1>2, ConstantFacts, ModInjective DEF Slot
<1>3. ASSUME NEW p \in Nat PROVE Slot(p + Capacity) = Slot(p)
  BY ConstantFacts, ModPeriod DEF Slot
<1>4. ASSUME NEW p \in Nat PROVE Slot(Idx(p)) = Slot(p)
  BY ConstantFacts, ModNested DEF Slot, Idx
<1> QED  BY <1>1, <1>2, <1>3, <1>4

\* Index arithmetic across the wrap.
LEMMA IndexFacts ==
  /\ 0 = Idx(0)
  /\ \A p \in Nat : Idx(p) \in Index
  /\ \A p \in Nat : IndexSucc(Idx(p)) = Idx(p + 1)
  /\ \A p, q \in Nat :
        q <= p /\ p - q <= Capacity => Distance(Idx(p), Idx(q)) = p - q
  /\ \A p, q \in Nat :
        q <= p /\ p - q <= Capacity => (Idx(p) = Idx(q) <=> p = q)
<1>1. 0 = Idx(0)
  BY ConstantFacts, ModUnique, 0 = IndexMod * 0 + 0 DEF Idx
<1>2. ASSUME NEW p \in Nat PROVE Idx(p) \in Index
  BY ConstantFacts, DivMod DEF Idx, Index
<1>3. ASSUME NEW p \in Nat PROVE IndexSucc(Idx(p)) = Idx(p + 1)
  BY ConstantFacts, ModSuccessor DEF Idx, IndexSucc
<1>4. ASSUME NEW p \in Nat, NEW q \in Nat, q <= p, p - q <= Capacity
      PROVE  Distance(Idx(p), Idx(q)) = p - q
  <2>1. p - q < IndexMod
    BY <1>4, ConstantFacts
  <2> QED  BY <1>4, <2>1, ConstantFacts, ModDifference DEF Idx, Distance
<1>5. ASSUME NEW p \in Nat, NEW q \in Nat, q <= p, p - q <= Capacity
      PROVE  Idx(p) = Idx(q) <=> p = q
  <2>1. p - q < IndexMod
    BY <1>5, ConstantFacts
  <2>2. CASE q < p
    <3>1. p % IndexMod # q % IndexMod
      BY <2>1, <2>2, ConstantFacts, ModInjective, Zenon
    <3> QED  BY <2>2, <3>1 DEF Idx
  <2>3. CASE p = q
    BY <2>3
  <2> QED  BY <1>5, <2>2, <2>3
<1> QED  BY <1>1, <1>2, <1>3, <1>4, <1>5

\* The wake-up epochs pushed_ and popped_ stay within their width.
LEMMA EpochFacts ==
  /\ 0 \in Epoch
  /\ \A e \in Epoch : EpochSucc(e) \in Epoch
BY ConstantFacts, DivMod DEF Epoch, EpochSucc

-----------------------------------------------------------------------------
\* Type correctness: an element in the producer's hands is a real one, which
\* is all that TypeOK needs to be inductive.
LEMMA TypeInit == Init => TypeOK /\ Offered
<1> SUFFICES ASSUME Init PROVE TypeOK /\ Offered
  OBVIOUS
<1>1. 0 \in Index
  BY ConstantFacts DEF Index
<1>2. <<>> \in Seq(Offers) /\ <<>> \in Seq(Offers \cup {Null})
  OBVIOUS
<1>3. slots \in [0..(Capacity - 1) -> Offers \cup {Null}]
  BY DEF Init
<1>4. /\ closed \in BOOLEAN
      /\ kpc \in [Closers -> {"idle", "bump_pushed", "notify_pushed",
                             "bump_popped", "notify_popped", "done"}]
  BY DEF Init
<1>5. item \in 0..MaxOffers /\ at_close \in Nat
  BY ConstantFacts DEF Init
<1> QED  BY <1>1, <1>2, <1>3, <1>4, <1>5, EpochFacts DEF Init, TypeOK, Offered

\* Every step of push(), pop() and close() keeps the types, and an element
\* that push() works on is a real one.
LEMMA TypeStep == TypeOK /\ Offered /\ [Next]_vars => TypeOK' /\ Offered'
<1> SUFFICES ASSUME TypeOK, Offered, [Next]_vars PROVE TypeOK' /\ Offered'
  OBVIOUS
<1> USE DEF TypeOK, Offered
<1>1. CASE PushBegin
  BY <1>1, ConstantFacts DEF PushBegin, consumer, history, Offers
<1>2. CASE PushLoadEpoch
  BY <1>2 DEF PushLoadEpoch, consumer, history
<1>3. CASE PushCheckClosed
  BY <1>3 DEF PushCheckClosed, consumer, history
<1>4. CASE PushReload
  BY <1>4 DEF PushReload, consumer, history
<1>5. CASE PushWrite
  BY <1>5 DEF PushWrite, consumer, history
<1>6. CASE PushPublish
  <2>1. tail' \in Index
    BY <1>6, ConstantFacts, DivMod DEF PushPublish, IndexSucc, Index
  <2>2. sent' \in Seq(Offers)
    BY <1>6 DEF PushPublish
  <2> QED  BY <1>6, <2>1, <2>2 DEF PushPublish, consumer
<1>7. CASE PushBump
  BY <1>7, EpochFacts DEF PushBump, consumer, history
<1>8. CASE PushNotify
  BY <1>8 DEF PushNotify, history, Notified
<1>9. CASE PushWait
  BY <1>9 DEF PushWait, consumer, history
<1>10. CASE PopLoadEpoch
  BY <1>10 DEF PopLoadEpoch, producer, history
<1>11. CASE PopReload
  BY <1>11 DEF PopReload, producer, history
<1>12. CASE PopRead
  <2>0. head \in Nat
    BY ConstantFacts DEF Index
  <2>1. Slot(head) \in 0..(Capacity - 1)
    BY <2>0, SlotFacts
  <2>2. value' \in Offers \cup {Null}
    BY <1>12, <2>1 DEF PopRead
  <2>3. slots' \in [0..(Capacity - 1) -> Offers \cup {Null}]
    BY <1>12 DEF PopRead
  <2> QED  BY <1>12, <2>2, <2>3 DEF PopRead, producer, history
<1>13. CASE PopRelease
  <2>1. head' \in Index
    BY <1>13, ConstantFacts, DivMod DEF PopRelease, IndexSucc, Index
  <2>2. received' \in Seq(Offers \cup {Null})
    BY <1>13 DEF PopRelease
  <2> QED  BY <1>13, <2>1, <2>2 DEF PopRelease, producer
<1>14. CASE PopBump
  BY <1>14, EpochFacts DEF PopBump, producer, history
<1>15. CASE PopNotify
  BY <1>15 DEF PopNotify, history, Notified
<1>16. CASE PopCheckClosed
  BY <1>16 DEF PopCheckClosed, producer, history
<1>17. CASE PopWait
  BY <1>17 DEF PopWait, producer, history
<1>18. ASSUME NEW k \in Closers, CloseStore(k) PROVE TypeOK' /\ Offered'
  <2>1. Len(sent) \in Nat
    OBVIOUS
  <2> QED  BY <1>18, <2>1 DEF CloseStore, consumer
<1>19. ASSUME NEW k \in Closers, CloseBumpPushed(k) PROVE TypeOK' /\ Offered'
  BY <1>19, EpochFacts DEF CloseBumpPushed, producer, consumer, history
<1>20. ASSUME NEW k \in Closers, CloseNotifyPushed(k) PROVE TypeOK' /\ Offered'
  BY <1>20 DEF CloseNotifyPushed, producer, history, Notified
<1>21. ASSUME NEW k \in Closers, CloseBumpPopped(k) PROVE TypeOK' /\ Offered'
  BY <1>21, EpochFacts DEF CloseBumpPopped, producer, consumer, history
<1>22. ASSUME NEW k \in Closers, CloseNotifyPopped(k) PROVE TypeOK' /\ Offered'
  BY <1>22 DEF CloseNotifyPopped, consumer, history, Notified
<1>23. CASE UNCHANGED vars
  BY <1>23 DEF vars, producer, consumer, history
<1> QED
  BY <1>1, <1>2, <1>3, <1>4, <1>5, <1>6, <1>7, <1>8, <1>9, <1>10, <1>11, <1>12,
     <1>13, <1>14, <1>15, <1>16, <1>17, <1>18, <1>19, <1>20, <1>21, <1>22, <1>23
  DEF Next, PushStep, PopStep, CloseStep

\* Every variable of the ring keeps its type: the indices and epochs stay
\* within their width, the slots hold elements or nothing.
THEOREM TypeCorrect == Spec => []TypeOK
<1>1. Init => TypeOK /\ Offered
  BY TypeInit
<1>2. TypeOK /\ Offered /\ [Next]_vars => TypeOK' /\ Offered'
  BY TypeStep
<1> QED  BY <1>1, <1>2, PTL DEF Spec

-----------------------------------------------------------------------------
\* A new ring is empty: nothing is out of place, and nobody has closed it.
LEMMA SafetyInit == Init => Placement /\ Closing
<1> SUFFICES ASSUME Init PROVE Placement /\ Closing
  OBVIOUS
<1>1. /\ sent = <<>> /\ received = <<>>
      /\ Len(sent) = 0 /\ Len(received) = 0
  BY DEF Init
<1>2. Indices
  BY <1>1, IndexFacts, ConstantFacts DEF Init, Indices
<1>3. CachedHead
  BY <1>1, IndexFacts, ConstantFacts DEF Init, CachedHead
<1>4. CachedTail
  BY <1>1, IndexFacts DEF Init, CachedTail
<1>5. Filled
  BY <1>1 DEF Filled
<1>6. Vacant
  <2> SUFFICES ASSUME NEW p \in 0..(0 + Capacity - 1) PROVE slots[Slot(p)] = Null
    BY <1>1 DEF Vacant
  <2>1. p \in Nat
    OBVIOUS
  <2>2. Slot(p) \in 0..(Capacity - 1)
    BY <2>1, SlotFacts
  <2> QED  BY <2>2 DEF Init
<1>7. InProducersHands /\ InConsumersHands /\ FifoDelivery /\ Closing
  BY <1>1 DEF Init, InProducersHands, InConsumersHands, FifoDelivery, Closing
<1> QED  BY <1>2, <1>3, <1>4, <1>5, <1>6, <1>7 DEF Placement

\* Steps that move no element and no index keep everything in its place.
LEMMA QuietStep ==
  ASSUME Placement,
         UNCHANGED <<head, tail, slots, cached_head, cached_tail, value, sent,
                     received>>,
         ppc' = "publish" <=> ppc = "publish",
         ppc = "publish" => item' = item,
         cpc' = "release" <=> cpc = "release"
  PROVE  Placement'
<1>1. Indices'
  BY DEF Placement, Indices
<1>2. CachedHead'
  BY DEF Placement, CachedHead
<1>3. CachedTail'
  BY DEF Placement, CachedTail
<1>4. Filled'
  BY DEF Placement, Filled
<1>5. Vacant'
  BY DEF Placement, Vacant
<1>6. InProducersHands' /\ InConsumersHands' /\ FifoDelivery'
  BY DEF Placement, InProducersHands, InConsumersHands, FifoDelivery
<1> QED  BY <1>1, <1>2, <1>3, <1>4, <1>5, <1>6 DEF Placement

\* What the two comparisons of the code say about unwrapped numbers.
LEMMA Comparisons ==
  ASSUME TypeOK, Indices
  PROVE  /\ Len(sent) \in Nat /\ Len(received) \in Nat
         /\ FullAt(head) <=> Len(sent) = Len(received) + Capacity
         /\ head = tail <=> Len(sent) = Len(received)
         /\ Slot(head) = Slot(Len(received))
         /\ Slot(tail) = Slot(Len(sent))
         /\ \A c \in 0..Len(sent) :
              Len(sent) <= c + Capacity
              => (FullAt(Idx(c)) <=> Len(sent) = c + Capacity)
         /\ \A c \in Len(received)..Len(sent) :
              head = Idx(c) <=> c = Len(received)
<1> DEFINE n == Len(sent)
           m == Len(received)
<1>1. n \in Nat /\ m \in Nat
  BY DEF TypeOK
<1>2. m <= n /\ n <= m + Capacity /\ head = Idx(m) /\ tail = Idx(n)
  BY DEF Indices
<1> HIDE DEF n, m
<1>3. Slot(head) = Slot(m) /\ Slot(tail) = Slot(n)
  BY <1>1, <1>2, SlotFacts
<1>4. ASSUME NEW c \in 0..n, n <= c + Capacity
      PROVE  FullAt(Idx(c)) <=> n = c + Capacity
  <2>1. c \in Nat /\ c <= n /\ n - c <= Capacity
    BY <1>1, <1>4, ConstantFacts
  <2>2. Distance(Idx(n), Idx(c)) = n - c
    BY <1>1, <2>1, IndexFacts
  <2> QED  BY <1>1, <1>2, <2>1, <2>2, ConstantFacts DEF FullAt
<1>5. ASSUME NEW c \in m..n PROVE head = Idx(c) <=> c = m
  <2>1. c \in Nat /\ m <= c /\ c - m <= Capacity
    BY <1>1, <1>2, ConstantFacts
  <2> QED  BY <1>1, <1>2, <2>1, IndexFacts
<1>6. FullAt(head) <=> n = m + Capacity
  BY <1>1, <1>2, <1>4
<1>7. head = tail <=> n = m
  BY <1>1, <1>2, <1>5
<1> QED  BY <1>1, <1>3, <1>4, <1>5, <1>6, <1>7 DEF n, m

-----------------------------------------------------------------------------
(* The six steps that move an element or an index.                           *)

\* try_push(): the reload of cached_head_ brings the view up to date.
LEMMA PushReloadKeeps ==
  ASSUME TypeOK, Placement, PushReload
  PROVE  Placement'
<1> USE DEF Placement
<1>1. /\ UNCHANGED <<head, tail, slots, cached_tail, value, sent, received, cpc>>
      /\ cached_head' = head
      /\ ppc # "publish" /\ ppc' # "publish"
  BY DEF PushReload, consumer, history
<1>2. CachedHead'
  <2>1. Len(received) \in 0..Len(received)
    BY Comparisons
  <2>2. cached_head' = Idx(Len(received)) /\ Len(sent) <= Len(received) + Capacity
    BY <1>1 DEF Indices
  <2> QED  BY <1>1, <2>1, <2>2 DEF CachedHead
<1>3. Indices' /\ CachedTail' /\ Filled' /\ Vacant'
  BY <1>1 DEF Indices, CachedTail, Filled, Vacant
<1>4. InProducersHands' /\ InConsumersHands' /\ FifoDelivery'
  BY <1>1 DEF InProducersHands, InConsumersHands, FifoDelivery
<1> QED  BY <1>2, <1>3, <1>4

\* try_push(): the write fills the slot after the newest element, which was
\* vacant, and touches no other.
LEMMA PushWriteKeeps ==
  ASSUME TypeOK, Placement, PushWrite
  PROVE  Placement'
<1> USE DEF Placement
<1> DEFINE n == Len(sent)
           m == Len(received)
<1>1. /\ UNCHANGED <<head, tail, cached_head, cached_tail, value, sent,
                     received, cpc, item>>
      /\ slots' = [slots EXCEPT ![Slot(tail)] = item]
      /\ ppc = "try" /\ ppc' = "publish"
  BY DEF PushWrite, consumer, history
<1>2. n \in Nat /\ m \in Nat /\ m <= n /\ Slot(tail) = Slot(n) /\ Capacity \in Nat
  BY Comparisons, ConstantFacts DEF Indices
<1>3. PICK c \in 0..m : cached_head = Idx(c) /\ n <= c + Capacity
  BY DEF CachedHead
<1>4. n < c + Capacity
  <2>1. c \in 0..n
    BY <1>2
  <2>2. FullAt(cached_head) <=> n = c + Capacity
    BY <1>3, <2>1, Comparisons
  <2>3. ~FullAt(cached_head)
    BY DEF PushWrite
  <2> QED  BY <1>2, <1>3, <2>2, <2>3
<1>5. CachedHead'
  BY <1>1, <1>3, <1>4 DEF CachedHead
<1>6. n < m + Capacity
  BY <1>2, <1>4
<1>7. ASSUME NEW p \in Nat, p >= m, p < m + Capacity, p # n
      PROVE  slots'[Slot(p)] = slots[Slot(p)]
  <2>1. Slot(p) # Slot(n)
    <3>1. CASE p < n
      <4>1. n - p < Capacity
        BY <1>2, <1>6, <1>7
      <4> QED  BY <1>2, <3>1, <4>1, SlotFacts
    <3>2. CASE n < p
      <4>1. p - n < Capacity
        BY <1>2, <1>6, <1>7
      <4> QED  BY <1>2, <3>2, <4>1, SlotFacts
    <3> QED  BY <1>2, <1>7, <3>1, <3>2
  <2> QED  BY <1>1, <1>2, <2>1
<1>8. Filled'
  <2> SUFFICES ASSUME NEW p \in m..(n - 1), ~(cpc = "release" /\ p = m)
               PROVE  slots'[Slot(p)] = sent[p + 1]
    BY <1>1 DEF Filled
  <2>1. slots[Slot(p)] = sent[p + 1]
    BY DEF Filled
  <2>2. p \in Nat /\ p >= m /\ p < m + Capacity /\ p # n
    BY <1>2, <1>6
  <2> QED  BY <1>7, <2>1, <2>2
<1>9. Vacant'
  <2> SUFFICES ASSUME NEW p \in n..(m + Capacity - 1), p # n
               PROVE  slots'[Slot(p)] = Null
    BY <1>1 DEF Vacant
  <2>1. slots[Slot(p)] = Null
    BY DEF Vacant
  <2>2. p \in Nat /\ p >= m /\ p < m + Capacity
    BY <1>2
  <2> QED  BY <1>7, <2>1, <2>2
<1>10. InProducersHands'
  <2>1. Slot(n) \in 0..(Capacity - 1)
    BY <1>2, SlotFacts
  <2>2. slots'[Slot(n)] = item
    BY <1>1, <1>2, <2>1 DEF TypeOK
  <2> QED  BY <1>1, <2>2 DEF InProducersHands
<1>11. InConsumersHands'
  <2> SUFFICES ASSUME cpc = "release"
               PROVE  slots'[Slot(m)] = Null /\ value = sent[m + 1]
    BY <1>1 DEF InConsumersHands
  <2>1. slots[Slot(m)] = Null /\ value = sent[m + 1]
    BY DEF InConsumersHands
  <2>2. m < n
    BY <1>2 DEF CachedTail
  <2>3. m # n /\ m >= m /\ m < m + Capacity
    BY <1>2, <1>6, <2>2
  <2> QED  BY <1>2, <1>7, <2>1, <2>3
<1>12. Indices' /\ CachedTail' /\ FifoDelivery'
  BY <1>1 DEF Indices, CachedTail, FifoDelivery
<1> QED  BY <1>5, <1>8, <1>9, <1>10, <1>11, <1>12

\* try_push(): the store of tail_ turns the written slot into a filled one.
LEMMA PushPublishKeeps ==
  ASSUME TypeOK, Offered, Placement, PushPublish
  PROVE  Placement'
<1> USE DEF Placement
<1> DEFINE n == Len(sent)
           m == Len(received)
<1>1. /\ UNCHANGED <<head, slots, cached_head, cached_tail, value, received,
                     cpc, item>>
      /\ tail' = IndexSucc(tail) /\ sent' = Append(sent, item)
      /\ ppc = "publish" /\ ppc' = "bump"
  BY DEF PushPublish, consumer
<1>2. /\ n \in Nat /\ m \in Nat /\ m <= n /\ Capacity \in Nat
      /\ tail = Idx(n) /\ head = Idx(m)
  BY Comparisons, ConstantFacts DEF Indices
<1>3. /\ Len(sent') = n + 1 /\ sent'[n + 1] = item
      /\ \A i \in 1..n : sent'[i] = sent[i]
  BY <1>1 DEF TypeOK, Offered
<1>4. PICK c \in 0..m : cached_head = Idx(c) /\ n < c + Capacity
  BY <1>1 DEF CachedHead
<1>5. CachedHead'
  <2>1. n + 1 <= c + Capacity
    BY <1>2, <1>4
  <2> QED  BY <1>1, <1>3, <1>4, <2>1 DEF CachedHead
<1>6. Indices'
  <2>1. tail' = Idx(n + 1)
    BY <1>1, <1>2, IndexFacts
  <2>2. m <= n + 1 /\ n + 1 <= m + Capacity
    BY <1>2, <1>4
  <2> QED  BY <1>1, <1>2, <1>3, <2>1, <2>2 DEF Indices
<1>7. CachedTail'
  <2>1. PICK d \in m..n : cached_tail = Idx(d) /\ (cpc = "release" => m < d)
    BY DEF CachedTail
  <2>2. d \in m..(n + 1)
    BY <1>2, <2>1
  <2> QED  BY <1>1, <1>3, <2>1, <2>2 DEF CachedTail
<1>8. Filled'
  <2> SUFFICES ASSUME NEW p \in m..n, ~(cpc = "release" /\ p = m)
               PROVE  slots[Slot(p)] = sent'[p + 1]
    BY <1>1, <1>2, <1>3 DEF Filled
  <2>1. CASE p = n
    BY <1>1, <1>3, <2>1 DEF InProducersHands
  <2>2. CASE p # n
    <3>1. p \in m..(n - 1) /\ p + 1 \in 1..n
      BY <1>2, <2>2
    <3> QED  BY <1>3, <3>1 DEF Filled
  <2> QED  BY <2>1, <2>2
<1>9. Vacant'
  <2> SUFFICES ASSUME NEW p \in (n + 1)..(m + Capacity - 1)
               PROVE  slots[Slot(p)] = Null
    BY <1>1, <1>3 DEF Vacant
  <2>1. p \in n..(m + Capacity - 1) /\ p # n
    BY <1>2
  <2> QED  BY <2>1 DEF Vacant
<1>10. InConsumersHands'
  <2>1. CASE cpc = "release"
    <3>1. m < n
      BY <1>2, <2>1 DEF CachedTail
    <3>2. m + 1 \in 1..n
      BY <1>2, <3>1
    <3> QED  BY <1>1, <1>3, <3>2 DEF InConsumersHands
  <2>2. CASE cpc # "release"
    BY <1>1, <2>2 DEF InConsumersHands
  <2> QED  BY <2>1, <2>2
<1>11. FifoDelivery'
  BY <1>1, <1>2, <1>3 DEF FifoDelivery
<1>12. InProducersHands'
  BY <1>1 DEF InProducersHands
<1> QED  BY <1>5, <1>6, <1>7, <1>8, <1>9, <1>10, <1>11, <1>12

\* try_pop(): the reload of cached_tail_ brings the view up to date.
LEMMA PopReloadKeeps ==
  ASSUME TypeOK, Placement, PopReload
  PROVE  Placement'
<1> USE DEF Placement
<1>1. /\ UNCHANGED <<head, tail, slots, cached_head, value, sent, received,
                     ppc, item>>
      /\ cached_tail' = tail
      /\ cpc # "release" /\ cpc' # "release"
  BY DEF PopReload, producer, history
<1>2. CachedTail'
  <2>1. Len(sent) \in Len(received)..Len(sent) /\ tail = Idx(Len(sent))
    BY Comparisons DEF Indices
  <2> QED  BY <1>1, <2>1 DEF CachedTail
<1>3. Indices' /\ CachedHead' /\ Filled' /\ Vacant'
  BY <1>1 DEF Indices, CachedHead, Filled, Vacant
<1>4. InProducersHands' /\ InConsumersHands' /\ FifoDelivery'
  BY <1>1 DEF InProducersHands, InConsumersHands, FifoDelivery
<1> QED  BY <1>2, <1>3, <1>4

\* try_pop(): the move takes the oldest element out of its slot.
LEMMA PopReadKeeps ==
  ASSUME TypeOK, Placement, PopRead
  PROVE  Placement'
<1> USE DEF Placement
<1> DEFINE n == Len(sent)
           m == Len(received)
<1>1. /\ UNCHANGED <<head, tail, cached_head, cached_tail, sent, received, ppc,
                     item>>
      /\ value' = slots[Slot(head)]
      /\ slots' = [slots EXCEPT ![Slot(head)] = Null]
      /\ cpc # "release" /\ cpc' = "release"
  BY DEF PopRead, producer, history
<1>2. /\ n \in Nat /\ m \in Nat /\ m <= n /\ Capacity \in Nat
      /\ n <= m + Capacity /\ Slot(head) = Slot(m)
  BY Comparisons, ConstantFacts DEF Indices
<1>3. PICK c \in m..n : cached_tail = Idx(c)
  BY DEF CachedTail
<1>4. m < c /\ m < n
  <2>1. head # cached_tail
    BY DEF PopRead
  <2>2. c # m
    BY <1>3, <2>1, Comparisons
  <2> QED  BY <1>2, <2>2
<1>5. CachedTail'
  BY <1>1, <1>3, <1>4 DEF CachedTail
<1>6. ASSUME NEW p \in Nat, m < p, p < m + Capacity
      PROVE  slots'[Slot(p)] = slots[Slot(p)]
  <2>1. Slot(m) # Slot(p)
    BY <1>2, <1>6, SlotFacts
  <2> QED  BY <1>1, <1>2, <2>1
<1>7. Filled'
  <2> SUFFICES ASSUME NEW p \in m..(n - 1), p # m
               PROVE  slots'[Slot(p)] = sent[p + 1]
    BY <1>1 DEF Filled
  <2>1. slots[Slot(p)] = sent[p + 1]
    BY <1>1 DEF Filled
  <2>2. p \in Nat /\ m < p /\ p < m + Capacity
    BY <1>2
  <2> QED  BY <1>6, <2>1, <2>2
<1>8. Vacant'
  <2> SUFFICES ASSUME NEW p \in n..(m + Capacity - 1),
                      ~(ppc = "publish" /\ p = n)
               PROVE  slots'[Slot(p)] = Null
    BY <1>1 DEF Vacant
  <2>1. slots[Slot(p)] = Null
    BY DEF Vacant
  <2>2. p \in Nat /\ m < p /\ p < m + Capacity
    BY <1>2, <1>4
  <2> QED  BY <1>6, <2>1, <2>2
<1>9. InProducersHands'
  <2> SUFFICES ASSUME ppc = "publish" PROVE slots'[Slot(n)] = item
    BY <1>1 DEF InProducersHands
  <2>1. slots[Slot(n)] = item
    BY DEF InProducersHands
  <2>2. n < m + Capacity
    BY <1>2 DEF CachedHead
  <2> QED  BY <1>2, <1>4, <1>6, <2>1, <2>2
<1>10. InConsumersHands'
  <2>1. Slot(m) \in 0..(Capacity - 1)
    BY <1>2, SlotFacts
  <2>2. slots'[Slot(m)] = Null
    BY <1>1, <1>2, <2>1 DEF TypeOK
  <2>3. m \in m..(n - 1)
    BY <1>2, <1>4
  <2>4. slots[Slot(m)] = sent[m + 1]
    BY <1>1, <2>3 DEF Filled
  <2> QED  BY <1>1, <1>2, <2>2, <2>4 DEF InConsumersHands
<1>11. Indices' /\ CachedHead' /\ FifoDelivery'
  BY <1>1 DEF Indices, CachedHead, FifoDelivery
<1> QED  BY <1>5, <1>7, <1>8, <1>9, <1>10, <1>11

\* try_pop(): the store of head_ turns the emptied slot into a vacant one.
LEMMA PopReleaseKeeps ==
  ASSUME TypeOK, Placement, PopRelease
  PROVE  Placement'
<1> USE DEF Placement
<1> DEFINE n == Len(sent)
           m == Len(received)
<1>1. /\ UNCHANGED <<tail, slots, cached_head, cached_tail, sent, ppc, item>>
      /\ head' = IndexSucc(head) /\ received' = Append(received, value)
      /\ cpc = "release" /\ cpc' = "bump"
  BY DEF PopRelease, producer
<1>2. /\ n \in Nat /\ m \in Nat /\ m <= n /\ n <= m + Capacity
      /\ Capacity \in Nat \ {0} /\ tail = Idx(n) /\ head = Idx(m)
  BY Comparisons, ConstantFacts DEF Indices
<1>3. /\ Len(received') = m + 1 /\ received'[m + 1] = value
      /\ \A i \in 1..m : received'[i] = received[i]
  BY <1>1 DEF TypeOK
<1>4. PICK c \in m..n : cached_tail = Idx(c) /\ m < c
  BY <1>1 DEF CachedTail
<1>5. CachedTail'
  <2>1. c \in (m + 1)..n
    BY <1>2, <1>4
  <2> QED  BY <1>1, <1>3, <1>4, <2>1 DEF CachedTail
<1>6. Indices'
  <2>1. head' = Idx(m + 1)
    BY <1>1, <1>2, IndexFacts
  <2>2. m + 1 <= n /\ n <= m + 1 + Capacity
    BY <1>2, <1>4
  <2> QED  BY <1>1, <1>2, <1>3, <2>1, <2>2 DEF Indices
<1>7. CachedHead'
  <2>1. PICK d \in 0..m : /\ cached_head = Idx(d) /\ n <= d + Capacity
                          /\ ppc = "publish" => n < d + Capacity
    BY DEF CachedHead
  <2>2. d \in 0..(m + 1)
    BY <1>2
  <2> QED  BY <1>1, <1>3, <2>1, <2>2 DEF CachedHead
<1>8. Filled'
  <2> SUFFICES ASSUME NEW p \in (m + 1)..(n - 1)
               PROVE  slots[Slot(p)] = sent[p + 1]
    BY <1>1, <1>3 DEF Filled
  <2>1. p \in m..(n - 1) /\ p # m
    BY <1>2
  <2> QED  BY <2>1 DEF Filled
<1>9. Vacant'
  <2> SUFFICES ASSUME NEW p \in n..(m + Capacity), ~(ppc = "publish" /\ p = n)
               PROVE  slots[Slot(p)] = Null
    BY <1>1, <1>2, <1>3 DEF Vacant
  <2>1. CASE p = m + Capacity
    <3>1. Slot(p) = Slot(m)
      BY <1>2, <2>1, SlotFacts
    <3> QED  BY <1>1, <3>1 DEF InConsumersHands
  <2>2. CASE p # m + Capacity
    <3>1. p \in n..(m + Capacity - 1)
      BY <1>2, <2>2
    <3> QED  BY <3>1 DEF Vacant
  <2> QED  BY <2>1, <2>2
<1>10. FifoDelivery'
  <2>1. value = sent[m + 1]
    BY <1>1 DEF InConsumersHands
  <2>2. m + 1 <= n
    BY <1>2, <1>4
  <2>3. ASSUME NEW i \in 1..(m + 1) PROVE received'[i] = sent[i]
    <3>1. CASE i = m + 1
      BY <1>3, <2>1, <3>1
    <3>2. CASE i # m + 1
      <4>1. i \in 1..m
        BY <1>2, <3>2
      <4> QED  BY <1>3, <4>1 DEF FifoDelivery
    <3> QED  BY <3>1, <3>2
  <2> QED  BY <1>1, <1>3, <2>2, <2>3 DEF FifoDelivery
<1>11. InProducersHands' /\ InConsumersHands'
  BY <1>1 DEF InProducersHands, InConsumersHands
<1> QED  BY <1>5, <1>6, <1>7, <1>8, <1>9, <1>10, <1>11

-----------------------------------------------------------------------------
\* The ring is closed before anybody hears of its end, and at that moment
\* everything published before close() has been popped.
LEMMA ClosingStep == IInv /\ [Next]_vars => Closing'
<1> SUFFICES ASSUME IInv, [Next]_vars PROVE Closing'
  OBVIOUS
<1>1. TypeOK /\ Indices /\ Closing
  BY DEF IInv, Placement
<1>2. /\ Len(sent) \in Nat /\ Len(received) \in Nat /\ at_close \in Nat
      /\ head = tail <=> Len(sent) = Len(received)
  BY <1>1, Comparisons DEF TypeOK
<1> USE DEF Closing
<1>3. CASE PushPublish
  <2>1. Len(sent') = Len(sent) + 1
    BY <1>1, <1>3 DEF PushPublish, TypeOK
  <2> QED  BY <1>1, <1>2, <1>3, <2>1 DEF PushPublish, consumer
<1>4. CASE PopRelease
  <2>1. Len(received') = Len(received) + 1
    BY <1>1, <1>4 DEF PopRelease, TypeOK
  <2> QED  BY <1>1, <1>2, <1>4, <2>1 DEF PopRelease
<1>5. CASE PopReload
  BY <1>1, <1>2, <1>5 DEF PopReload, history
<1>6. CASE PopCheckClosed
  BY <1>1, <1>6 DEF PopCheckClosed, history
<1>7. CASE PushBegin \/ PushLoadEpoch \/ PushCheckClosed \/ PushReload
           \/ PushWrite \/ PushBump \/ PushWait
  BY <1>1, <1>7 DEF PushBegin, PushLoadEpoch, PushCheckClosed, PushReload,
       PushWrite, PushBump, PushWait, consumer, history
<1>8. CASE PushNotify
  BY <1>1, <1>8 DEF PushNotify, Notified, history
<1>9. CASE PopLoadEpoch \/ PopRead \/ PopBump \/ PopNotify \/ PopWait
  BY <1>1, <1>9 DEF PopLoadEpoch, PopRead, PopBump, PopNotify, PopWait, history
<1>10. ASSUME NEW k \in Closers, CloseStore(k) PROVE Closing'
  <2>1. cpc' = cpc /\ sent' = sent /\ received' = received /\ closed' = TRUE
    BY <1>10 DEF CloseStore, consumer
  <2>2. at_close' = IF closed THEN at_close ELSE Len(sent)
    BY <1>10 DEF CloseStore
  <2> QED  BY <1>1, <1>2, <2>1, <2>2
<1>11. ASSUME NEW k \in Closers, CloseStep(k) PROVE Closing'
  BY <1>1, <1>11 DEF CloseStep, CloseBumpPushed, CloseNotifyPushed,
       CloseBumpPopped, CloseNotifyPopped, Notified, consumer, history
<1>12. CASE UNCHANGED vars
  BY <1>1, <1>12 DEF vars, consumer, history
<1> QED
  BY <1>3, <1>4, <1>5, <1>6, <1>7, <1>8, <1>9, <1>10, <1>11, <1>12
  DEF Next, PushStep, PopStep

\* Every step keeps every element where the indices say it is.
LEMMA PlacementStep == IInv /\ [Next]_vars => Placement'
<1> SUFFICES ASSUME IInv, [Next]_vars PROVE Placement'
  OBVIOUS
<1>1. TypeOK /\ Offered /\ Placement
  BY DEF IInv
<1>2. CASE PushReload \/ PushWrite \/ PushPublish
  BY <1>1, <1>2, PushReloadKeeps, PushWriteKeeps, PushPublishKeeps
<1>3. CASE PopReload \/ PopRead \/ PopRelease
  BY <1>1, <1>3, PopReloadKeeps, PopReadKeeps, PopReleaseKeeps
<1>4. CASE PushBegin \/ PushLoadEpoch \/ PushCheckClosed \/ PushBump
           \/ PushNotify \/ PushWait
  <2>1. /\ UNCHANGED <<head, tail, slots, cached_head, cached_tail, value, sent,
                       received>>
        /\ ppc' = "publish" <=> ppc = "publish"
        /\ ppc = "publish" => item' = item
        /\ cpc' = "release" <=> cpc = "release"
    BY <1>4 DEF PushBegin, PushLoadEpoch, PushCheckClosed, PushBump, PushNotify,
         PushWait, Notified, consumer, history
  <2> QED  BY <1>1, <2>1, QuietStep
<1>5. CASE PopLoadEpoch \/ PopBump \/ PopNotify \/ PopCheckClosed \/ PopWait
  <2>1. /\ UNCHANGED <<head, tail, slots, cached_head, cached_tail, value, sent,
                       received>>
        /\ ppc' = "publish" <=> ppc = "publish"
        /\ ppc = "publish" => item' = item
        /\ cpc' = "release" <=> cpc = "release"
    BY <1>5 DEF PopLoadEpoch, PopBump, PopNotify, PopCheckClosed, PopWait,
         Notified, producer, history
  <2> QED  BY <1>1, <2>1, QuietStep
<1>6. ASSUME NEW k \in Closers, CloseStore(k) \/ CloseStep(k) PROVE Placement'
  <2>1. /\ UNCHANGED <<head, tail, slots, cached_head, cached_tail, value, sent,
                       received>>
        /\ ppc' = "publish" <=> ppc = "publish"
        /\ ppc = "publish" => item' = item
        /\ cpc' = "release" <=> cpc = "release"
    BY <1>6 DEF CloseStore, CloseStep, CloseBumpPushed, CloseNotifyPushed,
         CloseBumpPopped, CloseNotifyPopped, Notified, producer, consumer,
         history
  <2> QED  BY <1>1, <2>1, QuietStep
<1>7. CASE UNCHANGED vars
  <2>1. /\ UNCHANGED <<head, tail, slots, cached_head, cached_tail, value, sent,
                       received>>
        /\ ppc' = ppc /\ item' = item /\ cpc' = cpc
    BY <1>7 DEF vars, producer, consumer, history
  <2> QED  BY <1>1, <2>1, QuietStep
<1> QED
  BY <1>2, <1>3, <1>4, <1>5, <1>6, <1>7 DEF Next, PushStep, PopStep

\* The slots that the two threads are about to touch are the right ones.
LEMMA ExclusionFromPlacement == TypeOK /\ Placement => SlotExclusion
<1> SUFFICES ASSUME TypeOK, Placement PROVE SlotExclusion
  OBVIOUS
<1> USE DEF Placement
<1> DEFINE n == Len(sent)
           m == Len(received)
<1>1. /\ n \in Nat /\ m \in Nat /\ m <= n /\ n <= m + Capacity
      /\ Capacity \in Nat \ {0}
      /\ Slot(tail) = Slot(n) /\ Slot(head) = Slot(m)
  BY Comparisons, ConstantFacts DEF Indices
<1>2. ASSUME AboutToWrite PROVE n < m + Capacity /\ slots[Slot(tail)] = Null
  <2>1. PICK c \in 0..m : cached_head = Idx(c) /\ n <= c + Capacity
    BY DEF CachedHead
  <2>2. c \in 0..n
    BY <1>1
  <2>3. n # c + Capacity
    BY <1>2, <2>1, <2>2, Comparisons DEF AboutToWrite
  <2>4. n < m + Capacity
    BY <1>1, <2>1, <2>3
  <2>5. n \in n..(m + Capacity - 1)
    BY <1>1, <2>4
  <2> QED  BY <1>1, <1>2, <2>4, <2>5 DEF Vacant, AboutToWrite
<1>3. ASSUME AboutToRead PROVE m < n /\ slots[Slot(head)] # Null
  <2>1. PICK c \in m..n : cached_tail = Idx(c)
    BY DEF CachedTail
  <2>2. c # m
    BY <1>3, <2>1, Comparisons DEF AboutToRead
  <2>3. m < n
    BY <1>1, <2>2
  <2>4. m \in m..(n - 1) /\ m + 1 \in 1..n
    BY <1>1, <2>3
  <2>5. slots[Slot(m)] = sent[m + 1]
    BY <1>3, <2>4 DEF Filled, AboutToRead
  <2>6. sent[m + 1] \in Offers /\ Null \notin Offers
    BY <2>4, ConstantFacts DEF TypeOK, Offers
  <2> QED  BY <1>1, <2>3, <2>5, <2>6
<1>4. ASSUME AboutToWrite, AboutToRead PROVE Slot(tail) # Slot(head)
  <2>1. m < n /\ n - m < Capacity
    BY <1>1, <1>2, <1>3, <1>4
  <2> QED  BY <1>1, <2>1, SlotFacts
<1> QED  BY <1>2, <1>3, <1>4 DEF SlotExclusion

\* The inductive invariant holds throughout: at every moment of push(), pop()
\* and close() the indices, the cached copies, the slots and the elements in
\* the two threads' hands fit together.
THEOREM Invariance == Spec => []IInv
<1>1. Init => IInv
  BY TypeInit, SafetyInit DEF IInv
<1>2. IInv /\ [Next]_vars => IInv'
  BY TypeStep, PlacementStep, ClosingStep DEF IInv
<1> QED  BY <1>1, <1>2, PTL DEF Spec

\* What is popped is what was pushed, in order, for every capacity and every
\* interleaving of push(), pop() and close().
THEOREM Fifo == Spec => []FifoDelivery
<1>1. IInv => FifoDelivery
  BY DEF IInv, Placement
<1> QED  BY <1>1, Invariance, PTL

\* The unsynchronised accesses to slots_ are exclusive.
THEOREM Exclusion == Spec => []SlotExclusion
<1>1. IInv => SlotExclusion
  BY ExclusionFromPlacement DEF IInv
<1> QED  BY <1>1, Invariance, PTL

\* pop() reports the end only when everything pushed before close() is out.
THEOREM Drained == Spec => []DrainedAtEnd
<1>1. IInv => DrainedAtEnd
  BY DEF IInv, TypeOK, Closing, DrainedAtEnd
<1> QED  BY <1>1, Invariance, PTL

-----------------------------------------------------------------------------
(* SpscRing implements HandOff: each access of the code to shared memory is  *)
(* an operation of the abstract hand-off or invisible to it.  The abstract   *)
(* queue is what was published and not yet released by pop(); the abstract   *)
(* operations happen at the store of tail_ (Insert), the store of head_      *)
(* (Pop), the failed second look at a full ring (Refuse) or at an empty      *)
(* closed one (End), and the load of closed_ in push() (PassClosedCheck).    *)

Queue == SubSeq(sent, Len(received) + 1, Len(sent))
Last == IF sent = <<>> THEN 0 ELSE sent[Len(sent)]
Armed == ppc \in {"try", "publish"}

\* The element that push() works on is newer than all that were published.
Numbered ==
    /\ Last <= item
    /\ ppc \in {"epoch", "closed", "try", "publish", "wait", "parked"}
       => Last < item

-----------------------------------------------------------------------------
\* The contents of the abstract queue: its length, an insertion at its end,
\* a removal from its front.
LEMMA QueueFacts ==
  ASSUME TypeOK, Indices
  PROVE  /\ Len(Queue) = Len(sent) - Len(received)
         /\ Queue = <<>> <=> Len(sent) = Len(received)
         /\ Len(received) < Len(sent)
            => /\ Head(Queue) = sent[Len(received) + 1]
               /\ Tail(Queue) = SubSeq(sent, Len(received) + 2, Len(sent))
<1> DEFINE n == Len(sent)
           m == Len(received)
<1>1. sent \in Seq(Offers) /\ n \in Nat /\ m \in Nat /\ m <= n
  BY DEF TypeOK, Indices
<1>2. \A i \in (m + 1)..n : sent[i] \in Offers
  BY <1>1
<1>3. m + 1 \in Int /\ n \in Int
  BY <1>1
<1>4. /\ Queue \in Seq(Offers)
      /\ Len(Queue) = IF m + 1 <= n THEN n - (m + 1) + 1 ELSE 0
  BY <1>2, <1>3, SubSeqProperties DEF Queue
<1>5. Len(Queue) = n - m
  BY <1>1, <1>4
<1>6. Queue = <<>> <=> n = m
  <2>1. Queue = <<>> => Len(Queue) = 0
    BY EmptySeq
  <2>2. Queue # <<>> => Len(Queue) # 0
    BY <1>4, EmptySeq
  <2> QED  BY <1>1, <1>5, <2>1, <2>2
<1>7. ASSUME m < n
      PROVE  Head(Queue) = sent[m + 1] /\ Tail(Queue) = SubSeq(sent, m + 2, n)
  <2>1. m + 1 \in 1..Len(sent) /\ n \in (m + 1)..Len(sent) /\ (m + 1) + 1 = m + 2
    BY <1>1, <1>7
  <2> QED  BY <1>1, <2>1, HeadTailOfSubSeq DEF Queue
<1> QED  BY <1>5, <1>6, <1>7

\* Publishing an element appends it to the abstract queue.
LEMMA QueueAppend ==
  ASSUME TypeOK, Indices, NEW v \in Offers
  PROVE  LET s == Append(sent, v)
         IN  /\ SubSeq(s, Len(received) + 1, Len(s)) = Append(Queue, v)
             /\ Len(s) = Len(sent) + 1
             /\ s # <<>>
             /\ s[Len(s)] = v
<1> DEFINE n == Len(sent)
           m == Len(received)
           s == Append(sent, v)
           q == SubSeq(s, m + 1, n + 1)
<1>1. sent \in Seq(Offers) /\ n \in Nat /\ m \in Nat /\ m <= n
  BY DEF TypeOK, Indices
<1>2. /\ s \in Seq(Offers) /\ Len(s) = n + 1 /\ s[n + 1] = v /\ s # <<>>
      /\ \A i \in 1..n : s[i] = sent[i]
  BY <1>1
<1>3. /\ \A i \in (m + 1)..(n + 1) : s[i] \in Offers
      /\ \A i \in (m + 1)..n : sent[i] \in Offers
  BY <1>1, <1>2
<1>4. m + 1 \in Int /\ n \in Int /\ n + 1 \in Int
  BY <1>1
<1>5. /\ q \in Seq(Offers)
      /\ Len(q) = n - m + 1
      /\ \A i \in 1..(n - m + 1) : q[i] = s[m + i]
  <2>1. /\ q \in Seq(Offers)
        /\ Len(q) = IF m + 1 <= n + 1 THEN (n + 1) - (m + 1) + 1 ELSE 0
        /\ \A i \in 1..((n + 1) - (m + 1) + 1) : q[i] = s[(m + 1) + i - 1]
    BY <1>3, <1>4, SubSeqProperties
  <2> HIDE DEF q, s
  <2> QED  BY <1>1, <2>1
<1>6. /\ Queue \in Seq(Offers)
      /\ Len(Queue) = n - m
      /\ \A i \in 1..(n - m) : Queue[i] = sent[m + i]
  <2>1. /\ Queue \in Seq(Offers)
        /\ Len(Queue) = IF m + 1 <= n THEN n - (m + 1) + 1 ELSE 0
        /\ \A i \in 1..(n - (m + 1) + 1) : Queue[i] = sent[(m + 1) + i - 1]
    BY <1>3, <1>4, SubSeqProperties DEF Queue
  <2> QED  BY <1>1, <2>1
<1>7. /\ Append(Queue, v) \in Seq(Offers)
      /\ Len(Append(Queue, v)) = n - m + 1
      /\ Append(Queue, v)[n - m + 1] = v
      /\ \A i \in 1..(n - m) : Append(Queue, v)[i] = Queue[i]
  BY <1>1, <1>6
<1>8. \A i \in 1..(n - m + 1) : q[i] = Append(Queue, v)[i]
  <2> HIDE DEF q, s
  <2> TAKE i \in 1..(n - m + 1)
  <2>1. CASE i = n - m + 1
    BY <1>1, <1>2, <1>5, <1>7, <2>1
  <2>2. CASE i # n - m + 1
    <3>1. i \in 1..(n - m) /\ m + i \in 1..n
      BY <1>1, <2>2
    <3> QED  BY <1>2, <1>5, <1>6, <1>7, <3>1
  <2> QED  BY <2>1, <2>2
<1>9. q = Append(Queue, v)
  <2> HIDE DEF q, s
  <2> QED  BY <1>5, <1>7, <1>8, SeqEqual
<1> QED  BY <1>2, <1>9

-----------------------------------------------------------------------------
\* Nothing was published when the producer begins.
LEMMA NumberedInit == Init => Numbered
BY DEF Init, Numbered, Last

\* push() numbers its elements upwards: PushBegin takes a new number, the
\* store of tail_ makes it the newest published one.
LEMMA NumberedStep == IInv /\ Numbered /\ [Next]_vars => Numbered'
<1> SUFFICES ASSUME IInv, Numbered, [Next]_vars PROVE Numbered'
  OBVIOUS
<1>1. TypeOK /\ Offered /\ Indices
  BY DEF IInv, Placement
<1>2. item \in Nat /\ Last \in Nat
  <2>1. item \in Nat /\ sent \in Seq(Offers)
    BY <1>1, ConstantFacts DEF TypeOK
  <2>2. sent # <<>> => sent[Len(sent)] \in Offers
    BY <2>1, EmptySeq, ElementOfSeq
  <2> QED  BY <2>1, <2>2 DEF Last, Offers
<1>3. CASE PushBegin
  <2>1. Last' = Last /\ item' = item + 1
    BY <1>3 DEF PushBegin, Last, history
  <2> QED  BY <1>2, <2>1 DEF Numbered
<1>4. CASE PushPublish
  <2>1. item \in Offers
    BY <1>1, <1>4 DEF Offered, PushPublish
  <2>2. Last' = item /\ item' = item /\ ppc' = "bump"
    BY <1>1, <1>4, <2>1, QueueAppend DEF PushPublish, Last
  <2> QED  BY <1>2, <2>2 DEF Numbered
<1>5. CASE PushLoadEpoch \/ PushCheckClosed \/ PushReload \/ PushWrite
           \/ PushBump \/ PushNotify \/ PushWait
  BY <1>5 DEF Numbered, Last, PushLoadEpoch, PushCheckClosed, PushReload,
       PushWrite, PushBump, PushNotify, PushWait, history
<1>6. CASE PopLoadEpoch \/ PopReload \/ PopRead \/ PopRelease \/ PopBump
           \/ PopNotify \/ PopCheckClosed \/ PopWait
  BY <1>6 DEF Numbered, Last, PopLoadEpoch, PopReload, PopRead, PopRelease,
       PopBump, PopNotify, PopCheckClosed, PopWait, Notified, producer, history
<1>7. ASSUME NEW k \in Closers, CloseStore(k) \/ CloseStep(k)
      PROVE  Numbered'
  BY <1>7 DEF Numbered, Last, CloseStore, CloseStep, CloseBumpPushed,
       CloseNotifyPushed, CloseBumpPopped, CloseNotifyPopped, Notified,
       producer, history
<1>8. CASE UNCHANGED vars
  BY <1>8 DEF Numbered, Last, vars, producer, history
<1> QED
  BY <1>3, <1>4, <1>5, <1>6, <1>7, <1>8 DEF Next, PushStep, PopStep

-----------------------------------------------------------------------------
\* A new ring is a new hand-off.
LEMMA InitMaps == Init => Ring!Init
<1> SUFFICES ASSUME Init PROVE Ring!Init
  OBVIOUS
<1>1. /\ policy \in Policies /\ closed = FALSE
      /\ ~Armed /\ cpc # "ended"
      /\ sent = <<>> /\ received = <<>>
  BY DEF Init, Armed
<1>2. Len(sent) = 0 /\ Len(received) = 0
  BY <1>1, EmptySeq
<1>3. SubSeq(sent, Len(received) + 1, Len(sent)) = <<>>
  BY <1>2, SubSeqEmpty
<1> QED  BY <1>1, <1>3 DEF Ring!Init, Armed

\* A step that publishes, releases and decides nothing is invisible.
LEMMA Invisible ==
  ASSUME UNCHANGED <<policy, sent, received, closed>>,
         Armed' <=> Armed,
         cpc' = "ended" <=> cpc = "ended"
  PROVE  UNCHANGED Ring!vars
BY DEF Ring!vars, Armed

\* Every access of push(), pop() and close() to shared memory is an operation
\* of the abstract hand-off, or invisible.
LEMMA StepMaps ==
  IInv /\ Numbered /\ [Next]_vars => [Ring!Next]_(Ring!vars)
<1> SUFFICES ASSUME IInv, Numbered, [Next]_vars
             PROVE  Ring!Next \/ UNCHANGED Ring!vars
  OBVIOUS
<1>1. TypeOK /\ Offered /\ Placement /\ Indices /\ Closing
  BY DEF IInv, Placement
<1>2. policy # "latest"
  BY <1>1, SpscRingAssumption DEF TypeOK
<1>3. CASE PushCheckClosed
  <2>1. CASE closed
    BY <1>3, <2>1, Invisible DEF PushCheckClosed, Armed, consumer, history
  <2>2. CASE ~closed
    <3>1. Ring!PassClosedCheck
      BY <1>3, <2>2
      DEF PushCheckClosed, Ring!PassClosedCheck, consumer, history
    <3> QED  BY <3>1 DEF Ring!Next
  <2> QED  BY <2>1, <2>2
<1>4. CASE PushReload
  <2>1. CASE ~FullAt(head)
    BY <1>4, <2>1, Invisible DEF PushReload, Armed, consumer, history
  <2>2. CASE FullAt(head)
    <3>1. Len(Queue) = Capacity
      BY <1>1, <2>2, QueueFacts, Comparisons, ConstantFacts
    <3>2. Ring!Refuse
      BY <1>2, <1>4, <2>2, <3>1
      DEF PushReload, Ring!Refuse, Ring!Full, Queue, consumer, history
    <3> QED  BY <3>2 DEF Ring!Next
  <2> QED  BY <2>1, <2>2
<1>5. CASE PushPublish
  <2>1. item \in Offers
    BY <1>1, <1>5 DEF Offered, PushPublish
  <2>2. Len(Queue) # Capacity
    <3>1. PICK c \in 0..Len(received) :
            Len(sent) < c + Capacity
      BY <1>1, <1>5 DEF Placement, CachedHead, PushPublish
    <3>2. Len(sent) < Len(received) + Capacity
      BY <1>1, <3>1, Comparisons, ConstantFacts
    <3> QED  BY <1>1, <3>2, QueueFacts, Comparisons, ConstantFacts
  <2>3. Last < item
    BY <1>5 DEF Numbered, PushPublish
  <2>4. sent' = Append(sent, item) /\ received' = received
    BY <1>5 DEF PushPublish
  <2>5. Queue' = Append(Queue, item) /\ Last' = item
    BY <1>1, <2>1, <2>4, QueueAppend DEF Queue, Last
  <2>6. ~Ring!Full(policy, Capacity, Queue)
    BY <1>2, <2>2 DEF Ring!Full
  <2>7. Ring!Inserted(policy, Queue, item) = Append(Queue, item)
    BY <1>2 DEF Ring!Inserted
  <2>8. /\ Armed /\ ~Armed' /\ UNCHANGED <<policy, closed, received>>
        /\ (cpc = "ended")' = (cpc = "ended")
    BY <1>5 DEF PushPublish, Armed, consumer
  <2>9. Last < item => item > Last
    BY DEF Last
  <2>10. Ring!Insert(item)
    BY <2>3, <2>5, <2>6, <2>7, <2>8, <2>9 DEF Ring!Insert, Queue, Last, Armed
  <2> QED  BY <2>1, <2>10 DEF Ring!Next
<1>6. CASE PopReload
  <2>1. CASE head = tail /\ cpc = "final"
    <3>1. Queue = <<>>
      BY <1>1, <2>1, QueueFacts, Comparisons
    <3>2. closed
      BY <1>1, <2>1 DEF Closing
    <3>3. Ring!End
      BY <1>6, <2>1, <3>1, <3>2
      DEF PopReload, Ring!End, Queue, producer, history
    <3> QED  BY <3>3 DEF Ring!Next
  <2>2. CASE ~(head = tail /\ cpc = "final")
    BY <1>6, <2>2, Invisible DEF PopReload, Armed, producer, history
  <2> QED  BY <2>1, <2>2
<1>7. CASE PopRelease
  <2>1. Len(received) < Len(sent) /\ value = sent[Len(received) + 1]
    <3>1. PICK c \in Len(received)..Len(sent) : Len(received) < c
      BY <1>1, <1>7 DEF Placement, CachedTail, PopRelease
    <3> QED
      BY <1>1, <1>7, <3>1, Comparisons
      DEF Placement, InConsumersHands, PopRelease
  <2>2. Queue # <<>> /\ Head(Queue) = value
    BY <1>1, <2>1, QueueFacts, Comparisons
  <2>3. sent' = sent /\ Len(received') = Len(received) + 1
    BY <1>1, <1>7 DEF PopRelease, TypeOK
  <2>4. Queue' = Tail(Queue)
    <3>1. Len(received') + 1 = Len(received) + 2
      BY <1>1, <2>3, Comparisons
    <3> QED  BY <1>1, <2>1, <2>3, <3>1, QueueFacts DEF Queue
  <2>5. Ring!Pop
    BY <1>7, <2>2, <2>3, <2>4 DEF PopRelease, Ring!Pop, Queue, producer
  <2> QED  BY <2>5 DEF Ring!Next
<1>8. CASE PushBegin \/ PushLoadEpoch \/ PushWrite \/ PushBump \/ PushNotify
           \/ PushWait
  BY <1>8, Invisible
  DEF PushBegin, PushLoadEpoch, PushWrite, PushBump, PushNotify, PushWait,
      Notified, Armed, consumer, history
<1>9. CASE PopLoadEpoch \/ PopRead \/ PopBump \/ PopNotify \/ PopCheckClosed
           \/ PopWait
  BY <1>9, Invisible
  DEF PopLoadEpoch, PopRead, PopBump, PopNotify, PopCheckClosed, PopWait,
      Notified, Armed, producer, history
<1>10. ASSUME NEW k \in Closers, CloseStore(k) PROVE Ring!Next
  <2>1. Ring!Close
    BY <1>10 DEF CloseStore, Ring!Close, consumer
  <2> QED  BY <2>1 DEF Ring!Next
<1>11. ASSUME NEW k \in Closers, CloseStep(k) PROVE UNCHANGED Ring!vars
  BY <1>11, Invisible
  DEF CloseStep, CloseBumpPushed, CloseNotifyPushed, CloseBumpPopped,
      CloseNotifyPopped, Notified, Armed, producer, consumer, history
<1>12. CASE UNCHANGED vars
  BY <1>12, Invisible DEF vars, Armed, producer, consumer, history
<1> QED
  BY <1>3, <1>4, <1>5, <1>6, <1>7, <1>8, <1>9, <1>10, <1>11, <1>12
  DEF Next, PushStep, PopStep

\* The ring implements the hand-off that the pipeline is built on: every
\* behaviour of push(), pop() and close() is one of HandOff.
THEOREM Implementation == Spec => ImplementsHandOff
<1>1. Init => Numbered /\ Ring!Init
  BY NumberedInit, InitMaps
<1>2. IInv /\ Numbered /\ [Next]_vars => Numbered'
  BY NumberedStep
<1>3. IInv /\ Numbered /\ [Next]_vars => [Ring!Next]_(Ring!vars)
  BY StepMaps
<1> QED
  BY <1>1, <1>2, <1>3, Invariance, PTL DEF Spec, ImplementsHandOff, Ring!Spec
=============================================================================
