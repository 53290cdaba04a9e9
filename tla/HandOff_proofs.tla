--------------------------- MODULE HandOff_proofs ---------------------------
(***************************************************************************)
(* The promise of a hand-off holds for every policy, capacity and set of   *)
(* elements.  Order needs one more fact than it states: nothing that is or *)
(* was in the hand-off is newer than `last'.                               *)
(***************************************************************************)
EXTENDS HandOff, TLAPS

NothingNewer ==
    /\ \A i \in 1..Len(queue) : queue[i] <= last
    /\ \A i \in 1..Len(popped) : popped[i] <= last

Ordered == InOrder /\ NothingNewer

\* There is always room for one element, and for Capacity of them in a ring.
LEMMA RoomFacts ==
  /\ Room \in Nat \ {0}
  /\ policy # "latest" => Room = Capacity
  /\ policy' = policy => Room' = Room
BY HandOffAssumption DEF Room

\* A new hand-off has the right types: it is open and holds nothing.
LEMMA TypeInit == Init => TypeOK
<1> SUFFICES ASSUME Init PROVE TypeOK
  OBVIOUS
<1>1. /\ queue \in Seq(Items) /\ popped \in Seq(Items)
      /\ Len(queue) = 0
  BY DEF Init
<1>2. Len(queue) <= Room  BY <1>1, RoomFacts
<1> QED  BY <1>1, <1>2 DEF Init, TypeOK

\* No operation of HandOff breaks the types; push() never exceeds the room.
LEMMA TypeStep == TypeOK /\ [Next]_vars => TypeOK'
<1> SUFFICES ASSUME TypeOK, [Next]_vars PROVE TypeOK'
  OBVIOUS
<1> USE DEF TypeOK
<1>0. policy' = policy /\ Room' = Room
  BY RoomFacts
  DEF Next, vars, PassClosedCheck, Insert, Refuse, Pop, End, Close
<1>1. ASSUME NEW v \in Items, Insert(v) PROVE TypeOK'
  <2>1. queue' \in Seq(Items) /\ Len(queue') <= Room
    <3>1. CASE policy = "latest"
      <4>1. queue' = <<v>>  BY <1>1, <3>1 DEF Insert, Inserted
      <4>2. queue' \in Seq(Items) /\ Len(queue') = 1  BY <4>1
      <4> QED  BY <4>2, RoomFacts
    <3>2. CASE policy # "latest"
      <4>1. queue' = Append(queue, v)  BY <1>1, <3>2 DEF Insert, Inserted
      <4>2. Len(queue) # Capacity  BY <1>1, <3>2 DEF Insert, Full
      <4>3. queue' \in Seq(Items) /\ Len(queue') = Len(queue) + 1
        BY <4>1
      <4>4. Len(queue) \in Nat  OBVIOUS
      <4> QED  BY <3>2, <4>2, <4>3, <4>4, RoomFacts
    <3> QED  BY <3>1, <3>2
  <2> QED  BY <1>0, <1>1, <2>1 DEF Insert
<1>2. CASE Pop
  <2>1. queue \in Seq(Items) /\ queue # <<>>  BY <1>2 DEF Pop
  <2>2. /\ Tail(queue) \in Seq(Items) /\ Len(Tail(queue)) = Len(queue) - 1
        /\ Head(queue) \in Items /\ Len(queue) \in Nat
    BY <2>1
  <2>3. popped' \in Seq(Items)  BY <1>2, <2>2 DEF Pop
  <2>4. Len(queue') <= Room  BY <1>2, <2>2, RoomFacts DEF Pop
  <2> QED  BY <1>0, <1>2, <2>2, <2>3, <2>4 DEF Pop
<1>3. CASE PassClosedCheck \/ Refuse \/ End \/ Close \/ UNCHANGED vars
  <2>1. UNCHANGED <<queue, last, popped>>
    BY <1>3 DEF PassClosedCheck, Refuse, End, Close, vars
  <2>2. closed' \in BOOLEAN /\ armed' \in BOOLEAN /\ ended' \in BOOLEAN
    BY <1>3 DEF PassClosedCheck, Refuse, End, Close, vars
  <2> QED  BY <1>0, <2>1, <2>2
<1> QED  BY <1>1, <1>2, <1>3 DEF Next

\* A hand-off keeps its types; in particular push() never puts more elements
\* into it than it has room for.
THEOREM TypeCorrect == Spec => []TypeOK
<1>1. Init => TypeOK  BY TypeInit
<1>2. TypeOK /\ [Next]_vars => TypeOK'  BY TypeStep
<1> QED  BY <1>1, <1>2, PTL DEF Spec

\* A consumer that has seen the end meets at most one more insertion: the push
\* that had already looked at the closed flag.
LEMMA StrandedStep ==
  TypeOK /\ StrandedAtMostOne /\ [Next]_vars => StrandedAtMostOne'
<1> SUFFICES ASSUME TypeOK, StrandedAtMostOne, [Next]_vars
             PROVE  StrandedAtMostOne'
  OBVIOUS
<1> USE DEF TypeOK, StrandedAtMostOne
<1>1. CASE PassClosedCheck  BY <1>1 DEF PassClosedCheck
<1>2. ASSUME NEW v \in Items, Insert(v) PROVE StrandedAtMostOne'
  <2>1. ended => queue = <<>>  BY <1>2 DEF Insert
  <2>2. queue = <<>> => queue' = <<v>>
    BY <1>2 DEF Insert, Inserted
  <2>3. queue = <<>> => Len(queue') = 1  BY <2>2
  <2>4. ended' = ended /\ closed' = closed /\ ~armed'  BY <1>2 DEF Insert
  <2>5. ended => Len(queue') <= 1  BY <2>1, <2>3
  <2> QED  BY <2>4, <2>5
<1>3. CASE Refuse  BY <1>3 DEF Refuse
<1>4. CASE Pop
  <2>1. queue \in Seq(Items) /\ queue # <<>>  BY <1>4 DEF Pop
  <2>2. Len(Tail(queue)) = Len(queue) - 1 /\ Len(queue) \in Nat  BY <2>1
  <2> QED  BY <1>4, <2>2 DEF Pop
<1>5. CASE End
  <2>1. Len(queue) = 0  BY <1>5 DEF End
  <2> QED  BY <1>5, <2>1 DEF End
<1>6. CASE Close  BY <1>6 DEF Close
<1>7. CASE UNCHANGED vars  BY <1>7 DEF vars
<1> QED  BY <1>1, <1>2, <1>3, <1>4, <1>5, <1>6, <1>7 DEF Next

\* However push(), pop() and close() interleave, at most one element is left
\* behind in a closed hand-off, and only by a push that raced with close().
THEOREM Stranded == Spec => []StrandedAtMostOne
<1>1. Init => StrandedAtMostOne  BY DEF Init, StrandedAtMostOne
<1>2. TypeOK /\ StrandedAtMostOne /\ [Next]_vars => StrandedAtMostOne'
  BY StrandedStep
<1> QED  BY <1>1, <1>2, TypeCorrect, PTL DEF Spec

\* An insertion adds the newest element at the end, a pop moves the oldest one
\* to the end of what was popped.
LEMMA OrderStep == TypeOK /\ TypeOK' /\ Ordered /\ [Next]_vars => Ordered'
<1> SUFFICES ASSUME TypeOK, TypeOK', Ordered, [Next]_vars PROVE Ordered'
  OBVIOUS
<1> USE DEF Ordered, InOrder, NothingNewer
<1>0. /\ \A i \in 1..Len(queue) : queue[i] \in Nat
      /\ \A i \in 1..Len(popped) : popped[i] \in Nat
      /\ last \in Nat /\ Items \subseteq Nat
      /\ queue \in Seq(Items) /\ popped \in Seq(Items)
      /\ Len(queue) \in Nat /\ Len(popped) \in Nat
  <2>1. Items \subseteq Nat  BY HandOffAssumption
  <2>2. queue \in Seq(Items) /\ popped \in Seq(Items)  BY DEF TypeOK
  <2>3. /\ \A i \in 1..Len(queue) : queue[i] \in Items
        /\ \A i \in 1..Len(popped) : popped[i] \in Items
        /\ Len(queue) \in Nat /\ Len(popped) \in Nat
    BY <2>2
  <2>4. last \in Nat  BY <2>1 DEF TypeOK
  <2> QED  BY <2>1, <2>2, <2>3, <2>4
<1>1. ASSUME NEW v \in Items, Insert(v) PROVE Ordered'
  <2>1. /\ popped' = popped /\ last' = v /\ v > last
        /\ v \in Nat /\ last \in Nat
    BY <1>0, <1>1 DEF Insert
  <2>2. /\ \A i \in 1..Len(queue) : queue[i] \in Nat
        /\ \A i \in 1..Len(popped) : popped[i] \in Nat
    BY <1>0
  <2>3. CASE policy = "latest"
    <3>1. queue' = <<v>>  BY <1>1, <2>3 DEF Insert, Inserted
    <3> QED  BY <2>1, <2>2, <3>1
  <2>4. CASE policy # "latest"
    <3>1. queue' = Append(queue, v)  BY <1>1, <2>4 DEF Insert, Inserted
    <3>2. /\ Len(queue') = Len(queue) + 1
          /\ queue'[Len(queue) + 1] = v
          /\ \A i \in 1..Len(queue) : queue'[i] = queue[i]
      BY <1>0, <3>1
    <3>3. \A i \in 1..Len(queue') : i \in 1..Len(queue) \/ i = Len(queue) + 1
      BY <3>2
    <3>4. \A i, j \in 1..Len(queue') : i < j => queue'[i] < queue'[j]
      BY <2>1, <2>2, <3>2, <3>3
    <3>5. \A i \in 1..Len(popped), j \in 1..Len(queue') : popped[i] < queue'[j]
      BY <2>1, <2>2, <3>2, <3>3
    <3>6. \A i \in 1..Len(queue') : queue'[i] <= v
      BY <2>1, <2>2, <3>2, <3>3
    <3>7. \A i \in 1..Len(popped) : popped[i] <= v
      BY <2>1, <2>2
    <3> QED  BY <2>1, <3>4, <3>5, <3>6, <3>7
  <2> QED  BY <2>3, <2>4
<1>2. CASE Pop
  <2>0. PICK h \in Nat : h = queue[1] /\ queue # <<>>
    BY <1>0, <1>2 DEF Pop
  <2>1. /\ last' = last /\ Len(queue) >= 1
        /\ queue' = Tail(queue) /\ popped' = Append(popped, h)
    BY <1>0, <1>2, <2>0 DEF Pop
  <2>2. /\ Len(queue') = Len(queue) - 1
        /\ \A i \in 1..Len(queue') : queue'[i] = queue[i + 1]
    BY <1>0, <2>0, <2>1
  <2>3. /\ Len(popped') = Len(popped) + 1
        /\ popped'[Len(popped) + 1] = h
        /\ \A i \in 1..Len(popped) : popped'[i] = popped[i]
    BY <1>0, <2>1
  <2>4. \A i \in 1..Len(popped') : i \in 1..Len(popped) \/ i = Len(popped) + 1
    BY <1>0, <2>3
  <2>5. /\ \A i \in 1..Len(queue') : i + 1 \in 1..Len(queue) /\ i + 1 > 1
        /\ 1 \in 1..Len(queue)
    BY <1>0, <2>1, <2>2
  <2>6. \A i \in 1..Len(popped) : popped[i] < h
    BY <2>0, <2>5
  <2>7. \A i \in 1..Len(queue') : h < queue'[i]
    BY <2>0, <2>2, <2>5
  <2>8. \A i, j \in 1..Len(popped') : i < j => popped'[i] < popped'[j]
    <3> SUFFICES ASSUME NEW i \in 1..Len(popped'), NEW j \in 1..Len(popped'),
                        i < j
                 PROVE  popped'[i] < popped'[j]
      OBVIOUS
    <3>1. i \in 1..Len(popped)  BY <1>0, <2>3
    <3> QED  BY <2>3, <2>4, <2>6, <3>1
  <2>9. \A i \in 1..Len(popped'), j \in 1..Len(queue') : popped'[i] < queue'[j]
    BY <2>2, <2>3, <2>4, <2>5, <2>7
  <2>10. \A i, j \in 1..Len(queue') : i < j => queue'[i] < queue'[j]
    <3> SUFFICES ASSUME NEW i \in 1..Len(queue'), NEW j \in 1..Len(queue'),
                        i < j
                 PROVE  queue'[i] < queue'[j]
      OBVIOUS
    <3>1. i + 1 < j + 1  OBVIOUS
    <3> QED  BY <2>2, <2>5, <3>1
  <2>11. \A i \in 1..Len(queue') : queue'[i] <= last  BY <2>2, <2>5
  <2>12. \A i \in 1..Len(popped') : popped'[i] <= last
    BY <2>0, <2>3, <2>4, <2>5
  <2> QED  BY <2>1, <2>8, <2>9, <2>10, <2>11, <2>12
<1>3. CASE UNCHANGED <<queue, last, popped>>  BY <1>3
<1>4. PassClosedCheck \/ Refuse \/ End \/ Close \/ UNCHANGED vars
      => UNCHANGED <<queue, last, popped>>
  BY DEF PassClosedCheck, Refuse, End, Close, vars
<1> QED  BY <1>1, <1>2, <1>3, <1>4 DEF Next

\* Elements come out of pop() in the order in which push() put them in, under
\* every policy, also when a mailbox skips some.
THEOREM Order == Spec => []InOrder
<1>1. Init => Ordered
  BY DEF Init, Ordered, InOrder, NothingNewer
<1>2. TypeOK /\ TypeOK' /\ Ordered /\ [Next]_vars => Ordered'  BY OrderStep
<1>3. Ordered => InOrder  BY DEF Ordered
<1> QED  BY <1>1, <1>2, <1>3, TypeCorrect, PTL DEF Spec
=============================================================================
