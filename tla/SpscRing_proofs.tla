--------------------------- MODULE SpscRing_proofs ---------------------------
(***************************************************************************)
(* The ring's safety for every capacity, item set and counter width.       *)
(***************************************************************************)
EXTENDS SpscRing, SequenceTheorems, TLAPS

\* What the producer knows of the free space and the consumer of the unread
\* items: a missed store only makes each side more careful.
Room ==
    /\ Used(head, tail) + pLag <= Capacity - 1
    /\ cLag <= Used(head, tail)
    /\ ppc \in {"write", "publish"} => Used(head, tail) + pLag <= Capacity - 2
    /\ cpc \in {"take", "advance"} => cLag < Used(head, tail)

\* The slots that hold an item: those from tail up to head, without the one
\* already taken and with the one written and not yet published.
Holds(i) ==
    \/ Used(i, tail) < Used(head, tail) /\ ~ (i = tail /\ cpc = "advance")
    \/ i = head /\ ppc = "publish"

Occupied == \A i \in Slots : buffer[i] # NoItem <=> Holds(i)

Pending == ppc \in {"load", "full", "write", "publish"} => item \in Items

IndInv == TypeOK /\ Room /\ Occupied /\ Pending

-----------------------------------------------------------------------------
\* The masked increment of an index, as a case distinction.
LEMMA SuccLemma ==
    ASSUME NEW i \in Slots
    PROVE  /\ Succ(i) = IF i = Capacity - 1 THEN 0 ELSE i + 1
           /\ Succ(i) \in Slots
  BY CapacityAssumption, SMT DEF Succ, Slots

\* A wrapped counter stays in its range.
LEMMA CountLemma ==
    ASSUME NEW c \in 0 .. CounterMod - 1
    PROVE  Count(c) \in 0 .. CounterMod - 1
  BY CounterAssumption, SMT DEF Count

\* What the index arithmetic computes: the occupancy is in range, zero
\* exactly when the indexes are equal, and moves by one with each store.
LEMMA UsedLemma ==
    ASSUME NEW h \in Slots, NEW t \in Slots
    PROVE  /\ Used(h, t) \in 0 .. Capacity - 1
           /\ Used(h, t) = 0 <=> h = t
           /\ Used(h, t) < Capacity - 1 => Used(Succ(h), t) = Used(h, t) + 1
           /\ Used(h, Succ(t)) = IF h = t THEN Capacity - 1
                                          ELSE Used(h, t) - 1
  BY SuccLemma, CapacityAssumption DEF Used, Slots

\* Distinct slots are at distinct distances from tail.
LEMMA UsedInjective ==
    ASSUME NEW i \in Slots, NEW j \in Slots, NEW t \in Slots,
           Used(i, t) = Used(j, t)
    PROVE  i = j
  BY CapacityAssumption DEF Used, Slots

\* The full test of try_push on a tail it read lag stores ago.
LEMMA FullTest ==
    ASSUME NEW h \in Slots, NEW t \in Slots, NEW lag \in Nat,
           Used(h, t) + lag <= Capacity - 1
    PROVE  Succ(h) = Back(t, lag) <=> Used(h, t) + lag = Capacity - 1
  BY SuccLemma, CapacityAssumption DEF Used, Back, Slots

\* The empty test of try_pop on a head it read lag stores ago.
LEMMA EmptyTest ==
    ASSUME NEW h \in Slots, NEW t \in Slots, NEW lag \in Nat,
           lag <= Used(h, t)
    PROVE  t = Back(h, lag) <=> lag = Used(h, t)
  BY CapacityAssumption DEF Used, Back, Slots

-----------------------------------------------------------------------------
\* The indexes, the missed stores and the occupied slots agree in every
\* reachable state.
THEOREM IndInvHolds == Spec => []IndInv
<1>1. Init => IndInv
  <2> SUFFICES ASSUME Init PROVE IndInv
    OBVIOUS
  <2> USE CapacityAssumption, ItemsAssumption, CounterAssumption DEF Init
  <2>1. TypeOK
    <3>1. 0 \in Slots /\ 0 \in 0 .. CounterMod - 1
      BY DEF Slots
    <3> QED
      BY <3>1 DEF TypeOK
  <2>2. Room
    BY DEF Room, Used
  <2>3. Occupied
    BY DEF Occupied, Holds, Used, Slots
  <2>4. Pending
    BY DEF Pending
  <2> QED
    BY <2>1, <2>2, <2>3, <2>4 DEF IndInv
<1>2. IndInv /\ [Next]_vars => IndInv'
  <2> SUFFICES ASSUME IndInv, [Next]_vars PROVE IndInv'
    OBVIOUS
  <2>0. /\ TypeOK /\ Room /\ Occupied /\ Pending
        /\ head \in Slots /\ tail \in Slots /\ pLag \in Nat /\ cLag \in Nat
        /\ buffer \in [Slots -> Items \cup {NoItem}]
        /\ NoItem \notin Items
    BY ItemsAssumption DEF IndInv, TypeOK
  <2> USE <2>0, CapacityAssumption
  <2>1. Used(head, tail) \in 0 .. Capacity - 1
    BY UsedLemma
  <2> USE <2>1
  <2>2. ASSUME NEW x \in Items, PushCall(x) PROVE IndInv'
    BY <2>2 DEF PushCall, IndInv, TypeOK, Room, Occupied, Holds, Pending,
                consumerVars, counters, resetVars, Used
  <2>3. ASSUME NEW lag \in 0 .. pLag, PushLoad(lag) PROVE IndInv'
    <3>1. Succ(head) = Back(tail, lag) <=> Used(head, tail) + lag = Capacity - 1
      BY <2>3, FullTest DEF Room
    <3>2. TypeOK'
      BY <2>3 DEF PushLoad, TypeOK, consumerVars, counters, resetVars
    <3>3. Used(head, tail)' = Used(head, tail)
      BY <2>3 DEF PushLoad, Used
    <3>4. Room'
      BY <2>3, <3>1, <3>3 DEF PushLoad, Room, consumerVars
    <3>5. Occupied' /\ Pending'
      BY <2>3 DEF PushLoad, Occupied, Holds, Pending, consumerVars, Used
    <3> QED
      BY <3>2, <3>4, <3>5 DEF IndInv
  <2>4. CASE PushDrop
    <3>1. dropped' \in 0 .. CounterMod - 1
      BY <2>4, CountLemma DEF PushDrop, TypeOK
    <3>2. TypeOK'
      BY <2>4, <3>1 DEF PushDrop, TypeOK, consumerVars, resetVars
    <3> QED
      BY <2>4, <3>2 DEF PushDrop, IndInv, Room, Occupied, Holds, Pending,
                consumerVars, Used
  <2>5. CASE PushWrite
    <3>1. TypeOK' /\ Pending' /\ item \in Items
      BY <2>5 DEF PushWrite, TypeOK, Pending, consumerVars, counters, resetVars
    <3>2. Room'
      BY <2>5 DEF PushWrite, Room, consumerVars, Used
    <3>3. ASSUME NEW i \in Slots PROVE (buffer'[i] # NoItem) <=> Holds(i)'
      <4>1. CASE i = head
        BY <2>5, <3>1, <4>1 DEF PushWrite, Holds
      <4>2. CASE i # head
        BY <2>5, <4>2 DEF PushWrite, Occupied, Holds, consumerVars, Used
      <4> QED
        BY <4>1, <4>2
    <3> QED
      BY <3>1, <3>2, <3>3 DEF IndInv, Occupied
  <2>6. CASE PushPublish
    <3>1. head' \in Slots /\ Used(head, tail)' = Used(head, tail) + 1
      BY <2>6, UsedLemma, SuccLemma DEF PushPublish, Room, Used
    <3>2. TypeOK' /\ Pending'
      BY <2>6, <3>1 DEF PushPublish, TypeOK, Pending, consumerVars, counters,
                        resetVars
    <3>3. Room'
      BY <2>6, <3>1 DEF PushPublish, Room, consumerVars
    <3>4. ASSUME NEW i \in Slots PROVE (buffer'[i] # NoItem) <=> Holds(i)'
      <4>1. Used(i, tail)' = Used(i, tail) /\ Used(i, tail) \in 0 .. Capacity - 1
        BY <2>6, UsedLemma DEF PushPublish, Used
      <4>2. Used(i, tail) = Used(head, tail) <=> i = head
        BY UsedInjective
      <4>3. i = tail <=> Used(i, tail) = 0
        BY UsedLemma
      <4>4. cpc = "advance" => i # head \/ i # tail
        BY UsedLemma DEF Room
      <4>5. Holds(i)' <=> /\ Used(i, tail) < Used(head, tail) + 1
                          /\ ~ (i = tail /\ cpc = "advance")
        BY <2>6, <3>1, <4>1 DEF PushPublish, Holds, consumerVars
      <4>6. Holds(i) <=> \/ Used(i, tail) < Used(head, tail)
                            /\ ~ (i = tail /\ cpc = "advance")
                         \/ i = head
        BY <2>6 DEF PushPublish, Holds
      <4>7. Holds(i)' <=> Holds(i)
        BY <4>1, <4>2, <4>4, <4>5, <4>6
      <4> QED
        BY <2>6, <4>7 DEF PushPublish, Occupied
    <3> QED
      BY <3>2, <3>3, <3>4 DEF IndInv, Occupied
  <2>7. CASE PushCount
    <3>1. produced' \in 0 .. CounterMod - 1
      BY <2>7, CountLemma DEF PushCount, TypeOK
    <3>2. TypeOK'
      BY <2>7, <3>1 DEF PushCount, TypeOK, consumerVars, resetVars
    <3> QED
      BY <2>7, <3>2 DEF PushCount, IndInv, Room, Occupied, Holds, Pending,
                consumerVars, Used
  <2>8. ASSUME NEW lag \in 0 .. cLag, PopLoad(lag) PROVE IndInv'
    <3>1. tail = Back(head, lag) <=> lag = Used(head, tail)
      BY <2>8, EmptyTest DEF Room
    <3>2. TypeOK'
      BY <2>8 DEF PopLoad, TypeOK, producerVars, counters, resetVars
    <3>3. Used(head, tail)' = Used(head, tail)
      BY <2>8 DEF PopLoad, Used
    <3>4. Room'
      BY <2>8, <3>1, <3>3 DEF PopLoad, Room, producerVars
    <3>5. Occupied' /\ Pending'
      BY <2>8 DEF PopLoad, Occupied, Holds, Pending, producerVars, Used
    <3> QED
      BY <3>2, <3>4, <3>5 DEF IndInv
  <2>9. CASE PopTake
    <3>1. TypeOK' /\ Pending'
      BY <2>9 DEF PopTake, TypeOK, Pending, producerVars, counters, resetVars
    <3>2. Room'
      BY <2>9 DEF PopTake, Room, producerVars, Used
    <3>3. head # tail
      BY <2>9, UsedLemma DEF PopTake, Room
    <3>4. ASSUME NEW i \in Slots PROVE (buffer'[i] # NoItem) <=> Holds(i)'
      <4>1. CASE i = tail
        BY <2>9, <3>3, <4>1 DEF PopTake, Holds, producerVars
      <4>2. CASE i # tail
        BY <2>9, <4>2 DEF PopTake, Occupied, Holds, producerVars, Used
      <4> QED
        BY <4>1, <4>2
    <3> QED
      BY <3>1, <3>2, <3>4 DEF IndInv, Occupied
  <2>10. CASE PopAdvance
    <3>1. /\ tail' \in Slots
          /\ head # tail
          /\ Used(head, tail)' = Used(head, tail) - 1
      BY <2>10, UsedLemma, SuccLemma DEF PopAdvance, Room, Used
    <3>2. TypeOK' /\ Pending'
      BY <2>10, <3>1 DEF PopAdvance, TypeOK, Pending, producerVars, counters,
                         resetVars
    <3>3. Room'
      BY <2>10, <3>1 DEF PopAdvance, Room, producerVars
    <3>4. ASSUME NEW i \in Slots PROVE (buffer'[i] # NoItem) <=> Holds(i)'
      <4>1. Used(i, tail)' = IF i = tail THEN Capacity - 1
                                         ELSE Used(i, tail) - 1
        BY <2>10, UsedLemma DEF PopAdvance, Used
      <4>2. Used(i, tail) \in 0 .. Capacity - 1 /\ (Used(i, tail) = 0 <=> i = tail)
        BY UsedLemma
      <4>3. Holds(i)' <=> \/ Used(i, tail)' < Used(head, tail) - 1
                          \/ i = head /\ ppc = "publish"
        BY <2>10, <3>1 DEF PopAdvance, Holds, producerVars
      <4>4. Holds(i) <=> \/ Used(i, tail) < Used(head, tail) /\ i # tail
                         \/ i = head /\ ppc = "publish"
        BY <2>10 DEF PopAdvance, Holds
      <4>5. Holds(i)' <=> Holds(i)
        BY <4>1, <4>2, <4>3, <4>4
      <4> QED
        BY <2>10, <4>5 DEF PopAdvance, Occupied
    <3> QED
      BY <3>2, <3>3, <3>4 DEF IndInv, Occupied
  <2>11. CASE PopCount
    <3>1. consumed' \in 0 .. CounterMod - 1
      BY <2>11, CountLemma DEF PopCount, TypeOK
    <3>2. TypeOK'
      BY <2>11, <3>1 DEF PopCount, TypeOK, producerVars, resetVars
    <3> QED
      BY <2>11, <3>2 DEF PopCount, IndInv, Room, Occupied, Holds, Pending,
                producerVars, Used
  <2>12. CASE Reset
    <3>1. 0 \in 0 .. CounterMod - 1
      BY CounterAssumption
    <3>2. TypeOK'
      BY <2>12, <3>1
         DEF Reset, ResetProduced, ResetConsumed, ResetDropped, TypeOK,
             producerVars, consumerVars
    <3> QED
      BY <2>12, <3>2 DEF Reset, ResetProduced, ResetConsumed, ResetDropped,
             IndInv, Room, Occupied, Holds, Pending, producerVars,
             consumerVars, Used
  <2>13. CASE UNCHANGED vars
    BY <2>13 DEF vars, IndInv, TypeOK, Room, Occupied, Holds, Pending,
                 producerVars, consumerVars, counters, resetVars, Used
  <2> QED
    BY <2>2, <2>3, <2>4, <2>5, <2>6, <2>7, <2>8, <2>9, <2>10, <2>11, <2>12,
       <2>13 DEF Next, Producer, Consumer
<1> QED
  BY <1>1, <1>2, PTL DEF Spec

\* Every variable of the ring keeps its type, for every capacity.
THEOREM TypeCorrect == Spec => []TypeOK
  BY IndInvHolds, PTL DEF IndInv

\* The unsafe write of try_push and the unsafe take of try_pop never meet in
\* a slot, for every capacity and every old value the loads may return.
THEOREM SlotExclusion == Spec => []ExclusiveSlot
<1>1. IndInv => ExclusiveSlot
  BY UsedLemma DEF IndInv, TypeOK, Room, ExclusiveSlot
<1> QED
  BY <1>1, IndInvHolds, PTL

\* try_push never overwrites an unread item and try_pop never takes from an
\* empty slot.
THEOREM NothingLost == Spec => []NoLossNoHole
<1>1. IndInv => NoLossNoHole
  <2> SUFFICES ASSUME IndInv PROVE NoLossNoHole
    OBVIOUS
  <2>1. head \in Slots /\ tail \in Slots /\ Used(tail, tail) = 0
    BY UsedLemma DEF IndInv, TypeOK
  <2>2. ASSUME ppc = "write" PROVE ~ Holds(head)
    BY <2>1, <2>2, UsedLemma DEF Holds
  <2>3. ASSUME cpc = "take" PROVE Holds(tail)
    BY <2>1, <2>3, UsedLemma DEF Holds, IndInv, Room, TypeOK
  <2> QED
    BY <2>1, <2>2, <2>3 DEF NoLossNoHole, IndInv, Occupied
<1> QED
  BY <1>1, IndInvHolds, PTL

-----------------------------------------------------------------------------
(* Refinement of the bounded FIFO *)

\* What each side has in its hands: the producer its argument until it is
\* published or refused, the consumer what it took until it is counted.
InHands ==
    /\ ppc \in {"idle", "count"} => item = NoItem
    /\ ppc = "publish" => buffer[head] = item
    /\ cpc \in {"advance", "count"} => got # NoItem

\* What both sides have in hand agrees with where they are in every state.
LEMMA InHandsStep == IndInv /\ InHands /\ [Next]_vars => InHands'
<1> SUFFICES ASSUME IndInv, InHands, [Next]_vars PROVE InHands'
  OBVIOUS
<1> USE DEF producerVars, consumerVars, counters, resetVars
<1>0. /\ head \in Slots /\ tail \in Slots
      /\ buffer \in [Slots -> Items \cup {NoItem}]
      /\ NoItem \notin Items
  BY ItemsAssumption DEF IndInv, TypeOK
<1>1. CASE Producer
  <2>1. ASSUME NEW x \in Items, PushCall(x) PROVE InHands'
    BY <2>1 DEF InHands, PushCall
  <2>2. ASSUME NEW lag \in 0 .. pLag, PushLoad(lag) PROVE InHands'
    BY <2>2 DEF InHands, PushLoad
  <2>3. CASE PushDrop BY <2>3 DEF InHands, PushDrop
  <2>4. CASE PushWrite BY <1>0, <2>4 DEF InHands, PushWrite
  <2>5. CASE PushPublish BY <2>5 DEF InHands, PushPublish
  <2>6. CASE PushCount BY <2>6 DEF InHands, PushCount
  <2>7. QED BY <1>1, <2>1, <2>2, <2>3, <2>4, <2>5, <2>6 DEF Producer
<1>2. ASSUME NEW lag \in 0 .. cLag, PopLoad(lag) PROVE InHands'
  BY <1>2 DEF InHands, PopLoad
<1>3. CASE PopTake
  <2>1. cLag < Used(head, tail) /\ cLag \in Nat
    BY <1>3 DEF PopTake, IndInv, Room, TypeOK
  <2>2. Used(head, tail) # 0 BY <1>0, <2>1, UsedLemma, CapacityAssumption
  <2>3. head # tail BY <1>0, <2>2, UsedLemma
  <2>4. Holds(tail)
    BY <1>0, <1>3, <2>1, UsedLemma, CapacityAssumption DEF PopTake, Holds
  <2>5. buffer[tail] # NoItem BY <1>0, <2>4 DEF IndInv, Occupied
  <2>6. QED BY <1>0, <1>3, <2>3, <2>5 DEF InHands, PopTake
<1>4. CASE PopAdvance BY <1>4 DEF InHands, PopAdvance
<1>5. CASE PopCount BY <1>5 DEF InHands, PopCount
<1>6. CASE Reset
  BY <1>6 DEF InHands, Reset, ResetProduced, ResetConsumed, ResetDropped
<1>7. CASE UNCHANGED vars BY <1>7 DEF InHands, vars
<1>8. QED
  BY <1>1, <1>2, <1>3, <1>4, <1>5, <1>6, <1>7 DEF Next, Consumer

\* The slot j places after t.
At(t, j) == (t + j) % Capacity

\* The masked sum of an index and a distance, as a case distinction.
LEMMA AtLemma ==
    ASSUME NEW t \in Slots, NEW j \in 0 .. Capacity
    PROVE  /\ At(t, j) = IF t + j < Capacity THEN t + j ELSE t + j - Capacity
           /\ At(t, j) \in Slots
  BY CapacityAssumption DEF At, Slots

\* Slots at smaller distances from tail than head's are not head, and the one
\* at head's distance is head.
LEMMA AtHead ==
    ASSUME NEW h \in Slots, NEW t \in Slots
    PROVE  /\ At(t, Used(h, t)) = h
           /\ \A j \in 0 .. Capacity - 1 : j < Used(h, t) => At(t, j) # h
           /\ At(t, 0) = t
           /\ \A j \in 1 .. Capacity - 1 : At(t, j) # t
           /\ \A j \in 0 .. Capacity - 1 : At(Succ(t), j) = At(t, j + 1)
<1>0. /\ h \in 0 .. Capacity - 1 /\ t \in 0 .. Capacity - 1
      /\ Capacity \in Nat /\ Capacity >= 2
  BY CapacityAssumption DEF Slots
<1>1. ASSUME NEW j \in 0 .. Capacity
      PROVE  At(t, j) = IF t + j < Capacity THEN t + j ELSE t + j - Capacity
  BY AtLemma
<1>2. Used(h, t) \in 0 .. Capacity - 1 BY UsedLemma
<1>3. At(t, Used(h, t)) = h
  <2>1. Used(h, t) \in 0 .. Capacity BY <1>0, <1>2
  <2>2. At(t, Used(h, t)) = IF t + Used(h, t) < Capacity
                              THEN t + Used(h, t) ELSE t + Used(h, t) - Capacity
    BY <1>1, <2>1
  <2>3. QED BY <1>0, <2>2 DEF Used
<1>4. ASSUME NEW j \in 0 .. Capacity - 1, j < Used(h, t) PROVE At(t, j) # h
  <2>1. j \in 0 .. Capacity BY <1>0
  <2>2. At(t, j) = IF t + j < Capacity THEN t + j ELSE t + j - Capacity
    BY <1>1, <2>1
  <2>3. QED BY <1>0, <1>4, <2>2 DEF Used
<1>5. At(t, 0) = t
  <2>1. At(t, 0) = IF t + 0 < Capacity THEN t + 0 ELSE t + 0 - Capacity
    BY <1>0, <1>1
  <2>2. QED BY <1>0, <2>1
<1>6. ASSUME NEW j \in 1 .. Capacity - 1 PROVE At(t, j) # t
  <2>1. j \in 0 .. Capacity BY <1>0
  <2>2. At(t, j) = IF t + j < Capacity THEN t + j ELSE t + j - Capacity
    BY <1>1, <2>1
  <2>3. QED BY <1>0, <2>2
<1>7. ASSUME NEW j \in 0 .. Capacity - 1 PROVE At(Succ(t), j) = At(t, j + 1)
  <2>1. j \in 0 .. Capacity /\ j + 1 \in 0 .. Capacity BY <1>0
  <2>2. At(t, j + 1) = IF t + (j + 1) < Capacity
                         THEN t + (j + 1) ELSE t + (j + 1) - Capacity
    BY <1>1, <2>1
  <2>3. /\ Succ(t) = (IF t = Capacity - 1 THEN 0 ELSE t + 1)
        /\ Succ(t) \in Slots
    BY SuccLemma
  <2>4. At(Succ(t), j) = IF Succ(t) + j < Capacity
                           THEN Succ(t) + j ELSE Succ(t) + j - Capacity
    BY <2>1, <2>3, AtLemma
  <2>5. QED BY <1>0, <2>2, <2>3, <2>4
<1>8. QED BY <1>3, <1>4, <1>5, <1>6, <1>7

\* A function from 1 to n is a sequence of length n.
LEMMA FunSeq ==
    ASSUME NEW S, NEW n \in Nat, NEW f \in [1 .. n -> S]
    PROVE  f \in Seq(S) /\ Len(f) = n
  OBVIOUS

Size == Used(head, tail) - Taken

\* The queue the ring stands for: its length, and where its items are.
QueueShape ==
    /\ Size \in 0 .. Capacity - 1
    /\ Contents \in Seq(Items \cup {NoItem})
    /\ Len(Contents) = Size
    /\ \A i \in 1 .. Size : Contents[i] = buffer[At(tail, Taken + i - 1)]

\* The queue has that shape in every state.
LEMMA ContentsLemma == IndInv => QueueShape
<1> SUFFICES ASSUME IndInv PROVE QueueShape
  OBVIOUS
<1>0. /\ head \in Slots /\ tail \in Slots
      /\ buffer \in [Slots -> Items \cup {NoItem}]
      /\ Used(head, tail) \in 0 .. Capacity - 1
  BY UsedLemma DEF IndInv, TypeOK
<1>1. Taken \in 0 .. 1 /\ Taken <= Used(head, tail)
  BY <1>0, CapacityAssumption DEF Taken, IndInv, Room, TypeOK
<1>2. Size \in 0 .. Capacity - 1 BY <1>0, <1>1, CapacityAssumption DEF Size
<1>3. Contents = [i \in 1 .. Size |-> buffer[At(tail, Taken + i - 1)]]
  <2>1. \A i \in 1 .. Size : tail + Taken + i - 1 = tail + (Taken + i - 1)
    BY <1>0, <1>1, <1>2, CapacityAssumption DEF Slots
  <2>2. QED BY <2>1 DEF Contents, Size, At
<1>4. ASSUME NEW i \in 1 .. Size PROVE At(tail, Taken + i - 1) \in Slots
  BY <1>0, <1>1, AtLemma, CapacityAssumption DEF Size
<1>5. Contents \in [1 .. Size -> Items \cup {NoItem}] BY <1>0, <1>3, <1>4
<1>6. Contents \in Seq(Items \cup {NoItem}) /\ Len(Contents) = Size
  BY <1>2, <1>5, FunSeq
<1>7. QED BY <1>2, <1>3, <1>6 DEF QueueShape

\* Two ways to say that a step does not change the queue.
LEMMA SameContents ==
    ASSUME QueueShape, QueueShape', Size' = Size,
           \A i \in 1 .. Size : buffer'[At(tail', Taken' + i - 1)]
                                  = buffer[At(tail, Taken + i - 1)]
    PROVE  Contents' = Contents
<1>1. Len(Contents') = Len(Contents) BY DEF QueueShape
<1>2. \A i \in 1 .. Len(Contents') : Contents'[i] = Contents[i] BY DEF QueueShape
<1>3. QED BY <1>1, <1>2, SeqEqual DEF QueueShape

\* Every step of the ring is a step of the queue, or none.
LEMMA FifoStep ==
    IndInv /\ InHands /\ [Next]_vars /\ IndInv'
        => [Fifo!Next]_<<Contents, item, got>>
<1> SUFFICES ASSUME IndInv, InHands, [Next]_vars, QueueShape, QueueShape'
             PROVE  [Fifo!Next]_<<Contents, item, got>>
  BY ContentsLemma, PTL
<1> USE DEF producerVars, consumerVars, counters, resetVars
<1>0. /\ head \in Slots /\ tail \in Slots
      /\ buffer \in [Slots -> Items \cup {NoItem}]
      /\ NoItem \notin Items
      /\ Used(head, tail) \in 0 .. Capacity - 1
      /\ pLag \in Nat /\ cLag \in Nat
      /\ Capacity \in Nat /\ Capacity >= 2
  BY ItemsAssumption, UsedLemma, CapacityAssumption DEF IndInv, TypeOK
<1>1. ASSUME UNCHANGED <<head, tail, buffer, cpc>> PROVE Contents' = Contents
  BY <1>1 DEF Contents, Taken
<1>2. ASSUME NEW x \in Items, PushCall(x) PROVE Fifo!Offer(x)
  <2>1. item = NoItem /\ item' = x /\ got' = got
    BY <1>2 DEF PushCall, InHands
  <2>2. Contents' = Contents BY <1>1, <1>2 DEF PushCall
  <2>3. QED BY <2>1, <2>2 DEF Fifo!Offer
<1>3. ASSUME NEW lag \in 0 .. pLag, PushLoad(lag)
      PROVE  UNCHANGED <<Contents, item, got>>
  BY <1>1, <1>3 DEF PushLoad
<1>4. CASE PushDrop
  <2>1. item # NoItem BY <1>0, <1>4 DEF PushDrop, IndInv, Pending
  <2>2. Contents' = Contents BY <1>1, <1>4 DEF PushDrop
  <2>3. Fifo!Refuse BY <1>4, <2>1, <2>2 DEF PushDrop, Fifo!Refuse
  <2>4. QED BY <2>3 DEF Fifo!Next
<1>5. CASE PushWrite
  <2>1. UNCHANGED <<head, tail, cpc, item, got>> BY <1>5 DEF PushWrite
  <2>2. Size' = Size /\ Taken' = Taken BY <2>1 DEF Size, Used, Taken
  <2>3. ASSUME NEW i \in 1 .. Size
        PROVE  buffer'[At(tail', Taken' + i - 1)]
                 = buffer[At(tail, Taken + i - 1)]
    <3>1. Taken \in 0 .. 1 BY DEF Taken
    <3>2. /\ Taken + i - 1 \in 0 .. Capacity - 1
          /\ Taken + i - 1 \in 0 .. Capacity
          /\ Taken + i - 1 < Used(head, tail)
      BY <1>0, <3>1 DEF Size
    <3>3. At(tail, Taken + i - 1) # head BY <1>0, <3>2, AtHead
    <3>4. At(tail, Taken + i - 1) \in Slots BY <1>0, <3>2, AtLemma
    <3>5. QED BY <1>0, <1>5, <2>1, <2>2, <3>3, <3>4 DEF PushWrite
  <2>4. Contents' = Contents BY <2>2, <2>3, SameContents
  <2>5. QED BY <2>1, <2>4
<1>6. CASE PushPublish
  <2>1. /\ item \in Items /\ item' = NoItem /\ buffer[head] = item
        /\ UNCHANGED <<buffer, tail, cpc, got>>
    BY <1>6 DEF PushPublish, InHands, IndInv, Pending
  <2>2. Used(head, tail) <= Capacity - 2
    BY <1>0, <1>6 DEF PushPublish, IndInv, Room
  <2>3. Used(head', tail') = Used(head, tail) + 1
    BY <1>0, <1>6, <2>2, UsedLemma DEF PushPublish
  <2>4. Taken' = Taken /\ Taken \in 0 .. 1 BY <2>1 DEF Taken
  <2>5. Size' = Size + 1 /\ Size \in Nat
    BY <1>0, <2>3, <2>4 DEF Size, QueueShape
  <2>6. Len(Contents) < Capacity - 1
    BY <1>0, <2>2, <2>4 DEF QueueShape, Size
  <2>7. Contents' = Append(Contents, item)
    <3> DEFINE a == Append(Contents, item)
    <3>1. /\ a \in Seq(Items \cup {NoItem})
          /\ Len(a) = Size + 1
          /\ \A i \in 1 .. Size : a[i] = Contents[i]
          /\ a[Size + 1] = item
      BY <2>1, AppendProperties DEF QueueShape
    <3> HIDE DEF a
    <3>2. Contents' \in Seq(Items \cup {NoItem}) /\ Len(Contents') = Size + 1
      BY <2>5 DEF QueueShape
    <3>3. \A i \in 1 .. Size + 1 :
            Contents'[i] = buffer[At(tail, Taken + i - 1)]
      BY <2>1, <2>4, <2>5 DEF QueueShape
    <3>4. Contents'[Size + 1] = item
      <4>1. Taken + (Size + 1) - 1 = Used(head, tail) BY <1>0, <2>4 DEF Size
      <4>2. At(tail, Taken + (Size + 1) - 1) = head BY <1>0, <4>1, AtHead
      <4>3. Size + 1 \in 1 .. Size + 1 BY <2>5
      <4>4. QED BY <2>1, <3>3, <4>2, <4>3
    <3>5. ASSUME NEW i \in 1 .. Size PROVE Contents'[i] = Contents[i]
      BY <2>5, <3>3 DEF QueueShape
    <3>6. \A i \in 1 .. Len(Contents') : Contents'[i] = a[i]
      BY <2>5, <3>1, <3>2, <3>4, <3>5
    <3>7. Contents' = a BY <3>1, <3>2, <3>6, SeqEqual
    <3>8. QED BY <3>7 DEF a
  <2>8. Fifo!Enqueue BY <1>0, <2>1, <2>6, <2>7 DEF Fifo!Enqueue
  <2>9. QED BY <2>8 DEF Fifo!Next
<1>7. CASE PushCount
  BY <1>1, <1>7 DEF PushCount
<1>8. ASSUME NEW lag \in 0 .. cLag, PopLoad(lag)
      PROVE  UNCHANGED <<Contents, item, got>>
  <2>1. Taken' = Taken /\ UNCHANGED <<head, tail, buffer, item, got>>
    BY <1>8 DEF PopLoad, Taken
  <2>2. QED BY <2>1 DEF Contents
<1>9. CASE PopTake
  <2>1. /\ got' = buffer[tail] /\ Taken = 0 /\ Taken' = 1
        /\ UNCHANGED <<head, tail, item>>
    BY <1>9 DEF PopTake, Taken
  <2>2. Used(head, tail) > 0 BY <1>0, <1>9 DEF PopTake, IndInv, Room
  <2>3. Size = Used(head, tail) /\ Size' = Size - 1
    BY <1>0, <2>1 DEF Size, Used
  <2>4. Contents # <<>> BY <1>0, <2>2, <2>3 DEF QueueShape
  <2>5. Head(Contents) = buffer[tail]
    <3>1. 1 \in 1 .. Size BY <1>0, <2>2, <2>3
    <3>2. Contents[1] = buffer[At(tail, 0)]
      <4>1. Contents[1] = buffer[At(tail, Taken + 1 - 1)]
        BY <3>1 DEF QueueShape
      <4>2. Taken + 1 - 1 = 0 BY <2>1
      <4>3. QED BY <4>1, <4>2
    <3>3. At(tail, 0) = tail BY <1>0, AtHead
    <3>4. QED BY <2>4, <3>2, <3>3 DEF QueueShape
  <2>6. Contents' = Tail(Contents)
    <3> DEFINE a == Tail(Contents)
    <3>1. /\ a \in Seq(Items \cup {NoItem}) /\ Len(a) = Size - 1
          /\ \A i \in 1 .. Len(a) : a[i] = Contents[i + 1]
      BY <2>4, HeadTailProperties DEF QueueShape
    <3> HIDE DEF a
    <3>2. /\ Contents' \in Seq(Items \cup {NoItem}) /\ Len(Contents') = Size - 1
          /\ \A i \in 1 .. Size - 1 : Contents'[i] = buffer'[At(tail, 1 + i - 1)]
      BY <2>1, <2>3 DEF QueueShape
    <3>3. ASSUME NEW i \in 1 .. Size - 1 PROVE Contents'[i] = Contents[i + 1]
      <4>1. /\ i + 1 \in 1 .. Size /\ 1 + i - 1 = i /\ 0 + (i + 1) - 1 = i
            /\ i \in 1 .. Capacity - 1 /\ i \in 0 .. Capacity
        BY <1>0, <2>3
      <4>2. At(tail, i) # tail /\ At(tail, i) \in Slots
        BY <1>0, <4>1, AtHead, AtLemma
      <4>3. buffer'[At(tail, i)] = buffer[At(tail, i)]
        BY <1>0, <1>9, <4>2 DEF PopTake
      <4>4. Contents[i + 1] = buffer[At(tail, Taken + (i + 1) - 1)]
        BY <4>1 DEF QueueShape
      <4>5. QED BY <2>1, <3>2, <4>1, <4>3, <4>4
    <3>4. \A i \in 1 .. Len(Contents') : Contents'[i] = a[i]
      BY <3>1, <3>2, <3>3
    <3>5. Contents' = a BY <3>1, <3>2, <3>4, SeqEqual
    <3>6. QED BY <3>5 DEF a
  <2>7. Fifo!Dequeue BY <2>1, <2>4, <2>5, <2>6 DEF Fifo!Dequeue
  <2>8. QED BY <2>7 DEF Fifo!Next
<1>10. CASE PopAdvance
  <2>1. /\ Taken = 1 /\ Taken' = 0 /\ tail' = Succ(tail)
        /\ UNCHANGED <<head, buffer, item, got>>
    BY <1>10 DEF PopAdvance, Taken
  <2>2. Used(head, tail) > 0
    BY <1>0, <1>10 DEF PopAdvance, IndInv, Room
  <2>3. Used(head', tail') = Used(head, tail) - 1
    BY <1>0, <2>1, <2>2, UsedLemma
  <2>4. Size' = Size BY <1>0, <2>1, <2>3 DEF Size
  <2>5. ASSUME NEW i \in 1 .. Size
        PROVE  buffer'[At(tail', Taken' + i - 1)]
                 = buffer[At(tail, Taken + i - 1)]
    <3>1. /\ i - 1 \in 0 .. Capacity - 1
          /\ Taken' + i - 1 = i - 1 /\ Taken + i - 1 = (i - 1) + 1
      BY <1>0, <2>1 DEF Size
    <3>2. At(Succ(tail), i - 1) = At(tail, (i - 1) + 1) BY <1>0, <3>1, AtHead
    <3>3. QED BY <2>1, <3>1, <3>2
  <2>6. Contents' = Contents BY <2>4, <2>5, SameContents
  <2>7. QED BY <2>1, <2>6
<1>11. CASE PopCount
  <2>1. got # NoItem /\ got' = NoItem /\ item' = item
    BY <1>11 DEF PopCount, InHands
  <2>2. Taken' = Taken /\ UNCHANGED <<head, tail, buffer>>
    BY <1>11 DEF PopCount, Taken
  <2>3. Contents' = Contents BY <2>2 DEF Contents
  <2>4. Fifo!Release BY <2>1, <2>3 DEF Fifo!Release
  <2>5. QED BY <2>4 DEF Fifo!Next
<1>12. CASE Reset \/ UNCHANGED vars
  BY <1>1, <1>12
     DEF Reset, ResetProduced, ResetConsumed, ResetDropped, vars
<1>13. QED
  BY <1>2, <1>3, <1>4, <1>5, <1>6, <1>7, <1>8, <1>9, <1>10, <1>11, <1>12
     DEF Next, Producer, Consumer, Fifo!Next

\* For every power of two as capacity, every set of items and every old index
\* value the loads may return: the ring is a FIFO of Capacity - 1 items.
\* Nothing that try_push accepted is lost, duplicated or reordered.
THEOREM RingIsFifo == Spec => RefinesFifo
<1>1. Init => InHands BY DEF Init, InHands
<1>2. Init => Fifo!Init
  <2> SUFFICES ASSUME Init PROVE Fifo!Init
    OBVIOUS
  <2>1. Used(head, tail) - Taken = 0
    BY CapacityAssumption DEF Init, Used, Taken
  <2>2. Contents = <<>> BY <2>1 DEF Contents
  <2>3. QED BY <2>2 DEF Init, Fifo!Init
<1>3. QED
  BY <1>1, <1>2, IndInvHolds, InHandsStep, FifoStep, PTL
     DEF Spec, RefinesFifo, Fifo!Spec, Fifo!fifoVars

-----------------------------------------------------------------------------
(* The counters *)

\* Numbers that differ by a multiple of m leave the same remainder.
LEMMA ModLemma ==
    ASSUME NEW m \in Nat \ {0}, NEW a \in Int, NEW b \in Int, NEW k \in Int,
           a = b + k * m
    PROVE  a % m = b % m
<1> DEFINE q == b \div m
           r == b % m
<1>1. q \in Int /\ r \in 0 .. m - 1 /\ b = q * m + r OBVIOUS
<1> HIDE DEF q, r
<1>2. a = (q + k) * m + r BY <1>1
<1>3. ASSUME NEW p \in Int PROVE (p * m + r) % m = r BY <1>1
<1>4. a % m = r BY <1>1, <1>2, <1>3
<1>5. QED BY <1>4 DEF r

\* A counter moves by one, up to a multiple of its modulus.
LEMMA CountStep ==
    ASSUME NEW c \in 0 .. CounterMod - 1
    PROVE  \E k \in Int : Count(c) = c + 1 + k * CounterMod
<1>1. CASE c + 1 = CounterMod
  <2>1. Count(c) = 0 BY <1>1, CounterAssumption DEF Count
  <2>2. Count(c) = c + 1 + (-1) * CounterMod BY <1>1, <2>1, CounterAssumption
  <2>3. QED BY <2>2
<1>2. CASE c + 1 # CounterMod
  <2>1. Count(c) = c + 1 BY <1>2, CounterAssumption DEF Count
  <2>2. Count(c) = c + 1 + 0 * CounterMod BY <2>1, CounterAssumption
  <2>3. QED BY <2>2
<1>3. QED BY <1>1, <1>2

\* Pushes less pops, counted or about to be, are the occupancy, up to a
\* multiple of the counters' modulus.
Balance == produced + InFlight(ppc) - consumed - InFlight(cpc)
             - Used(head, tail)

Balanced ==
    /\ rpc # "idle" => wasReset
    /\ ~ wasReset => \E k \in Int : Balance = k * CounterMod

\* Whole turns of a counter keep the balance.
LEMMA BalanceMoves ==
    ASSUME Balanced, UNCHANGED resetVars, Balance \in Int,
           NEW j \in Int, Balance' = Balance + j * CounterMod
    PROVE  Balanced'
<1> SUFFICES ASSUME ~ wasReset' PROVE \E k \in Int : Balance' = k * CounterMod
  BY DEF Balanced, resetVars
<1>1. PICK k \in Int : Balance = k * CounterMod BY DEF Balanced, resetVars
<1>2. Balance' = (k + j) * CounterMod BY <1>1, CounterAssumption
<1>3. QED BY <1>2

\* Every step keeps the balance, unless somebody resets the counters.
LEMMA BalanceStep ==
    ASSUME IndInv, InHands, Balanced, [Next]_vars
    PROVE  Balanced'
<1> USE DEF producerVars, consumerVars, counters, resetVars
<1>0. /\ head \in Slots /\ tail \in Slots
      /\ Used(head, tail) \in 0 .. Capacity - 1
      /\ pLag \in Nat /\ cLag \in Nat
      /\ Capacity \in Nat /\ Capacity >= 2
      /\ produced \in 0 .. CounterMod - 1 /\ consumed \in 0 .. CounterMod - 1
      /\ CounterMod \in Nat
  BY UsedLemma, CapacityAssumption, CounterAssumption DEF IndInv, TypeOK
<1>1. \A pc : InFlight(pc) \in 0 .. 1 BY DEF InFlight
<1>2. Balance \in Int BY <1>0, <1>1 DEF Balance
<1>3. ASSUME UNCHANGED <<resetVars, Balance>> PROVE Balanced'
  BY <1>3 DEF Balanced
<1>4. ASSUME UNCHANGED <<produced, consumed, head, tail, resetVars>>,
             InFlight(ppc') = InFlight(ppc), InFlight(cpc') = InFlight(cpc)
      PROVE  Balanced'
  BY <1>3, <1>4 DEF Balance, Used
<1>5. CASE \/ \E x \in Items : PushCall(x)
           \/ \E lag \in 0 .. pLag : PushLoad(lag)
           \/ PushDrop \/ PushWrite
  BY <1>4, <1>5 DEF PushCall, PushLoad, PushDrop, PushWrite, InFlight
<1>6. CASE PushPublish
  <2>1. Used(head, tail) <= Capacity - 2
    BY <1>0, <1>6 DEF PushPublish, IndInv, Room
  <2>2. Used(head', tail') = Used(head, tail) + 1
    BY <1>0, <1>6, <2>1, UsedLemma DEF PushPublish
  <2>3. InFlight(ppc) = 0 /\ InFlight(ppc') = 1
    BY <1>6 DEF PushPublish, InFlight
  <2>4. UNCHANGED <<produced, consumed, cpc, resetVars>>
    BY <1>6 DEF PushPublish
  <2>5. Balance' = Balance BY <1>0, <1>1, <2>2, <2>3, <2>4 DEF Balance
  <2>6. QED BY <1>3, <2>4, <2>5
<1>7. CASE PushCount
  <2>1. PICK k \in Int : produced' = produced + 1 + k * CounterMod
    BY <1>0, <1>7, CountStep DEF PushCount
  <2>2. InFlight(ppc) = 1 /\ InFlight(ppc') = 0
    BY <1>7 DEF PushCount, InFlight
  <2>3. UNCHANGED <<consumed, cpc, head, tail, resetVars>>
    BY <1>7 DEF PushCount
  <2>4. Balance' = Balance + k * CounterMod
    BY <1>0, <1>1, <2>1, <2>2, <2>3 DEF Balance, Used
  <2>5. QED BY <1>2, <2>3, <2>4, BalanceMoves
<1>8. CASE PopTake \/ \E lag \in 0 .. cLag : PopLoad(lag)
  BY <1>4, <1>8 DEF PopLoad, PopTake, InFlight
<1>9. CASE PopAdvance
  <2>1. Used(head, tail) > 0
    BY <1>0, <1>9 DEF PopAdvance, IndInv, Room
  <2>2. Used(head', tail') = Used(head, tail) - 1
    BY <1>0, <1>9, <2>1, UsedLemma DEF PopAdvance
  <2>3. InFlight(cpc) = 0 /\ InFlight(cpc') = 1
    BY <1>9 DEF PopAdvance, InFlight
  <2>4. UNCHANGED <<produced, consumed, ppc, resetVars>>
    BY <1>9 DEF PopAdvance
  <2>5. Balance' = Balance BY <1>0, <1>1, <2>2, <2>3, <2>4 DEF Balance
  <2>6. QED BY <1>3, <2>4, <2>5
<1>10. CASE PopCount
  <2>1. got # NoItem BY <1>10 DEF PopCount, InHands
  <2>2. PICK k \in Int : consumed' = consumed + 1 + k * CounterMod
    BY <1>0, <1>10, <2>1, CountStep DEF PopCount
  <2>3. InFlight(cpc) = 1 /\ InFlight(cpc') = 0
    BY <1>10 DEF PopCount, InFlight
  <2>4. UNCHANGED <<produced, ppc, head, tail, resetVars>>
    BY <1>10 DEF PopCount
  <2>5. Balance' = Balance + (-k) * CounterMod
    BY <1>0, <1>1, <2>2, <2>3, <2>4 DEF Balance, Used
  <2>6. QED BY <1>2, <2>4, <2>5, BalanceMoves
<1>11. CASE ResetProduced BY <1>11 DEF ResetProduced, Balanced
<1>12. CASE ResetConsumed \/ ResetDropped
  BY <1>12 DEF ResetConsumed, ResetDropped, Balanced
<1>13. CASE UNCHANGED vars
  BY <1>4, <1>13 DEF vars
<1>14. QED
  BY <1>5, <1>6, <1>7, <1>8, <1>9, <1>10, <1>11, <1>12, <1>13
     DEF Next, Producer, Consumer, Reset

\* Until reset_stats is called, produced and consumed account for what is in
\* the ring, however often both have wrapped and whichever call is about to
\* count.
THEOREM CountersAccount == Spec => []StatsAccount
<1>1. Init => InHands /\ Balanced
  <2> SUFFICES ASSUME Init PROVE InHands /\ Balanced
    OBVIOUS
  <2>1. Balance = 0 * CounterMod
    BY CapacityAssumption, CounterAssumption
       DEF Init, Balance, InFlight, Used
  <2>2. QED BY <2>1 DEF Init, InHands, Balanced
<1>2. IndInv /\ Balanced => StatsAccount
  <2> SUFFICES ASSUME IndInv, Balanced, ~ wasReset
               PROVE  (produced + InFlight(ppc)) % CounterMod
                        = (consumed + InFlight(cpc) + Used(head, tail))
                            % CounterMod
    BY DEF StatsAccount
  <2>1. PICK k \in Int : Balance = k * CounterMod BY DEF Balanced
  <2>2. /\ produced \in Int /\ consumed \in Int /\ Used(head, tail) \in Int
        /\ InFlight(ppc) \in Int /\ InFlight(cpc) \in Int
    BY UsedLemma, CapacityAssumption, CounterAssumption
       DEF IndInv, TypeOK, InFlight
  <2>3. produced + InFlight(ppc)
          = consumed + InFlight(cpc) + Used(head, tail) + k * CounterMod
    BY <2>1, <2>2, CounterAssumption DEF Balance
  <2>4. QED
    <3> DEFINE a == produced + InFlight(ppc)
               b == consumed + InFlight(cpc) + Used(head, tail)
    <3>1. a \in Int /\ b \in Int /\ CounterMod \in Nat \ {0}
      BY <2>2, CounterAssumption
    <3>2. a = b + k * CounterMod BY <2>3
    <3> HIDE DEF a, b
    <3>3. a % CounterMod = b % CounterMod BY <3>1, <3>2, ModLemma
    <3>4. QED BY <3>3 DEF a, b
<1>3. IndInv /\ InHands /\ Balanced /\ [Next]_vars => Balanced'
  BY BalanceStep
<1>4. QED
  BY <1>1, <1>2, <1>3, IndInvHolds, InHandsStep, PTL DEF Spec
=============================================================================
