--------------------------- MODULE SpyQueueProofs ---------------------------
(***************************************************************************)
(* Proofs about SpyQueue for every capacity and every set of items.  The   *)
(* indices stay in the ring however many threads call ncclAllReduce.       *)
(* LockFreeQueue is a queue, and free of data races, as long as their      *)
(* calls of Push do not overlap, of which one thread is a special case.    *)
(***************************************************************************)
EXTENDS SpyQueue, SequenceTheorems, TLAPS

USE CapacityAssumption, ItemAssumption

LEMMA NextSlotFacts ==
  ASSUME NEW i \in Index
  PROVE  /\ NextSlot(i) = IF i + 1 = Capacity THEN 0 ELSE i + 1
         /\ NextSlot(i) \in Index
  BY DEF NextSlot, Index

(* The distance between two indices counts the occupied slots. *)
LEMMA DistFacts ==
  ASSUME NEW h \in Index, NEW t \in Index
  PROVE  /\ Dist(h, t) \in 0 .. Capacity - 1
         /\ Dist(h, t) = 0 <=> h = t
         /\ Dist(h, t) = Capacity - 1 <=> NextSlot(t) = h
         /\ NextSlot(t) # h => Dist(h, NextSlot(t)) = Dist(h, t) + 1
         /\ h # t => Dist(NextSlot(h), t) = Dist(h, t) - 1
  <1>1. NextSlot(t) = IF t + 1 = Capacity THEN 0 ELSE t + 1
    BY NextSlotFacts
  <1>2. NextSlot(h) = IF h + 1 = Capacity THEN 0 ELSE h + 1
    BY NextSlotFacts
  <1> QED
    BY <1>1, <1>2 DEF Dist, Index

(* Where the i-th occupied slot is. *)
LEMMA SlotFacts ==
  ASSUME NEW h \in Index, NEW t \in Index
  PROVE  /\ Slot(h, 0) = h
         /\ Slot(h, Dist(h, t)) = t
         /\ \A i \in 0 .. Capacity - 1 : Slot(h, i) \in Index
         /\ \A i \in 0 .. Dist(h, t) - 1 : Slot(h, i) # t
         /\ \A i \in 0 .. Capacity - 2 : Slot(NextSlot(h), i) = Slot(h, i + 1)
  <1>1. NextSlot(h) = IF h + 1 = Capacity THEN 0 ELSE h + 1
    BY NextSlotFacts
  <1> QED
    BY <1>1 DEF Slot, Dist, Index

(* No two threads are in Push: one thread calls ncclAllReduce, or a lock   *)
(* of the program around it keeps the others out.                          *)
OneAtATime == \A t, u \in Producers : ppc[t] # "idle" /\ ppc[u] # "idle" => t = u

(* The inductive invariant: no local copy of an index is out of date, a    *)
(* slot is written only while it is free and read only while it is         *)
(* occupied.                                                               *)
QInv ==
  /\ TypeOK
  /\ \A t \in Producers :
       /\ ppc[t] # "idle" => ptail[t] = tail
       /\ ppc[t] \in {"write", "publish"} => NextSlot(tail) # head
       /\ ppc[t] = "publish" => buffer[tail] = pitem[t]
  /\ cpc # "idle" => chead = head
  /\ cpc \in {"read", "advance"} => head # tail
  /\ cpc = "advance" => citem = buffer[head]

LEMMA QInvInit == Init => QInv
  BY DEF Init, QInv, TypeOK, Index, Content

LEMMA NoRaces ==
  ASSUME QInv, OneAtATime
  PROVE  NoDataRace
  BY DEF QInv, OneAtATime, NoDataRace, WriteRaces, ReadRaces

LEMMA TypeStep ==
  ASSUME TypeOK, [Next]_vars
  PROVE  TypeOK'
  <1> USE DEF TypeOK, producer, consumer
  <1>1. ASSUME NEW t \in Producers, NEW e \in Items, PushLoadTail(t, e) PROVE TypeOK'
    BY <1>1 DEF PushLoadTail
  <1>2. ASSUME NEW t \in Producers, PushCheckFull(t) PROVE TypeOK'
    BY <1>2 DEF PushCheckFull
  <1>3. ASSUME NEW t \in Producers, PushWrite(t) PROVE TypeOK'
    BY <1>3 DEF PushWrite, Content
  <1>4. ASSUME NEW t \in Producers, PushPublish(t) PROVE TypeOK'
    BY <1>4, NextSlotFacts DEF PushPublish
  <1>5. CASE PopLoadHead
    BY <1>5 DEF PopLoadHead
  <1>6. CASE PopCheckEmpty
    BY <1>6 DEF PopCheckEmpty
  <1>7. CASE PopRead
    BY <1>7 DEF PopRead, Content
  <1>8. CASE PopAdvance
    BY <1>8, NextSlotFacts DEF PopAdvance
  <1>9. CASE UNCHANGED vars
    BY <1>9 DEF vars
  <1> QED
    BY <1>1, <1>2, <1>3, <1>4, <1>5, <1>6, <1>7, <1>8, <1>9 DEF Next, Push, Pop

LEMMA QInvStep ==
  ASSUME QInv, OneAtATime, OneAtATime', [Next]_vars
  PROVE  QInv'
  <1>t. TypeOK'
    BY TypeStep DEF QInv
  <1>1. ASSUME NEW t \in Producers, Push(t) PROVE QInv'
    <2> USE DEF QInv, TypeOK, producer, consumer
    <2>o. /\ \A u \in Producers \ {t} : ppc'[u] = ppc[u] /\ ptail'[u] = ptail[u] /\ pitem'[u] = pitem[u]
          /\ ppc[t] # "idle" \/ ppc'[t] # "idle"
      BY <1>1 DEF Push, PushLoadTail, PushCheckFull, PushWrite, PushPublish
    <2>p. \A u \in Producers \ {t} : ppc[u] = "idle" /\ ppc'[u] = "idle"
      BY <2>o DEF OneAtATime
    <2>1. ASSUME NEW e \in Items, PushLoadTail(t, e) PROVE QInv'
      BY <1>t, <2>1, <2>p DEF PushLoadTail
    <2>2. CASE PushCheckFull(t)
      BY <1>t, <2>2, <2>p DEF PushCheckFull
    <2>3. CASE PushWrite(t)
      <3>1. buffer' = [buffer EXCEPT ![tail] = pitem[t]]
        BY <2>3, NoRaces DEF PushWrite, NoDataRace
      <3>2. cpc = "advance" => buffer'[head] = buffer[head]
        BY <3>1
      <3> QED
        BY <1>t, <2>3, <2>p, <3>1, <3>2 DEF PushWrite, Content
    <2>4. CASE PushPublish(t)
      BY <1>t, <2>4, <2>p, NextSlotFacts DEF PushPublish
    <2> QED
      BY <1>1, <2>1, <2>2, <2>3, <2>4 DEF Push
  <1> USE DEF QInv, TypeOK, producer, consumer
  <1>5. CASE PopLoadHead
    BY <1>t, <1>5 DEF PopLoadHead
  <1>6. CASE PopCheckEmpty
    BY <1>t, <1>6 DEF PopCheckEmpty
  <1>7. CASE PopRead
    <2>1. citem' = buffer[head]
      BY <1>7, NoRaces DEF PopRead, NoDataRace
    <2> QED
      BY <1>t, <1>7, <2>1 DEF PopRead
  <1>8. CASE PopAdvance
    <2>1. head # tail /\ head' = NextSlot(head) /\ head' \in Index
      BY <1>8, NextSlotFacts DEF PopAdvance
    <2>2. NextSlot(tail) # head => NextSlot(tail) # head'
      BY <2>1, NextSlotFacts DEF Index
    <2> QED
      BY <1>t, <1>8, <2>1, <2>2 DEF PopAdvance
  <1>9. CASE UNCHANGED vars
    BY <1>t, <1>9 DEF vars
  <1> QED
    BY <1>1, <1>5, <1>6, <1>7, <1>8, <1>9 DEF Next, Pop

(* Every index that Push and Pop use stays inside the ring                 *)
(* (queue.h:20, 34), for any capacity and however many threads race in     *)
(* Push.                                                                   *)
THEOREM TypeCorrect == Spec => []TypeOK
  <1>1. TypeOK /\ [Next]_vars => TypeOK'
    BY TypeStep
  <1>2. Init => TypeOK
    BY QInvInit DEF QInv
  <1> QED
    BY <1>1, <1>2, PTL DEF Spec

(* As long as calls of Push do not overlap, the copies of the events into  *)
(* and out of the ring (queue.h:23, 33) never overlap in a slot, for any   *)
(* capacity and number of threads.                                         *)
THEOREM NoDataRaceHolds == Spec /\ []OneAtATime => []NoDataRace
  <1>1. QInv /\ OneAtATime /\ OneAtATime' /\ [Next]_vars => QInv'
    BY QInvStep
  <1>2. QInv /\ OneAtATime => NoDataRace
    BY NoRaces
  <1> QED
    BY <1>1, <1>2, QInvInit, PTL DEF Spec
-----------------------------------------------------------------------------
(* Refinement *)

LEMMA SeqIsFunction ==
  ASSUME NEW S, NEW s \in Seq(S)
  PROVE  s = [i \in 1 .. Len(s) |-> s[i]]
  OBVIOUS

LEMMA ContentsFacts ==
  ASSUME QInv
  PROVE  /\ Contents \in Seq(Content)
         /\ Len(Contents) = Dist(head, tail)
         /\ \A i \in 1 .. Dist(head, tail) : Contents[i] = buffer[Slot(head, i - 1)]
  <1>1. Dist(head, tail) \in Nat /\ Dist(head, tail) <= Capacity - 1
    BY DistFacts DEF QInv, TypeOK
  <1>2. ASSUME NEW i \in 1 .. Dist(head, tail)
        PROVE  buffer[Slot(head, i - 1)] \in Content
    <2>1. i - 1 \in 0 .. Capacity - 1
      BY <1>1
    <2>2. Slot(head, i - 1) \in Index
      BY <2>1, SlotFacts DEF QInv, TypeOK
    <2> QED
      BY <2>2 DEF QInv, TypeOK
  <1> DEFINE n == Dist(head, tail)
  <1>3. Contents = [i \in 1 .. n |-> buffer[Slot(head, i - 1)]]
    BY DEF Contents
  <1> HIDE DEF n
  <1>4. n \in Nat /\ \A i \in 1 .. n : buffer[Slot(head, i - 1)] \in Content
    BY <1>1, <1>2 DEF n
  <1>5. Contents \in Seq(Content) /\ Len(Contents) = n
    BY <1>3, <1>4
  <1> QED
    BY <1>3, <1>5 DEF n

(* Publishing the tail appends the pushed item. *)
LEMMA PublishAppends ==
  ASSUME NEW t \in Producers, QInv, QInv', PushPublish(t)
  PROVE  Contents' = Append(Contents, pitem[t]) /\ Len(Contents) < Capacity - 1
  <1> DEFINE n == Dist(head, tail)
             f(i) == buffer[Slot(head, i - 1)]
  <1>1. /\ head \in Index /\ tail \in Index /\ NextSlot(tail) # head
        /\ head' = head /\ buffer' = buffer /\ tail' = NextSlot(tail)
        /\ buffer[tail] = pitem[t]
    BY DEF QInv, TypeOK, PushPublish
  <1>2. n \in 0 .. Capacity - 2 /\ Dist(head', tail') = n + 1
    BY <1>1, DistFacts
  <1>3. Contents' = [i \in 1 .. n + 1 |-> f(i)]
    BY <1>1, <1>2 DEF Contents
  <1>4. f(n + 1) = pitem[t]
    <2>1. n \in Nat /\ (n + 1) - 1 = n
      BY <1>2
    <2>2. Slot(head, n) = tail
      BY <1>1, SlotFacts
    <2> QED
      BY <1>1, <2>1, <2>2
  <1>5. /\ Contents \in Seq(Content) /\ Len(Contents) = n
        /\ \A i \in 1 .. n : Contents[i] = f(i)
    BY ContentsFacts
  <1>6. pitem[t] \in Content
    BY DEF QInv, TypeOK, Content
  <1> HIDE DEF n, f
  <1>7. Append(Contents, pitem[t]) =
          [i \in 1 .. n + 1 |-> IF i = n + 1 THEN pitem[t] ELSE Contents[i]]
    BY <1>5, <1>6
  <1>8. \A i \in 1 .. n + 1 : i # n + 1 => i \in 1 .. n
    BY <1>2
  <1> QED
    BY <1>2, <1>3, <1>4, <1>5, <1>7, <1>8

(* Advancing the head takes the first item. *)
LEMMA AdvanceTakesHead ==
  ASSUME QInv, QInv', PopAdvance
  PROVE  Contents # <<>> /\ popped' = Head(Contents) /\ Contents' = Tail(Contents)
  <1> DEFINE n == Dist(head, tail)
             f(i) == buffer[Slot(head, i - 1)]
  <1>1. /\ head \in Index /\ tail \in Index /\ head # tail
        /\ head' = NextSlot(head) /\ buffer' = buffer /\ tail' = tail
        /\ popped' = buffer[head]
    BY DEF QInv, TypeOK, PopAdvance
  <1>2. n \in 1 .. Capacity - 1 /\ Dist(head', tail') = n - 1
    BY <1>1, DistFacts
  <1>3. Contents' = [i \in 1 .. n - 1 |-> buffer[Slot(NextSlot(head), i - 1)]]
    BY <1>1, <1>2 DEF Contents
  <1>4. ASSUME NEW i \in 1 .. n - 1
        PROVE  buffer[Slot(NextSlot(head), i - 1)] = f(i + 1)
    <2>1. i - 1 \in 0 .. Capacity - 2 /\ (i - 1) + 1 = (i + 1) - 1
      BY <1>2
    <2>2. Slot(NextSlot(head), i - 1) = Slot(head, (i - 1) + 1)
      BY <1>1, <2>1, SlotFacts
    <2> QED
      BY <2>1, <2>2
  <1>5. /\ Contents \in Seq(Content) /\ Len(Contents) = n
        /\ \A i \in 1 .. n : Contents[i] = f(i)
    BY ContentsFacts
  <1>6. f(1) = buffer[head]
    BY <1>1, SlotFacts
  <1> HIDE DEF n, f
  <1>7. Contents # <<>> /\ Head(Contents) = Contents[1]
    BY <1>2, <1>5
  <1>8. Tail(Contents) = [i \in 1 .. n - 1 |-> Contents[i + 1]]
    <2>1. /\ Tail(Contents) \in Seq(Content) /\ Len(Tail(Contents)) = n - 1
          /\ \A i \in 1 .. n - 1 : Tail(Contents)[i] = Contents[i + 1]
      BY <1>5, <1>7, HeadTailProperties
    <2>2. Tail(Contents) = [i \in 1 .. n - 1 |-> Tail(Contents)[i]]
      BY <2>1, SeqIsFunction
    <2> QED
      BY <2>1, <2>2
  <1>9. \A i \in 1 .. n - 1 : i + 1 \in 1 .. n
    BY <1>2
  <1>10. 1 \in 1 .. n
    BY <1>2
  <1> QED
    BY <1>1, <1>3, <1>4, <1>5, <1>6, <1>7, <1>8, <1>9, <1>10

(* Writing the slot at the tail changes none of the occupied slots. *)
LEMMA WriteIsInvisible ==
  ASSUME NEW t \in Producers, QInv, PushWrite(t)
  PROVE  Contents' = Contents
  <1>1. /\ head \in Index /\ tail \in Index /\ head' = head /\ tail' = tail
        /\ \A i \in Index : i # tail => buffer'[i] = buffer[i]
    BY DEF QInv, TypeOK, PushWrite
  <1>2. ASSUME NEW i \in 1 .. Dist(head, tail)
        PROVE  buffer'[Slot(head, i - 1)] = buffer[Slot(head, i - 1)]
    <2>1. i - 1 \in 0 .. Dist(head, tail) - 1 /\ i - 1 \in 0 .. Capacity - 1
      BY <1>1, DistFacts
    <2>2. Slot(head, i - 1) # tail /\ Slot(head, i - 1) \in Index
      BY <1>1, <2>1, SlotFacts
    <2> QED
      BY <1>1, <2>2
  <1> QED
    BY <1>1, <1>2 DEF Contents

LEMMA FifoStep ==
  ASSUME QInv, QInv', [Next]_vars
  PROVE  [Fifo!FifoNext]_(Fifo!fifoVars)
  <1> USE DEF producer, consumer, Fifo!fifoVars
  <1>1. CASE UNCHANGED <<buffer, head, tail, pushed, popped>>
    <2>1. Contents' = Contents
      BY <1>1 DEF Contents
    <2> QED
      BY <1>1, <2>1
  <1>2. ASSUME NEW t \in Producers, PushCheckFull(t), NextSlot(ptail[t]) = head
        PROVE  Fifo!FifoNext
    <2>1. Contents' = Contents
      BY <1>2 DEF Contents, PushCheckFull
    <2>2. Len(Contents) = Capacity - 1
      <3>1. NextSlot(tail) = head /\ head \in Index /\ tail \in Index
        BY <1>2 DEF PushCheckFull, QInv, TypeOK
      <3> QED
        BY <3>1, ContentsFacts, DistFacts
    <2>3. pushed' = FALSE /\ popped' = popped
      BY <1>2 DEF PushCheckFull
    <2> QED
      BY <2>1, <2>2, <2>3 DEF Fifo!FifoNext, Fifo!Refuse
  <1>3. ASSUME NEW t \in Producers, PushWrite(t) PROVE UNCHANGED Fifo!fifoVars
    BY <1>3, WriteIsInvisible DEF PushWrite
  <1>4. ASSUME NEW t \in Producers, PushPublish(t) PROVE Fifo!FifoNext
    <2>1. pitem[t] \in Items /\ pushed' = TRUE /\ popped' = popped
      BY <1>4 DEF PushPublish, QInv, TypeOK
    <2>2. Fifo!Accept(pitem[t])
      BY <1>4, <2>1, PublishAppends DEF Fifo!Accept
    <2> QED
      BY <2>1, <2>2 DEF Fifo!FifoNext
  <1>5. CASE PopCheckEmpty /\ chead = tail
    <2>1. Contents' = Contents
      BY <1>5 DEF Contents, PopCheckEmpty
    <2>2. Contents = <<>>
      BY <1>5, ContentsFacts, DistFacts DEF PopCheckEmpty, QInv, TypeOK
    <2>3. popped' = Empty /\ pushed' = pushed
      BY <1>5 DEF PopCheckEmpty
    <2> QED
      BY <2>1, <2>2, <2>3 DEF Fifo!FifoNext, Fifo!FindNothing
  <1>6. CASE PopAdvance
    <2>1. pushed' = pushed
      BY <1>6 DEF PopAdvance
    <2> QED
      BY <1>6, <2>1, AdvanceTakesHead DEF Fifo!FifoNext, Fifo!Take
  <1> QED
    BY <1>1, <1>2, <1>3, <1>4, <1>5, <1>6
    DEF Next, vars, Push, Pop, PushLoadTail, PushCheckFull, PopLoadHead, PopCheckEmpty, PopRead

(* As long as calls of Push do not overlap, LockFreeQueue implements the   *)
(* bounded FIFO queue of Capacity - 1 slots, for any capacity and number   *)
(* of threads: every step of Push and Pop is one of its operations or      *)
(* invisible.                                                              *)
THEOREM ImplementsFifoHolds == Spec /\ []OneAtATime => ImplementsFifo
  <1>1. Init => Fifo!FifoInit
    <2> SUFFICES ASSUME Init PROVE Fifo!FifoInit
      OBVIOUS
    <2>1. QInv /\ head = 0 /\ tail = 0 /\ 0 \in Index
      BY QInvInit DEF Init, Index
    <2>2. Contents = <<>>
      BY <2>1, ContentsFacts, DistFacts
    <2> QED
      BY <2>2 DEF Init, Fifo!FifoInit
  <1>2. QInv /\ OneAtATime /\ OneAtATime' /\ [Next]_vars => QInv'
    BY QInvStep
  <1>3. QInv /\ QInv' /\ [Next]_vars => [Fifo!FifoNext]_(Fifo!fifoVars)
    BY FifoStep
  <1> QED
    BY <1>1, <1>2, <1>3, QInvInit, PTL DEF Spec, ImplementsFifo, Fifo!FifoSpec
=============================================================================
