------------------------------ MODULE SpyQueue ------------------------------
(***************************************************************************)
(* LockFreeQueue of spy/include/queue.h: a ring buffer between the threads *)
(* that call ncclAllReduce (Push) and the BackgroundSender (Pop), one step *)
(* per shared access.  head_ and tail_ are atomics with acquire/release    *)
(* order, so their accesses interleave; the slots are plain memory, and a  *)
(* slot written while another thread accesses it may hold anything.        *)
(***************************************************************************)
EXTENDS Integers, Sequences

CONSTANTS
  Producers,  \* threads that call ncclAllReduce
  Capacity,   \* slots of the ring, 4096 in the code
  Items,      \* metric events
  Garbage,    \* in a slot never written, or accessed by two threads at once
  Empty       \* the outcome of a Pop that found nothing

ASSUME CapacityAssumption == Capacity \in Nat \ {0, 1}

ASSUME ItemAssumption == Garbage \notin Items /\ Empty \notin Items \cup {Garbage}

Index   == 0 .. Capacity - 1
Content == Items \cup {Garbage}

VARIABLES
  buffer, head, tail,      \* the queue
  ppc, ptail, pitem,       \* Push by producer: next step, local tail, argument
  cpc, chead, citem,       \* Pop: next step, local head, the item being returned
  pushed, popped           \* results of the last Push and the last Pop

producer == <<ppc, ptail, pitem, pushed>>
consumer == <<cpc, chead, citem, popped>>
vars == <<buffer, head, tail, producer, consumer>>

TypeOK ==
  /\ buffer \in [Index -> Content]
  /\ head \in Index /\ tail \in Index
  /\ ppc   \in [Producers -> {"idle", "check", "write", "publish"}]
  /\ ptail \in [Producers -> Index]
  /\ pitem \in [Producers -> Items]
  /\ cpc   \in {"idle", "check", "read", "advance"}
  /\ chead \in Index
  /\ citem \in Content
  /\ pushed \in BOOLEAN
  /\ popped \in Content \cup {Empty}

(* No slot of the static buffer holds an event yet. *)
Init ==
  /\ buffer = [i \in Index |-> Garbage]
  /\ head = 0 /\ tail = 0
  /\ ppc   = [t \in Producers |-> "idle"]
  /\ ptail = [t \in Producers |-> 0]
  /\ pitem \in [Producers -> Items]
  /\ cpc = "idle" /\ chead = 0 /\ citem = Garbage
  /\ pushed = TRUE /\ popped = Empty

(* Mutant: the index does not wrap around. *)
NextSlotNoWrap(i) == i + 1

NextSlot(i) == (i + 1) % Capacity
-----------------------------------------------------------------------------
(* Push *)

PushLoadTail(t, e) ==
  /\ ppc[t] = "idle"
  /\ ptail' = [ptail EXCEPT ![t] = tail]
  /\ pitem' = [pitem EXCEPT ![t] = e]
  /\ ppc'   = [ppc EXCEPT ![t] = "check"]
  /\ UNCHANGED <<buffer, head, tail, pushed, consumer>>

(* Mutant: a full queue is not noticed. *)
PushIgnoresFull(t) ==
  /\ ppc[t] = "check"
  /\ ppc' = [ppc EXCEPT ![t] = "write"]
  /\ UNCHANGED <<buffer, head, tail, ptail, pitem, pushed, consumer>>

PushCheckFull(t) ==
  /\ ppc[t] = "check"
  /\ IF NextSlot(ptail[t]) = head
     THEN ppc' = [ppc EXCEPT ![t] = "idle"] /\ pushed' = FALSE
     ELSE ppc' = [ppc EXCEPT ![t] = "write"] /\ UNCHANGED pushed
  /\ UNCHANGED <<buffer, head, tail, ptail, pitem, consumer>>

(* Another thread is accessing the slot that t writes. *)
WriteRaces(t) ==
  \/ cpc = "read" /\ chead = ptail[t]
  \/ \E u \in Producers \ {t} : ppc[u] = "write" /\ ptail[u] = ptail[t]

PushWrite(t) ==
  /\ ppc[t] = "write"
  /\ \E v \in {pitem[t]} \cup {x \in {Garbage} : WriteRaces(t)} :
       buffer' = [buffer EXCEPT ![ptail[t]] = v]
  /\ ppc' = [ppc EXCEPT ![t] = "publish"]
  /\ UNCHANGED <<head, tail, ptail, pitem, pushed, consumer>>

PushPublish(t) ==
  /\ ppc[t] = "publish"
  /\ tail' = NextSlot(ptail[t])
  /\ ppc'  = [ppc EXCEPT ![t] = "idle"]
  /\ pushed' = TRUE
  /\ UNCHANGED <<buffer, head, ptail, pitem, consumer>>
-----------------------------------------------------------------------------
(* Pop *)

PopLoadHead ==
  /\ cpc = "idle"
  /\ chead' = head
  /\ cpc'   = "check"
  /\ UNCHANGED <<buffer, head, tail, producer, citem, popped>>

(* Mutant: a full queue is taken for an empty one. *)
PopConfusesFull ==
  /\ cpc = "check"
  /\ IF chead = tail \/ chead = NextSlot(tail)
     THEN cpc' = "idle" /\ popped' = Empty
     ELSE cpc' = "read" /\ UNCHANGED popped
  /\ UNCHANGED <<buffer, head, tail, producer, chead, citem>>

PopCheckEmpty ==
  /\ cpc = "check"
  /\ IF chead = tail
     THEN cpc' = "idle" /\ popped' = Empty
     ELSE cpc' = "read" /\ UNCHANGED popped
  /\ UNCHANGED <<buffer, head, tail, producer, chead, citem>>

ReadRaces == \E t \in Producers : ppc[t] = "write" /\ ptail[t] = chead

PopRead ==
  /\ cpc = "read"
  /\ citem' \in {buffer[chead]} \cup {x \in {Garbage} : ReadRaces}
  /\ cpc' = "advance"
  /\ UNCHANGED <<buffer, head, tail, producer, chead, popped>>

(* Mutant: the item is read once more after the slot was given back. *)
PopReturnsNextItem ==
  /\ cpc = "advance"
  /\ head' = NextSlot(chead)
  /\ cpc'  = "idle"
  /\ popped' = buffer[head']
  /\ UNCHANGED <<buffer, tail, producer, chead, citem>>

PopAdvance ==
  /\ cpc = "advance"
  /\ head' = NextSlot(chead)
  /\ cpc'  = "idle"
  /\ popped' = citem
  /\ UNCHANGED <<buffer, tail, producer, chead, citem>>
-----------------------------------------------------------------------------
Push(t) == (\E e \in Items : PushLoadTail(t, e)) \/ PushCheckFull(t) \/ PushWrite(t) \/ PushPublish(t)
Pop     == PopLoadHead \/ PopCheckEmpty \/ PopRead \/ PopAdvance

Next == (\E t \in Producers : Push(t)) \/ Pop

Spec == Init /\ [][Next]_vars

(* BackgroundSender calls Pop in a loop and never blocks in between. *)
FairSpec == Spec /\ WF_vars(Pop)
-----------------------------------------------------------------------------
(* Properties *)

(* The occupied slots, oldest first. *)
Dist(h, t) == IF h <= t THEN t - h ELSE t + Capacity - h
Slot(h, i) == IF h + i < Capacity THEN h + i ELSE h + i - Capacity

Contents == [i \in 1 .. Dist(head, tail) |-> buffer[Slot(head, i - 1)]]

Fifo == INSTANCE BoundedFifo WITH Slots <- Capacity - 1, fifo <- Contents

(* With one producer the ring is the bounded FIFO: nothing accepted is     *)
(* lost, repeated or reordered, Push fails only on a full queue and Pop    *)
(* only on an empty one.                                                   *)
ImplementsFifo == Fifo!FifoSpec

(* No slot is accessed by two threads at once, one of them writing: the    *)
(* non-atomic copies of the events in Push and Pop never overlap.          *)
NoDataRace ==
  /\ \A t \in Producers : ppc[t] = "write" => ~WriteRaces(t)
  /\ cpc = "read" => ~ReadRaces

(* A full queue does not stay full: the sender makes room, so Push does    *)
(* not go on dropping events for ever.                                     *)
FullQueueDrains == []<>(Dist(head, tail) < Capacity - 1)
=============================================================================
