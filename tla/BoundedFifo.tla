---------------------------- MODULE BoundedFifo ----------------------------
(* What spy/include/queue.h promises its two sides: a bounded queue that   *)
(* keeps the order, refuses an item only when it is full and comes back    *)
(* empty-handed only when it is empty.                                     *)
EXTENDS Naturals, Sequences

CONSTANTS
  Items,   \* what is queued
  Slots,   \* how many items fit
  Empty    \* the outcome of a Pop that found nothing

VARIABLES
  fifo,    \* the items accepted and not yet taken
  pushed,  \* the result of the last Push
  popped   \* the outcome of the last Pop

fifoVars == <<fifo, pushed, popped>>

FifoInit == fifo = <<>> /\ pushed = TRUE /\ popped = Empty

Accept(e) ==
  /\ Len(fifo) < Slots
  /\ fifo' = Append(fifo, e)
  /\ pushed' = TRUE
  /\ UNCHANGED popped

Refuse ==
  /\ Len(fifo) = Slots
  /\ pushed' = FALSE
  /\ UNCHANGED <<fifo, popped>>

Take ==
  /\ fifo # <<>>
  /\ popped' = Head(fifo)
  /\ fifo' = Tail(fifo)
  /\ UNCHANGED pushed

FindNothing ==
  /\ fifo = <<>>
  /\ popped' = Empty
  /\ UNCHANGED <<fifo, pushed>>

FifoNext == (\E e \in Items : Accept(e)) \/ Refuse \/ Take \/ FindNothing

FifoSpec == FifoInit /\ [][FifoNext]_fifoVars
=============================================================================
