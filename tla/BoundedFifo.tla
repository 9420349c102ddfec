---------------------------- MODULE BoundedFifo ----------------------------
(***************************************************************************)
(* What a bounded queue promises its callers: items leave in the order in  *)
(* which they came, each exactly once, and at most Limit of them wait.     *)
(* Refusing an item, or finding the queue empty, changes nothing.          *)
(***************************************************************************)
EXTENDS Naturals, Sequences

CONSTANTS Item, Limit

VARIABLE fifo

FifoInit == fifo = <<>>

Put ==
  /\ Len(fifo) < Limit
  /\ \E m \in Item : fifo' = Append(fifo, m)

Get ==
  /\ fifo # <<>>
  /\ fifo' = Tail(fifo)

FifoSafeSpec == FifoInit /\ [][Put \/ Get]_fifo

(* The consumer keeps asking.                                              *)
FifoSpec == FifoSafeSpec /\ WF_fifo(Get)
=============================================================================
