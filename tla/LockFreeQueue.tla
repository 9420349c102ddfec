--------------------------- MODULE LockFreeQueue ---------------------------
(***************************************************************************)
(* The ring buffer LockFreeQueue<T> of include/utils/queue.h, one step per *)
(* access to shared memory.  Any number of threads may call enqueue (the   *)
(* application runs one io_context thread per instrument, all on the same  *)
(* queue); exactly one thread calls dequeue.                               *)
(*                                                                         *)
(* head_ and tail_ are std::atomic.  An atomic is modelled by its          *)
(* modification order: the sequence of the values stored in it, the newest *)
(* last.  A load, relaxed or acquire, returns any value of that order that *)
(* is not older than what the loading thread has already seen; it need not *)
(* be the newest.  A release store appends.  The acquire load that returns *)
(* a value synchronises with the release store of that value, so a slot    *)
(* that was accessed before the store may be accessed after the load: the  *)
(* slots themselves are plain memory, and NoDataRace says that no two      *)
(* threads are ever about to access the same one.  Where they are, the     *)
(* behaviour of the program is undefined: the slot may hold either item,   *)
(* or a Msg whose members come from both (Torn).                           *)
(***************************************************************************)
EXTENDS Naturals, Sequences

CONSTANTS
  Producers,  \* the threads that call enqueue
  Capacity,   \* capacity_, a power of two: see RingArithmetic
  Item,       \* the values of T that are enqueued
  NoItem,     \* the default-constructed T that resize() puts in each slot
  Torn,       \* a T left by two accesses of one slot that overlap
  MaxItems    \* bound: no enqueue starts once this many have succeeded

ASSUME QueueAssumption ==
  /\ Producers # {}
  /\ Capacity \in Nat \ {0}
  /\ NoItem \notin Item
  /\ Torn \notin Item \cup {NoItem}
  /\ MaxItems \in Nat

VARIABLES
  buffer,    \* buffer_
  headLog,   \* modification order of head_
  tailLog,   \* modification order of tail_
  headSeen,  \* headSeen[p]: position of headLog that p's loads have reached
  tailSeen,  \* tailSeen[p]: position of tailLog that p's loads and stores have reached
  pc,        \* pc[p]: where p is inside enqueue
  tail,      \* tail[p]: the local variable tail of p's enqueue
  item,      \* item[p]: the argument of p's enqueue
  cpc,       \* where the consumer is inside dequeue
  ctail,     \* position of tailLog that the consumer's loads have reached
  out,       \* the reference argument of dequeue
  sent,      \* history: the items whose enqueue returned true, in the order of their stores to tail_
  got        \* history: the items whose dequeue returned true

producerVars == <<headSeen, tailSeen, pc, tail, item>>
consumerVars == <<cpc, ctail, out, got>>
queueVars == <<buffer, headLog, tailLog, producerVars, consumerVars, sent>>

Index == 0 .. Capacity - 1

(* What a slot, or the message that dequeue copies out of it, may hold.    *)
Slot == Item \cup {NoItem, Torn}

(* Mutant of NextIndex: the index moves on twice.                          *)
NextIndexTwice(i) == (i + 2) % Capacity

(* (i + 1) & (capacity_ - 1), for a capacity_ that is a power of two.      *)
NextIndex(i) == (i + 1) % Capacity

(* Only dequeue stores to head_, so its relaxed load reads the newest.     *)
head == headLog[Len(headLog)]

-----------------------------------------------------------------------------
QueueInit ==
  /\ buffer = [i \in Index |-> NoItem]
  /\ headLog = <<0>>
  /\ tailLog = <<0>>
  /\ headSeen = [p \in Producers |-> 1]
  /\ tailSeen = [p \in Producers |-> 1]
  /\ pc = [p \in Producers |-> "idle"]
  /\ tail = [p \in Producers |-> 0]
  /\ item = [p \in Producers |-> NoItem]
  /\ cpc = "idle"
  /\ ctail = 1
  /\ out = NoItem
  /\ sent = <<>>
  /\ got = <<>>

(***************************************************************************)
(* enqueue                                                                 *)
(***************************************************************************)

(* tail = tail_.load(relaxed)                                              *)
EnqueueLoadTail(p, m) ==
  /\ pc[p] = "idle"
  /\ \E k \in tailSeen[p] .. Len(tailLog) :
       /\ tailSeen' = [tailSeen EXCEPT ![p] = k]
       /\ tail' = [tail EXCEPT ![p] = tailLog[k]]
  /\ item' = [item EXCEPT ![p] = m]
  /\ pc' = [pc EXCEPT ![p] = "check"]
  /\ UNCHANGED <<buffer, headLog, tailLog, headSeen, consumerVars, sent>>

(* head_.load(acquire) equals next_tail: return false                      *)
EnqueueFull(p) ==
  /\ pc[p] = "check"
  /\ \E k \in headSeen[p] .. Len(headLog) :
       /\ NextIndex(tail[p]) = headLog[k]
       /\ headSeen' = [headSeen EXCEPT ![p] = k]
  /\ pc' = [pc EXCEPT ![p] = "idle"]
  /\ UNCHANGED <<buffer, headLog, tailLog, tailSeen, tail, item, consumerVars, sent>>

(* Mutant of EnqueueHasRoom: the test for a full queue is forgotten.       *)
EnqueueUntested(p) ==
  /\ pc[p] = "check"
  /\ pc' = [pc EXCEPT ![p] = "write"]
  /\ UNCHANGED <<buffer, headLog, tailLog, headSeen, tailSeen, tail, item, consumerVars, sent>>

(* head_.load(acquire) differs from next_tail: go on                       *)
EnqueueHasRoom(p) ==
  /\ pc[p] = "check"
  /\ \E k \in headSeen[p] .. Len(headLog) :
       /\ NextIndex(tail[p]) # headLog[k]
       /\ headSeen' = [headSeen EXCEPT ![p] = k]
  /\ pc' = [pc EXCEPT ![p] = "write"]
  /\ UNCHANGED <<buffer, headLog, tailLog, tailSeen, tail, item, consumerVars, sent>>

(* Some enqueue other than p's is about to write slot i.                   *)
OtherWriter(p, i) == \E q \in Producers \ {p} : pc[q] = "write" /\ tail[q] = i

(* buffer_[tail] = item                                                    *)
EnqueueWrite(p) ==
  /\ pc[p] = "write"
  /\ \E v \in {item[p], Torn} :
       /\ v = Torn => OtherWriter(p, tail[p])
       /\ buffer' = [buffer EXCEPT ![tail[p]] = v]
  /\ pc' = [pc EXCEPT ![p] = "publish"]
  /\ UNCHANGED <<headLog, tailLog, headSeen, tailSeen, tail, item, consumerVars, sent>>

(* tail_.store(next_tail, release); return true                            *)
EnqueuePublish(p) ==
  /\ pc[p] = "publish"
  /\ tailLog' = Append(tailLog, NextIndex(tail[p]))
  /\ tailSeen' = [tailSeen EXCEPT ![p] = Len(tailLog) + 1]
  /\ sent' = Append(sent, item[p])
  /\ pc' = [pc EXCEPT ![p] = "idle"]
  /\ UNCHANGED <<buffer, headLog, headSeen, tail, item, consumerVars>>

EnqueueStep(p) ==
  EnqueueFull(p) \/ EnqueueHasRoom(p) \/ EnqueueWrite(p) \/ EnqueuePublish(p)

(***************************************************************************)
(* dequeue                                                                 *)
(***************************************************************************)

(* tail_.load(acquire) equals head: return false                           *)
DequeueEmpty ==
  /\ cpc = "idle"
  /\ \E k \in ctail .. Len(tailLog) : head = tailLog[k] /\ ctail' = k
  /\ UNCHANGED <<buffer, headLog, tailLog, producerVars, cpc, out, got, sent>>

(* Mutant of DequeueFound: the last item is taken for the end of the queue. *)
DequeueFoundTwo ==
  /\ cpc = "idle"
  /\ \E k \in ctail .. Len(tailLog) :
       /\ tailLog[k] \notin {head, NextIndex(head)}
       /\ ctail' = k
  /\ cpc' = "read"
  /\ UNCHANGED <<buffer, headLog, tailLog, producerVars, out, got, sent>>

(* tail_.load(acquire) differs from head: go on                            *)
DequeueFound ==
  /\ cpc = "idle"
  /\ \E k \in ctail .. Len(tailLog) : head # tailLog[k] /\ ctail' = k
  /\ cpc' = "read"
  /\ UNCHANGED <<buffer, headLog, tailLog, producerVars, out, got, sent>>

(* Mutant of DequeueRead: head is advanced before the slot is read.        *)
DequeueReadNext ==
  /\ cpc = "read"
  /\ out' = buffer[NextIndex(head)]
  /\ cpc' = "advance"
  /\ UNCHANGED <<buffer, headLog, tailLog, producerVars, ctail, got, sent>>

(* item = buffer_[head]                                                    *)
DequeueRead ==
  /\ cpc = "read"
  /\ out' \in {buffer[head], Torn}
  /\ out' = Torn => buffer[head] = Torn \/ \E p \in Producers : pc[p] = "write" /\ tail[p] = head
  /\ cpc' = "advance"
  /\ UNCHANGED <<buffer, headLog, tailLog, producerVars, ctail, got, sent>>

(* Mutants of DequeueAdvance: head_ is set to the tail_ that was loaded;   *)
(* head_ is not stored.                                                    *)
DequeueToTail ==
  /\ cpc = "advance"
  /\ headLog' = Append(headLog, tailLog[ctail])
  /\ got' = Append(got, out)
  /\ cpc' = "idle"
  /\ UNCHANGED <<buffer, tailLog, producerVars, ctail, out, sent>>

DequeueInPlace ==
  /\ cpc = "advance"
  /\ got' = Append(got, out)
  /\ cpc' = "idle"
  /\ UNCHANGED <<buffer, headLog, tailLog, producerVars, ctail, out, sent>>

(* head_.store((head + 1) & (capacity_ - 1), release); return true         *)
DequeueAdvance ==
  /\ cpc = "advance"
  /\ headLog' = Append(headLog, NextIndex(head))
  /\ got' = Append(got, out)
  /\ cpc' = "idle"
  /\ UNCHANGED <<buffer, tailLog, producerVars, ctail, out, sent>>

DequeueStep == DequeueEmpty \/ DequeueFound \/ DequeueRead \/ DequeueAdvance

-----------------------------------------------------------------------------
(* The producers call enqueue with any item.                               *)
EnqueueCall(p) ==
  /\ Len(sent) < MaxItems
  /\ \E m \in Item : EnqueueLoadTail(p, m)

QueueNext ==
  \/ \E p \in Producers : EnqueueCall(p) \/ EnqueueStep(p)
  \/ DequeueStep

(* The consumer's io_context thread polls for ever and every call of       *)
(* enqueue runs to its end; nothing makes anyone call enqueue.             *)
QueueFairness ==
  /\ \A p \in Producers : WF_queueVars(EnqueueStep(p))
  /\ WF_queueVars(DequeueFound)
  /\ WF_queueVars(DequeueRead \/ DequeueAdvance)

QueueSpec == QueueInit /\ [][QueueNext]_queueVars

FairQueueSpec == QueueSpec /\ QueueFairness

-----------------------------------------------------------------------------
QueueTypeOK ==
  /\ buffer \in [Index -> Slot]
  /\ headLog \in Seq(Index) \ {<<>>}
  /\ tailLog \in Seq(Index) \ {<<>>}
  /\ headSeen \in [Producers -> 1 .. Len(headLog)]
  /\ tailSeen \in [Producers -> 1 .. Len(tailLog)]
  /\ pc \in [Producers -> {"idle", "check", "write", "publish"}]
  /\ tail \in [Producers -> Index]
  /\ item \in [Producers -> Item \cup {NoItem}]
  /\ \A p \in Producers : pc[p] # "idle" => item[p] \in Item
  /\ cpc \in {"idle", "read", "advance"}
  /\ ctail \in 1 .. Len(tailLog)
  /\ out \in Slot
  /\ sent \in Seq(Item)
  /\ got \in Seq(Slot)

(* No two threads are about to access the same slot, one of them writing:  *)
(* buffer_[tail] = item of two enqueues, or of one enqueue and the         *)
(* item = buffer_[head] of dequeue, never overlap.                         *)
NoDataRace ==
  \A p \in Producers : pc[p] = "write" =>
    /\ cpc = "read" => tail[p] # head
    /\ \A q \in Producers \ {p} : pc[q] = "write" => tail[p] # tail[q]

(* What dequeue has returned is what enqueue accepted, in the same order:  *)
(* nothing is lost, repeated, reordered or read from a slot that was never *)
(* written, however stale the loads of head_ and tail_ are.                *)
FifoOrder ==
  /\ Len(got) <= Len(sent)
  /\ \A i \in 1 .. Len(got) : got[i] = sent[i]

(* An item whose enqueue returned true stays in its slot until dequeue has *)
(* advanced past it: no enqueue overwrites an unread slot.  Item number n  *)
(* is in slot (n - 1) % capacity_.                                         *)
UnreadKept ==
  \A n \in Len(got) + 1 .. Len(sent) : buffer[(n - 1) % Capacity] = sent[n]

(* "Queue is full" and "Queue is empty" compare two slot indices, one of   *)
(* them possibly stale.  Whatever value of the other side's index is       *)
(* loaded, the answer is right about the number of items as of that value: *)
(* full says that exactly capacity_ - 1 items wait, so no slot is wasted   *)
(* and a wrapped index is never taken for a full ring; empty says that     *)
(* everything published up to then has been dequeued.                      *)
VerdictsExact ==
  /\ \A p \in Producers : pc[p] = "check" =>
       \A k \in headSeen[p] .. Len(headLog) :
         NextIndex(tail[p]) = headLog[k] <=> Len(sent) - (k - 1) = Capacity - 1
  /\ cpc = "idle" =>
       \A k \in ctail .. Len(tailLog) :
         head = tailLog[k] <=> Len(got) = k - 1

(* Every accepted item is dequeued: with the consumer polling, no item     *)
(* stays behind in the ring, not even the last one before the producer     *)
(* falls silent.                                                           *)
Drained == \A n \in 1 .. MaxItems : Len(sent) >= n ~> Len(got) >= n

(* The contract under which the properties above hold: one thread enqueues. *)
SingleProducer == \A p, q \in Producers : p = q

(***************************************************************************)
(* The inductive invariant behind the properties above, for one producer.  *)
(* The indices are item numbers modulo capacity_, and the views of the two *)
(* threads stay within one lap of each other.                              *)
(***************************************************************************)
IndicesFollowItems ==
  /\ Len(tailLog) = Len(sent) + 1
  /\ Len(headLog) = Len(got) + 1
  /\ \A k \in 1 .. Len(tailLog) : tailLog[k] = (k - 1) % Capacity
  /\ \A k \in 1 .. Len(headLog) : headLog[k] = (k - 1) % Capacity

ProducerInv(p) ==
  /\ tailSeen[p] = Len(tailLog)
  /\ Len(sent) - (headSeen[p] - 1) <= Capacity - 1
  /\ pc[p] # "idle" => tail[p] = Len(sent) % Capacity
  /\ pc[p] \in {"write", "publish"} => Len(sent) - (headSeen[p] - 1) < Capacity - 1
  /\ pc[p] = "publish" => buffer[tail[p]] = item[p]

ConsumerInv ==
  /\ Len(got) <= ctail - 1
  /\ cpc # "idle" => Len(got) < ctail - 1
  /\ cpc = "advance" => out = sent[Len(got) + 1]

SpscInv ==
  /\ QueueTypeOK
  /\ IndicesFollowItems
  /\ \A p \in Producers : ProducerInv(p)
  /\ ConsumerInv
  /\ UnreadKept
  /\ FifoOrder

(***************************************************************************)
(* With one producer the queue implements a bounded FIFO of capacity_ - 1  *)
(* items: the FIFO holds the slots from head_ up to tail_.                 *)
(***************************************************************************)
Contents ==
  [i \in 1 .. (tailLog[Len(tailLog)] + Capacity - head) % Capacity |->
     buffer[(head + i - 1) % Capacity]]

Fifo == INSTANCE BoundedFifo WITH fifo <- Contents, Limit <- Capacity - 1

ImplementsFifo == Fifo!FifoSpec
=============================================================================
