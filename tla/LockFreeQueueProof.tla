------------------------- MODULE LockFreeQueueProof -------------------------
(***************************************************************************)
(* Theorems about LockFreeQueue, for every capacity, set of items and      *)
(* number of enqueues, and for every stale value a load may return.        *)
(***************************************************************************)
EXTENDS LockFreeQueue, NaturalLemmas, SequenceTheorems

(* The slot after a slot of the ring is a slot of the ring.                *)
LEMMA NextIndexInRange ==
  ASSUME NEW i \in Index
  PROVE  NextIndex(i) \in Index
BY QueueAssumption, DivMod DEF Index, NextIndex

(* The newest head_ is a slot of the ring.                                 *)
LEMMA HeadInRange ==
  ASSUME QueueTypeOK
  PROVE  head \in Index
BY DEF QueueTypeOK, head

-----------------------------------------------------------------------------
(***************************************************************************)
(* Type correctness, for any number of producers: no store to tail_ or     *)
(* head_, however threads race, leaves the ring, so buffer_ is never       *)
(* accessed out of bounds.                                                 *)
(***************************************************************************)
(* A new queue is well typed.                                              *)
LEMMA TypeInit == QueueInit => QueueTypeOK
BY QueueAssumption DEF QueueInit, QueueTypeOK, Index, Slot

(* Every step of enqueue and of dequeue keeps the types.                   *)
LEMMA TypeNext == QueueTypeOK /\ [QueueNext]_queueVars => QueueTypeOK'
<1> SUFFICES ASSUME QueueTypeOK, [QueueNext]_queueVars
             PROVE  QueueTypeOK'
  OBVIOUS
<1> USE DEF QueueTypeOK
<1>1. ASSUME NEW p \in Producers, EnqueueCall(p)
      PROVE  QueueTypeOK'
  BY <1>1 DEF EnqueueCall, EnqueueLoadTail, consumerVars, Slot
<1>2. ASSUME NEW p \in Producers, EnqueueFull(p)
      PROVE  QueueTypeOK'
  BY <1>2 DEF EnqueueFull, consumerVars
<1>3. ASSUME NEW p \in Producers, EnqueueHasRoom(p)
      PROVE  QueueTypeOK'
  BY <1>3 DEF EnqueueHasRoom, consumerVars
<1>4. ASSUME NEW p \in Producers, EnqueueWrite(p)
      PROVE  QueueTypeOK'
  BY <1>4 DEF EnqueueWrite, consumerVars, Slot
<1>5. ASSUME NEW p \in Producers, EnqueuePublish(p)
      PROVE  QueueTypeOK'
  <2>1. NextIndex(tail[p]) \in Index
    BY NextIndexInRange
  <2>2. /\ tailLog' \in Seq(Index)
        /\ Len(tailLog') = Len(tailLog) + 1
    BY <1>5, <2>1 DEF EnqueuePublish
  <2>3. item[p] \in Item
    BY <1>5 DEF EnqueuePublish
  <2> QED
    BY <1>5, <2>1, <2>2, <2>3 DEF EnqueuePublish, consumerVars
<1>6. CASE DequeueEmpty
  BY <1>6 DEF DequeueEmpty, producerVars
<1>7. CASE DequeueFound
  BY <1>7 DEF DequeueFound, producerVars
<1>8. CASE DequeueRead
  BY <1>8, HeadInRange DEF DequeueRead, producerVars, Slot
<1>9. CASE DequeueAdvance
  <2>1. NextIndex(head) \in Index
    BY HeadInRange, NextIndexInRange
  <2>2. /\ headLog' \in Seq(Index)
        /\ Len(headLog') = Len(headLog) + 1
    BY <1>9, <2>1 DEF DequeueAdvance
  <2>3. UNCHANGED <<buffer, tailLog, producerVars, ctail, out, sent>>
    BY <1>9 DEF DequeueAdvance
  <2>4. headSeen' \in [Producers -> 1 .. Len(headLog')]
    BY <2>2, <2>3 DEF producerVars
  <2>5. got' \in Seq(Slot) /\ cpc' = "idle"
    BY <1>9 DEF DequeueAdvance
  <2>6. headLog' # <<>>
    BY <2>2
  <2> QED
    BY <2>2, <2>3, <2>4, <2>5, <2>6 DEF producerVars
<1>10. CASE UNCHANGED queueVars
  BY <1>10 DEF queueVars, producerVars, consumerVars
<1> QED
  BY <1>1, <1>2, <1>3, <1>4, <1>5, <1>6, <1>7, <1>8, <1>9, <1>10
  DEF QueueNext, EnqueueStep, DequeueStep

(* However many threads race in enqueue, every index stays inside the ring *)
(* and every local of enqueue and dequeue keeps its type.                  *)
THEOREM TypeCorrect == QueueSpec => []QueueTypeOK
BY TypeInit, TypeNext, PTL DEF QueueSpec

-----------------------------------------------------------------------------
(***************************************************************************)
(* One producer: SpscInv is inductive.                                     *)
(***************************************************************************)
(* A new queue, with both indices 0, satisfies the invariant.              *)
LEMMA SpscInit == QueueInit => SpscInv
<1> SUFFICES ASSUME QueueInit PROVE SpscInv
  OBVIOUS
<1>1. QueueTypeOK
  BY TypeInit
<1>2. 0 % Capacity = 0
  BY QueueAssumption, SmallSlot
<1> QED
  BY <1>1, <1>2, QueueAssumption
  DEF QueueInit, SpscInv, IndicesFollowItems, ProducerInv, ConsumerInv, UnreadKept, FifoOrder

(* How far the two ends of the ring are apart, and which slots they are.   *)
LEMMA SpscFacts ==
  ASSUME SpscInv
  PROVE  /\ Capacity \in Nat \ {0}
         /\ Len(sent) \in Nat
         /\ Len(got) \in Nat
         /\ Len(got) <= Len(sent)
         /\ Len(sent) < Len(got) + Capacity
         /\ ctail - 1 \in Len(got) .. Len(sent)
         /\ head = Len(got) % Capacity
<1> USE QueueAssumption DEF SpscInv, QueueTypeOK
<1>1. Len(sent) \in Nat /\ Len(got) \in Nat
  OBVIOUS
<1>2. ctail - 1 \in Len(got) .. Len(sent)
  BY <1>1 DEF IndicesFollowItems, ConsumerInv
<1>3. PICK p \in Producers : TRUE
  OBVIOUS
<1>4. headSeen[p] \in 1 .. Len(got) + 1
  BY DEF IndicesFollowItems
<1>5. Len(sent) < Len(got) + Capacity
  BY <1>1, <1>4 DEF ProducerInv
<1>6. head = Len(got) % Capacity
  BY <1>1 DEF head, IndicesFollowItems
<1> QED
  BY <1>1, <1>2, <1>5, <1>6

(* With one producer, every step of enqueue and of dequeue, with whatever  *)
(* stale index it loads, preserves the invariant.                          *)
LEMMA SpscNext ==
  ASSUME SingleProducer
  PROVE  SpscInv /\ [QueueNext]_queueVars => SpscInv'
<1> SUFFICES ASSUME SpscInv, [QueueNext]_queueVars
             PROVE  SpscInv'
  OBVIOUS
<1>t. QueueTypeOK /\ QueueTypeOK'
  BY TypeNext DEF SpscInv
<1>f. /\ Capacity \in Nat \ {0}
      /\ Len(sent) \in Nat
      /\ Len(got) \in Nat
      /\ Len(got) <= Len(sent)
      /\ Len(sent) < Len(got) + Capacity
      /\ ctail - 1 \in Len(got) .. Len(sent)
      /\ head = Len(got) % Capacity
  BY SpscFacts
<1>1. ASSUME NEW p \in Producers, EnqueueCall(p)
      PROVE  SpscInv'
  <2>1. UNCHANGED <<buffer, headLog, tailLog, headSeen, consumerVars, sent>>
    BY <1>1 DEF EnqueueCall, EnqueueLoadTail
  <2>2. /\ tailSeen[p] = Len(tailLog)
        /\ tailLog[Len(tailLog)] = Len(sent) % Capacity
    BY <1>t, <1>f DEF SpscInv, ProducerInv, IndicesFollowItems
  <2>3. /\ tailSeen'[p] = Len(tailLog)
        /\ tail'[p] = Len(sent) % Capacity
        /\ pc'[p] = "check"
    BY <1>1, <1>t, <2>2 DEF EnqueueCall, EnqueueLoadTail, QueueTypeOK
  <2>4. \A q \in Producers : ProducerInv(q)'
    BY <1>t, <2>1, <2>3 DEF SpscInv, ProducerInv, SingleProducer
  <2> QED
    BY <1>t, <2>1, <2>4 DEF SpscInv, IndicesFollowItems, ConsumerInv, UnreadKept, FifoOrder, consumerVars
<1>2. ASSUME NEW p \in Producers, EnqueueFull(p)
      PROVE  SpscInv'
  <2>1. UNCHANGED <<buffer, headLog, tailLog, tailSeen, tail, item, consumerVars, sent>>
    BY <1>2 DEF EnqueueFull
  <2>2. headSeen'[p] >= headSeen[p] /\ pc'[p] = "idle"
    BY <1>2, <1>t DEF EnqueueFull, QueueTypeOK
  <2>3. \A q \in Producers : ProducerInv(q)'
    BY <1>t, <1>f, <2>1, <2>2 DEF SpscInv, ProducerInv, SingleProducer, QueueTypeOK
  <2> QED
    BY <1>t, <2>1, <2>3 DEF SpscInv, IndicesFollowItems, ConsumerInv, UnreadKept, FifoOrder, consumerVars
<1>3. ASSUME NEW p \in Producers, EnqueueHasRoom(p)
      PROVE  SpscInv'
  <2>1. UNCHANGED <<buffer, headLog, tailLog, tailSeen, tail, item, consumerVars, sent>>
    BY <1>3 DEF EnqueueHasRoom
  <2>2. PICK k \in headSeen[p] .. Len(headLog) :
          /\ NextIndex(tail[p]) # headLog[k]
          /\ headSeen' = [headSeen EXCEPT ![p] = k]
    BY <1>3 DEF EnqueueHasRoom
  <2>3. k - 1 \in Nat /\ headLog[k] = (k - 1) % Capacity
    BY <1>t DEF SpscInv, IndicesFollowItems, QueueTypeOK
  <2>4. tail[p] = Len(sent) % Capacity /\ Len(sent) - (headSeen[p] - 1) <= Capacity - 1
    BY <1>3 DEF EnqueueHasRoom, SpscInv, ProducerInv
  <2>5. NextIndex(tail[p]) = (Len(sent) + 1) % Capacity
    BY <1>f, <2>4, NextSlot DEF NextIndex
  <2>6. Len(sent) - (k - 1) # Capacity - 1
    <3>1. SUFFICES ASSUME Len(sent) - (k - 1) = Capacity - 1 PROVE FALSE
      OBVIOUS
    <3>2. Len(sent) + 1 = (k - 1) + Capacity
      BY <3>1, <1>f, <2>3
    <3> QED
      BY <3>2, <2>2, <2>3, <2>5, <1>f, LapLater
  <2>7. Len(sent) - (k - 1) < Capacity - 1
    <3>1. headSeen[p] \in Nat /\ k \in Nat /\ headSeen[p] <= k
      BY <1>t DEF QueueTypeOK
    <3> QED
      BY <2>4, <2>6, <1>f, <3>1
  <2>8. headSeen'[p] = k /\ pc'[p] = "write"
    BY <1>3, <1>t, <2>2 DEF EnqueueHasRoom, QueueTypeOK
  <2>9. \A q \in Producers : ProducerInv(q)'
    BY <1>t, <1>f, <2>1, <2>4, <2>7, <2>8 DEF SpscInv, ProducerInv, SingleProducer
  <2> QED
    BY <1>t, <2>1, <2>9 DEF SpscInv, IndicesFollowItems, ConsumerInv, UnreadKept, FifoOrder, consumerVars
<1>4. ASSUME NEW p \in Producers, EnqueueWrite(p)
      PROVE  SpscInv'
  <2>1. UNCHANGED <<headLog, tailLog, headSeen, tailSeen, tail, item, consumerVars, sent>>
    BY <1>4 DEF EnqueueWrite
  <2>2. ~ OtherWriter(p, tail[p])
    BY DEF OtherWriter, SingleProducer
  <2>3. buffer' = [buffer EXCEPT ![tail[p]] = item[p]] /\ pc' = [pc EXCEPT ![p] = "publish"]
    BY <1>4, <2>2 DEF EnqueueWrite
  <2>4. /\ tail[p] = Len(sent) % Capacity
        /\ Len(sent) - (headSeen[p] - 1) < Capacity - 1
    BY <1>4 DEF EnqueueWrite, SpscInv, ProducerInv
  <2>5. \A q \in Producers : ProducerInv(q)'
    BY <1>t, <2>1, <2>3, <2>4 DEF SpscInv, ProducerInv, SingleProducer, QueueTypeOK
  <2>6. UnreadKept'
    <3> SUFFICES ASSUME NEW n \in Len(got) + 1 .. Len(sent)
                 PROVE  buffer'[(n - 1) % Capacity] = sent[n]
      BY <2>1 DEF UnreadKept, consumerVars
    <3>1. n - 1 \in Nat /\ n - 1 < Len(sent) /\ Len(sent) < (n - 1) + Capacity
      BY <1>f
    <3>2. (n - 1) % Capacity # Len(sent) % Capacity
      BY <3>1, <1>f, DistinctSlots
    <3>3. (n - 1) % Capacity \in Index
      BY <3>1, <1>f, DivMod DEF Index
    <3>4. buffer'[(n - 1) % Capacity] = buffer[(n - 1) % Capacity]
      BY <3>2, <3>3, <2>3, <2>4, <1>t DEF QueueTypeOK
    <3> QED
      BY <3>4 DEF SpscInv, UnreadKept
  <2> QED
    BY <1>t, <2>1, <2>5, <2>6 DEF SpscInv, IndicesFollowItems, ConsumerInv, FifoOrder, consumerVars
<1>5. ASSUME NEW p \in Producers, EnqueuePublish(p)
      PROVE  SpscInv'
  <2>1. UNCHANGED <<buffer, headLog, headSeen, tail, item, consumerVars>>
    BY <1>5 DEF EnqueuePublish
  <2>2. /\ pc[p] = "publish"
        /\ tail[p] = Len(sent) % Capacity
        /\ buffer[Len(sent) % Capacity] = item[p]
        /\ item[p] \in Item
        /\ Len(sent) - (headSeen[p] - 1) < Capacity - 1
    BY <1>5, <1>t DEF EnqueuePublish, SpscInv, ProducerInv, QueueTypeOK
  <2>3. NextIndex(tail[p]) = (Len(sent) + 1) % Capacity
    BY <1>f, <2>2, NextSlot DEF NextIndex
  <2>4. /\ sent' = Append(sent, item[p])
        /\ Len(sent') = Len(sent) + 1
        /\ sent'[Len(sent) + 1] = item[p]
        /\ \A n \in 1 .. Len(sent) : sent'[n] = sent[n]
    BY <1>5, <1>t, <2>2 DEF EnqueuePublish, QueueTypeOK
  <2>5. /\ tailLog' = Append(tailLog, (Len(sent) + 1) % Capacity)
        /\ Len(tailLog') = Len(tailLog) + 1
        /\ tailLog'[Len(tailLog) + 1] = (Len(sent) + 1) % Capacity
        /\ \A k \in 1 .. Len(tailLog) : tailLog'[k] = tailLog[k]
    BY <1>5, <1>t, <2>3 DEF EnqueuePublish, QueueTypeOK
  <2>6. tailSeen'[p] = Len(tailLog) + 1 /\ pc'[p] = "idle"
    BY <1>5, <1>t DEF EnqueuePublish, QueueTypeOK
  <2>7. IndicesFollowItems'
    BY <1>t, <1>f, <2>1, <2>4, <2>5 DEF SpscInv, IndicesFollowItems, consumerVars
  <2>8. \A q \in Producers : ProducerInv(q)'
    <3>1. /\ tailSeen'[p] = Len(tailLog')
          /\ Len(sent') - (headSeen'[p] - 1) <= Capacity - 1
      <4>1. headSeen[p] \in Nat /\ headSeen' = headSeen
        BY <1>t, <2>1 DEF QueueTypeOK
      <4> QED
        BY <1>f, <2>2, <2>4, <2>5, <2>6, <4>1
    <3>2. ProducerInv(p)'
      BY <2>6, <3>1 DEF ProducerInv
    <3> QED
      BY <3>2 DEF SingleProducer
  <2>9. UnreadKept'
    <3> SUFFICES ASSUME NEW n \in Len(got) + 1 .. Len(sent) + 1
                 PROVE  buffer[(n - 1) % Capacity] = sent'[n]
      BY <2>1, <2>4 DEF UnreadKept, consumerVars
    <3>1. CASE n = Len(sent) + 1
      <4>1. n - 1 = Len(sent)
        BY <3>1, <1>f
      <4> QED
        BY <3>1, <4>1, <2>2, <2>4
    <3>2. CASE n # Len(sent) + 1
      <4>1. n \in Len(got) + 1 .. Len(sent) /\ n \in 1 .. Len(sent)
        BY <3>2, <1>f
      <4> QED
        BY <4>1, <2>4 DEF SpscInv, UnreadKept
    <3> QED
      BY <3>1, <3>2
  <2>10. ConsumerInv'
    BY <1>f, <1>t, <2>1, <2>4 DEF SpscInv, ConsumerInv, consumerVars, QueueTypeOK
  <2>11. FifoOrder'
    BY <1>f, <2>1, <2>4 DEF SpscInv, FifoOrder, consumerVars
  <2> QED
    BY <1>t, <2>7, <2>8, <2>9, <2>10, <2>11 DEF SpscInv
<1>6. CASE DequeueEmpty
  <2>1. UNCHANGED <<buffer, headLog, tailLog, producerVars, cpc, out, got, sent>> /\ cpc = "idle" /\ ctail' >= ctail
    BY <1>6, <1>t DEF DequeueEmpty, QueueTypeOK
  <2>2. ConsumerInv'
    BY <1>f, <1>t, <2>1 DEF SpscInv, ConsumerInv, QueueTypeOK
  <2> QED
    BY <1>t, <2>1, <2>2 DEF SpscInv, IndicesFollowItems, ProducerInv, UnreadKept, FifoOrder, producerVars
<1>7. CASE DequeueFound
  <2>1. UNCHANGED <<buffer, headLog, tailLog, producerVars, out, got, sent>> /\ cpc' = "read"
    BY <1>7 DEF DequeueFound
  <2>2. PICK k \in ctail .. Len(tailLog) : head # tailLog[k] /\ ctail' = k
    BY <1>7 DEF DequeueFound
  <2>3. k - 1 \in Nat /\ k - 1 >= Len(got) /\ tailLog[k] = (k - 1) % Capacity
    BY <1>f, <1>t DEF SpscInv, IndicesFollowItems, QueueTypeOK
  <2>4. Len(got) < k - 1
    BY <1>f, <2>2, <2>3
  <2>5. ConsumerInv'
    BY <1>f, <2>1, <2>2, <2>4 DEF ConsumerInv
  <2> QED
    BY <1>t, <2>1, <2>5 DEF SpscInv, IndicesFollowItems, ProducerInv, UnreadKept, FifoOrder, producerVars
<1>8. CASE DequeueRead
  <2>1. UNCHANGED <<buffer, headLog, tailLog, producerVars, ctail, got, sent>> /\ cpc' = "advance"
    BY <1>8 DEF DequeueRead
  <2>2. Len(got) < ctail - 1 /\ Len(got) + 1 \in Len(got) + 1 .. Len(sent)
    BY <1>8, <1>f DEF DequeueRead, SpscInv, ConsumerInv
  <2>3. buffer[head] = sent[Len(got) + 1] /\ sent[Len(got) + 1] \in Item
    BY <1>f, <1>t, <2>2 DEF SpscInv, UnreadKept, QueueTypeOK
  <2>4. \A p \in Producers : pc[p] = "write" => tail[p] # head
    <3> SUFFICES ASSUME NEW p \in Producers, pc[p] = "write", tail[p] = head
                 PROVE  FALSE
      OBVIOUS
    <3>1. tail[p] = Len(sent) % Capacity
      BY DEF SpscInv, ProducerInv
    <3>2. Len(got) < Len(sent)
      BY <1>f, <2>2
    <3>3. Len(got) % Capacity # Len(sent) % Capacity
      BY <1>f, <3>2, DistinctSlots
    <3> QED
      BY <1>f, <3>1, <3>3
  <2>5. out' = sent[Len(got) + 1]
    BY <1>8, <2>3, <2>4, QueueAssumption DEF DequeueRead
  <2>6. ConsumerInv'
    BY <1>f, <2>1, <2>2, <2>5 DEF ConsumerInv
  <2> QED
    BY <1>t, <2>1, <2>6 DEF SpscInv, IndicesFollowItems, ProducerInv, UnreadKept, FifoOrder, producerVars
<1>9. CASE DequeueAdvance
  <2>1. UNCHANGED <<buffer, tailLog, producerVars, ctail, out, sent>> /\ cpc' = "idle"
    BY <1>9 DEF DequeueAdvance
  <2>2. out = sent[Len(got) + 1] /\ Len(got) < ctail - 1
    BY <1>9 DEF DequeueAdvance, SpscInv, ConsumerInv
  <2>3. NextIndex(head) = (Len(got) + 1) % Capacity
    BY <1>f, NextSlot DEF NextIndex
  <2>4. /\ Len(got') = Len(got) + 1
        /\ got'[Len(got) + 1] = out
        /\ \A n \in 1 .. Len(got) : got'[n] = got[n]
    BY <1>9, <1>t DEF DequeueAdvance, QueueTypeOK
  <2>5. /\ Len(headLog') = Len(headLog) + 1
        /\ headLog'[Len(headLog) + 1] = (Len(got) + 1) % Capacity
        /\ \A k \in 1 .. Len(headLog) : headLog'[k] = headLog[k]
    <3>1. headLog' = Append(headLog, NextIndex(head)) /\ headLog \in Seq(Index) /\ NextIndex(head) \in Index
      BY <1>9, <1>t, HeadInRange, NextIndexInRange DEF DequeueAdvance, QueueTypeOK
    <3> QED
      BY <3>1, <2>3
  <2>6. IndicesFollowItems'
    <3>1. Len(headLog) = Len(got) + 1
      BY DEF SpscInv, IndicesFollowItems
    <3>2. ASSUME NEW k \in 1 .. Len(headLog')
          PROVE  headLog'[k] = (k - 1) % Capacity
      <4>1. CASE k = Len(headLog) + 1
        <5>1. k - 1 = Len(got) + 1
          BY <4>1, <3>1, <1>f
        <5> QED
          BY <4>1, <5>1, <2>5
      <4>2. CASE k # Len(headLog) + 1
        <5>1. k \in 1 .. Len(headLog)
          BY <4>2, <2>5, <3>1, <1>f
        <5> QED
          BY <5>1, <2>5 DEF SpscInv, IndicesFollowItems
      <4> QED
        BY <4>1, <4>2
    <3>3. Len(headLog') = Len(got') + 1
      BY <3>1, <1>f, <2>4, <2>5
    <3> QED
      BY <3>2, <3>3, <2>1 DEF SpscInv, IndicesFollowItems
  <2>7. \A p \in Producers : ProducerInv(p)'
    BY <2>1 DEF SpscInv, ProducerInv, producerVars
  <2>8. ConsumerInv'
    BY <1>f, <2>1, <2>2, <2>4 DEF ConsumerInv
  <2>9. UnreadKept'
    BY <1>f, <2>1, <2>4 DEF SpscInv, UnreadKept
  <2>10. FifoOrder'
    BY <1>f, <2>1, <2>2, <2>4 DEF SpscInv, FifoOrder
  <2> QED
    BY <1>t, <2>6, <2>7, <2>8, <2>9, <2>10 DEF SpscInv
<1>10. CASE UNCHANGED queueVars
  BY <1>10, <1>t
  DEF SpscInv, IndicesFollowItems, ProducerInv, ConsumerInv, UnreadKept, FifoOrder,
      queueVars, producerVars, consumerVars
<1> QED
  BY <1>1, <1>2, <1>3, <1>4, <1>5, <1>6, <1>7, <1>8, <1>9, <1>10
  DEF QueueNext, EnqueueStep, DequeueStep

(* With one producer, SpscInv holds in every reachable state.              *)
THEOREM SpscInvariant ==
  ASSUME SingleProducer
  PROVE  QueueSpec => []SpscInv
BY SpscInit, SpscNext, PTL DEF QueueSpec

(* With one producer, dequeue returns the accepted items in order, none    *)
(* lost, repeated or torn, for every capacity and every stale load.        *)
THEOREM FifoOrderHolds ==
  ASSUME SingleProducer
  PROVE  QueueSpec => []FifoOrder
<1>1. SpscInv => FifoOrder
  BY DEF SpscInv
<1> QED
  BY <1>1, SpscInvariant, PTL

(* With one producer, no accepted item is overwritten before dequeue has   *)
(* returned it.                                                            *)
THEOREM UnreadKeptHolds ==
  ASSUME SingleProducer
  PROVE  QueueSpec => []UnreadKept
<1>1. SpscInv => UnreadKept
  BY DEF SpscInv
<1> QED
  BY <1>1, SpscInvariant, PTL

(* With one producer, buffer_[tail] = item and item = buffer_[head] never  *)
(* overlap on one slot: acquire and release on the two indices suffice.    *)
THEOREM NoDataRaceHolds ==
  ASSUME SingleProducer
  PROVE  QueueSpec => []NoDataRace
<1>1. SpscInv => NoDataRace
  <2> SUFFICES ASSUME SpscInv, NEW p \in Producers, pc[p] = "write", cpc = "read"
               PROVE  tail[p] # head
    BY DEF NoDataRace, SingleProducer
  <2>1. tail[p] = Len(sent) % Capacity /\ Len(got) < ctail - 1
    BY DEF SpscInv, ProducerInv, ConsumerInv
  <2>2. Len(got) < Len(sent)
    BY <2>1, SpscFacts
  <2>3. Len(got) % Capacity # Len(sent) % Capacity
    BY <2>2, SpscFacts, DistinctSlots
  <2> QED
    BY <2>1, <2>3, SpscFacts
<1> QED
  BY <1>1, SpscInvariant, PTL

(* With one producer, "full" means that capacity_ - 1 items wait and       *)
(* "empty" that none does, as of the value of the other index loaded.      *)
THEOREM VerdictsExactHolds ==
  ASSUME SingleProducer
  PROVE  QueueSpec => []VerdictsExact
<1>1. SpscInv => VerdictsExact
  <2> SUFFICES ASSUME SpscInv PROVE VerdictsExact
    OBVIOUS
  <2>f. /\ Capacity \in Nat \ {0}
        /\ Len(sent) \in Nat
        /\ Len(got) \in Nat
        /\ Len(got) <= Len(sent)
        /\ Len(sent) < Len(got) + Capacity
        /\ ctail - 1 \in Len(got) .. Len(sent)
        /\ head = Len(got) % Capacity
    BY SpscFacts
  <2>1. ASSUME NEW p \in Producers, pc[p] = "check", NEW k \in headSeen[p] .. Len(headLog)
        PROVE  NextIndex(tail[p]) = headLog[k] <=> Len(sent) - (k - 1) = Capacity - 1
    <3>1. /\ k - 1 \in Nat
          /\ k - 1 <= Len(got)
          /\ headLog[k] = (k - 1) % Capacity
          /\ headSeen[p] \in Nat
          /\ headSeen[p] <= k
      BY <2>f DEF SpscInv, IndicesFollowItems, QueueTypeOK
    <3>2. Len(sent) - (k - 1) <= Capacity - 1
      BY <2>f, <3>1 DEF SpscInv, ProducerInv
    <3>3. NextIndex(tail[p]) = (Len(sent) + 1) % Capacity
      BY <2>1, <2>f, NextSlot DEF NextIndex, SpscInv, ProducerInv
    <3>4. CASE Len(sent) - (k - 1) = Capacity - 1
      <4>1. Len(sent) + 1 = (k - 1) + Capacity
        BY <3>4, <2>f, <3>1
      <4> QED
        BY <3>4, <4>1, <3>1, <3>3, <2>f, LapLater
    <3>5. CASE Len(sent) - (k - 1) # Capacity - 1
      <4>1. k - 1 < Len(sent) + 1 /\ Len(sent) + 1 < (k - 1) + Capacity
        BY <3>5, <3>1, <3>2, <2>f
      <4>2. (k - 1) % Capacity # (Len(sent) + 1) % Capacity
        <5> DEFINE a == k - 1
                   b == Len(sent) + 1
        <5>1. a \in Nat /\ b \in Nat /\ a < b /\ b < a + Capacity
          BY <4>1, <3>1, <2>f
        <5> HIDE DEF a, b
        <5>2. a % Capacity # b % Capacity
          BY <5>1, <2>f, DistinctSlots
        <5> QED
          BY <5>2 DEF a, b
      <4> QED
        BY <3>5, <4>2, <3>1, <3>3
    <3> QED
      BY <3>4, <3>5
  <2>2. ASSUME cpc = "idle", NEW k \in ctail .. Len(tailLog)
        PROVE  head = tailLog[k] <=> Len(got) = k - 1
    <3>1. /\ k - 1 \in Nat
          /\ k - 1 >= Len(got)
          /\ k - 1 <= Len(sent)
          /\ tailLog[k] = (k - 1) % Capacity
      BY <2>f DEF SpscInv, IndicesFollowItems, QueueTypeOK
    <3>2. ASSUME Len(got) < k - 1
          PROVE  Len(got) % Capacity # (k - 1) % Capacity
      <4> DEFINE a == Len(got)
                 b == k - 1
      <4>1. a \in Nat /\ b \in Nat /\ a < b /\ b < a + Capacity
        BY <3>1, <3>2, <2>f
      <4> HIDE DEF a, b
      <4>2. a % Capacity # b % Capacity
        BY <4>1, <2>f, DistinctSlots
      <4> QED
        BY <4>2 DEF a, b
    <3> QED
      BY <3>1, <3>2, <2>f
  <2> QED
    BY <2>1, <2>2 DEF VerdictsExact
<1> QED
  BY <1>1, SpscInvariant, PTL

-----------------------------------------------------------------------------
(***************************************************************************)
(* One producer: the ring implements BoundedFifo.  Its contents are the    *)
(* accepted items that have not been dequeued.                             *)
(***************************************************************************)
Waiting == [i \in 1 .. Len(sent) - Len(got) |-> sent[Len(got) + i]]

ContentsAreWaiting == Contents = Waiting

(* The slots from head_ up to tail_ hold just the items that wait.         *)
LEMMA ContentsWaiting == SpscInv => ContentsAreWaiting
<1> SUFFICES ASSUME SpscInv PROVE Contents = Waiting
  BY DEF ContentsAreWaiting
<1>f. /\ Capacity \in Nat \ {0}
      /\ Len(sent) \in Nat
      /\ Len(got) \in Nat
      /\ Len(got) <= Len(sent)
      /\ Len(sent) < Len(got) + Capacity
      /\ head = Len(got) % Capacity
  BY SpscFacts
<1> DEFINE g == Len(got)
           d == Len(sent) - Len(got)
<1>1. g \in Nat /\ d \in 0 .. Capacity - 1 /\ Len(sent) = g + d /\ head = g % Capacity
  BY <1>f
<1>2. tailLog[Len(tailLog)] = (g + d) % Capacity
  BY <1>f DEF SpscInv, IndicesFollowItems
<1>3. ASSUME NEW i \in 1 .. d
      PROVE  buffer[(head + i - 1) % Capacity] = sent[g + i]
  <2> DEFINE j == i - 1
             n == g + i
  <2>1. j \in 0 .. Capacity - 1 /\ n \in g + 1 .. Len(sent) /\ n - 1 = g + j /\ head + i - 1 = (g % Capacity) + j
    BY <1>1, DivMod, <1>f
  <2>2. buffer[(n - 1) % Capacity] = sent[n]
    BY <2>1 DEF SpscInv, UnreadKept
  <2> HIDE DEF j, n, g, d
  <2>3. ((g % Capacity) + j) % Capacity = (g + j) % Capacity
    BY <1>1, <1>f, <2>1, SlotAhead
  <2>4. buffer[(head + i - 1) % Capacity] = sent[n]
    BY <2>1, <2>2, <2>3
  <2> QED
    BY <2>4 DEF n
<1> HIDE DEF g, d
<1>4. (tailLog[Len(tailLog)] + Capacity - head) % Capacity = d
  <2>1. (((g + d) % Capacity) + Capacity - (g % Capacity)) % Capacity = d
    BY <1>1, <1>f, RingDistance
  <2> QED
    BY <2>1, <1>1, <1>2
<1>5. Contents = [i \in 1 .. d |-> sent[g + i]]
  BY <1>3, <1>4 DEF Contents
<1> QED
  BY <1>5 DEF Waiting, g, d

(* The ring starts empty.                                                  *)
LEMMA ContentsInit == SingleProducer /\ QueueInit => Fifo!FifoInit
<1> SUFFICES ASSUME SingleProducer, QueueInit PROVE Contents = <<>>
  BY DEF Fifo!FifoInit
<1>1. Contents = Waiting
  BY SpscInit, ContentsWaiting DEF ContentsAreWaiting
<1>2. Waiting = <<>>
  BY DEF QueueInit, Waiting
<1> QED
  BY <1>1, <1>2

(* The store to tail_ is the abstract Put, the store to head_ the abstract *)
(* Get; no other step changes the contents.                                *)
LEMMA ContentsNext ==
  ASSUME SingleProducer
  PROVE  /\ SpscInv /\ SpscInv'
         /\ ContentsAreWaiting /\ ContentsAreWaiting'
         /\ [QueueNext]_queueVars
         => [Fifo!Put \/ Fifo!Get]_Contents
<1> SUFFICES ASSUME SpscInv, ContentsAreWaiting, ContentsAreWaiting', [QueueNext]_queueVars
             PROVE  [Fifo!Put \/ Fifo!Get]_Contents
  OBVIOUS
<1>c. Contents = Waiting /\ Contents' = Waiting'
  BY DEF ContentsAreWaiting
<1>f. /\ Capacity \in Nat \ {0}
      /\ Len(sent) \in Nat
      /\ Len(got) \in Nat
      /\ Len(got) <= Len(sent)
      /\ ctail - 1 \in Len(got) .. Len(sent)
  BY SpscFacts
<1>t. QueueTypeOK
  BY DEF SpscInv
<1>s. Waiting \in Seq(Item) /\ Len(Waiting) = Len(sent) - Len(got)
  <2>1. sent \in Seq(Item)
    BY <1>t DEF QueueTypeOK
  <2>2. \A i \in 1 .. Len(sent) - Len(got) : sent[Len(got) + i] \in Item
    BY <2>1, <1>f
  <2>3. Len(sent) - Len(got) \in Nat
    BY <1>f
  <2> QED
    BY <2>2, <2>3 DEF Waiting
<1>1. CASE UNCHANGED <<sent, got>>
  <2>1. Waiting' = Waiting
    BY <1>1 DEF Waiting
  <2> QED
    BY <2>1, <1>c
<1>2. ASSUME NEW p \in Producers, EnqueuePublish(p)
      PROVE  Fifo!Put
  <2>1. /\ sent' = Append(sent, item[p])
        /\ got' = got
        /\ item[p] \in Item
        /\ pc[p] = "publish"
    BY <1>2, <1>t DEF EnqueuePublish, consumerVars, QueueTypeOK
  <2>2. Len(Waiting) < Capacity - 1
    <3>1. headSeen[p] \in 1 .. Len(got) + 1
      BY <1>t DEF QueueTypeOK, SpscInv, IndicesFollowItems
    <3>2. Len(sent) - (headSeen[p] - 1) < Capacity - 1
      BY <2>1 DEF SpscInv, ProducerInv
    <3> QED
      BY <3>1, <3>2, <1>s, <1>f
  <2>3. Waiting' = Append(Waiting, item[p])
    <3>1. Len(sent') = Len(sent) + 1 /\ sent \in Seq(Item)
      BY <2>1, <1>t DEF QueueTypeOK
    <3>2. \A i \in 1 .. Len(sent) - Len(got) + 1 :
            sent'[Len(got) + i] = IF i = Len(sent) - Len(got) + 1 THEN item[p] ELSE sent[Len(got) + i]
      BY <2>1, <3>1, <1>f
    <3>3. Append(Waiting, item[p]) =
            [i \in 1 .. Len(sent) - Len(got) + 1 |->
               IF i = Len(sent) - Len(got) + 1 THEN item[p] ELSE sent[Len(got) + i]]
      <4>1. \A i \in 1 .. Len(sent) - Len(got) : Waiting[i] = sent[Len(got) + i]
        BY DEF Waiting
      <4> QED
        BY <4>1, <1>s, <1>f, <2>1
    <3>4. Len(sent') - Len(got') = Len(sent) - Len(got) + 1
      BY <3>1, <2>1, <1>f
    <3>5. Waiting' = [i \in 1 .. Len(sent) - Len(got) + 1 |-> sent'[Len(got) + i]]
      BY <3>4, <2>1 DEF Waiting
    <3> QED
      BY <3>2, <3>3, <3>5
  <2> QED
    BY <1>c, <2>1, <2>2, <2>3 DEF Fifo!Put
<1>3. CASE DequeueAdvance
  <2>1. /\ Len(got') = Len(got) + 1
        /\ sent' = sent
    BY <1>3, <1>t DEF DequeueAdvance, QueueTypeOK
  <2>2. Len(got) < Len(sent)
    BY <1>3, <1>f DEF DequeueAdvance, SpscInv, ConsumerInv
  <2>3. Waiting # <<>>
    BY <2>2, <1>s, <1>f
  <2>4. Waiting' = Tail(Waiting)
    <3>1. Tail(Waiting) = [i \in 1 .. Len(sent) - Len(got) - 1 |-> Waiting[i + 1]]
      <4> DEFINE w == Waiting
      <4>1. w \in Seq(Item) /\ w # <<>> /\ Len(w) = Len(sent) - Len(got)
        BY <1>s, <2>3
      <4> HIDE DEF w
      <4>2. /\ Tail(w) \in Seq(Item)
            /\ Len(Tail(w)) = Len(w) - 1
            /\ \A i \in 1 .. Len(w) - 1 : Tail(w)[i] = w[i + 1]
        BY <4>1
      <4>3. Tail(w) = [i \in 1 .. Len(w) - 1 |-> w[i + 1]]
        <5> DEFINE t == [i \in 1 .. Len(w) - 1 |-> w[i + 1]]
        <5>1. \A i \in 1 .. Len(w) - 1 : w[i + 1] \in Item
          BY <4>1
        <5>2. Len(w) - 1 \in Nat
          BY <4>1
        <5>3. t \in Seq(Item) /\ Len(t) = Len(w) - 1 /\ \A i \in 1 .. Len(w) - 1 : t[i] = w[i + 1]
          BY <5>1, <5>2
        <5> HIDE DEF t
        <5>4. Tail(w) = t
          BY <4>2, <5>3, SeqEqual
        <5> QED
          BY <5>4 DEF t
      <4> QED
        BY <4>1, <4>3 DEF w
    <3>2. \A i \in 1 .. Len(sent) - Len(got) - 1 : Waiting[i + 1] = sent[Len(got) + 1 + i]
      BY <1>f DEF Waiting
    <3>3. Waiting' = [i \in 1 .. Len(sent) - Len(got) - 1 |-> sent[Len(got) + 1 + i]]
      <4>1. Len(sent') - Len(got') = Len(sent) - Len(got) - 1
        BY <2>1, <1>f
      <4> QED
        BY <4>1, <2>1 DEF Waiting
    <3> QED
      BY <3>1, <3>2, <3>3
  <2> QED
    BY <1>c, <2>3, <2>4 DEF Fifo!Get
<1>4. ASSUME NEW p \in Producers, EnqueueCall(p) \/ EnqueueFull(p) \/ EnqueueHasRoom(p) \/ EnqueueWrite(p)
      PROVE  UNCHANGED <<sent, got>>
  BY <1>4 DEF EnqueueCall, EnqueueLoadTail, EnqueueFull, EnqueueHasRoom, EnqueueWrite, consumerVars
<1>5. ASSUME DequeueEmpty \/ DequeueFound \/ DequeueRead
      PROVE  UNCHANGED <<sent, got>>
  BY <1>5 DEF DequeueEmpty, DequeueFound, DequeueRead
<1>6. ASSUME UNCHANGED queueVars
      PROVE  UNCHANGED <<sent, got>>
  BY <1>6 DEF queueVars, consumerVars
<1> QED
  BY <1>1, <1>2, <1>3, <1>4, <1>5, <1>6 DEF QueueNext, EnqueueStep, DequeueStep

(* With one producer, every step of the ring is a step of the bounded FIFO *)
(* of capacity_ - 1 items, or leaves the FIFO as it is.                    *)
THEOREM ImplementsFifoSafely ==
  ASSUME SingleProducer
  PROVE  QueueSpec => Fifo!FifoSafeSpec
<1>1. QueueInit => Fifo!FifoInit
  BY ContentsInit
<1> QED
  BY <1>1, ContentsNext, ContentsWaiting, SpscInvariant, PTL DEF QueueSpec, Fifo!FifoSafeSpec
=============================================================================
