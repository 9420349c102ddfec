----------------------------- MODULE CacheProof -----------------------------
(***************************************************************************)
(* Theorems about Cache, for every set of instruments, replicas and update *)
(* ids, every capacity and whatever the memory of U_ holds at first.       *)
(***************************************************************************)
EXTENDS Cache, LockFreeQueueProof

(* What the calls of encache leave in the queue's variables.               *)
LEMMA CallKeepsQueue ==
  ASSUME NEW p \in Producers, EncacheCall(p)
  PROVE  UNCHANGED queueVars
BY DEF EncacheCall, EncacheWebSocket, EncacheRest, EncacheMalformed

(* So do the comparison with U_ and the store to it.                       *)
LEMMA GateKeepsQueue ==
  ASSUME NEW p \in Producers, EncacheRefuse(p) \/ EncachePass(p) \/ EncacheStore(p)
  PROVE  UNCHANGED queueVars
BY DEF EncacheRefuse, EncachePass, EncacheStore

(* Loading tail_ at the start of enqueue keeps the queue's types.          *)
LEMMA LoadTailTyped ==
  ASSUME QueueTypeOK, NEW p \in Producers, NEW m \in Item, EnqueueLoadTail(p, m)
  PROVE  QueueTypeOK'
BY DEF QueueTypeOK, EnqueueLoadTail, consumerVars, Slot

-----------------------------------------------------------------------------
(***************************************************************************)
(* Type correctness, for any number of instruments.                        *)
(***************************************************************************)
(* A new cache is well typed, whatever the memory of U_ holds.             *)
LEMMA CacheTypeInit == CacheInit => CacheTypeOK
<1> SUFFICES ASSUME CacheInit PROVE CacheTypeOK
  OBVIOUS
<1>1. QueueTypeOK
  BY TypeInit DEF CacheInit
<1> QED
  BY <1>1 DEF CacheInit, CacheTypeOK

(* The variables of the queue keep their types in each step of the cache.  *)
LEMMA CacheQueueTyped ==
  ASSUME CacheTypeOK, [CacheNext]_cacheVars
  PROVE  QueueTypeOK'
<1>q. QueueTypeOK
  BY DEF CacheTypeOK
<1>1. ASSUME UNCHANGED queueVars
      PROVE  QueueTypeOK'
  BY <1>1, <1>q, TypeNext
<1>2. ASSUME NEW p \in Producers, EncacheEnqueue(p)
      PROVE  QueueTypeOK'
  <2>1. msg[p] \in Item
    BY <1>2, CacheAssumption DEF EncacheEnqueue, CacheTypeOK
  <2> QED
    BY <1>2, <1>q, <2>1, LoadTailTyped DEF EncacheEnqueue
<1>3. ASSUME NEW p \in Producers, EncacheFull(p) \/ EncacheQueueStep(p)
      PROVE  QueueTypeOK'
  <2>1. QueueNext
    BY <1>3 DEF EncacheFull, EncacheQueueStep, QueueNext, EnqueueStep
  <2> QED
    BY <1>q, <2>1, TypeNext
<1>4. ASSUME Decache
      PROVE  QueueTypeOK'
  <2>1. QueueNext
    BY <1>4 DEF Decache, QueueNext
  <2> QED
    BY <1>q, <2>1, TypeNext
<1> QED
  BY <1>1, <1>2, <1>3, <1>4, CallKeepsQueue, GateKeepsQueue
  DEF CacheNext, EncacheStep, cacheVars

(* Every step of the cache keeps the types.                                *)
LEMMA CacheTypeNext == CacheTypeOK /\ [CacheNext]_cacheVars => CacheTypeOK'
<1> SUFFICES ASSUME CacheTypeOK, [CacheNext]_cacheVars
             PROVE  CacheTypeOK'
  OBVIOUS
<1>q. QueueTypeOK'
  BY CacheQueueTyped
<1>m. WsMessage \subseteq Message /\ RestMessage \subseteq Message
  BY DEF Message
<1> USE DEF CacheTypeOK
<1>1. ASSUME NEW p \in Producers, EncacheWebSocket(p)
      PROVE  CacheTypeOK'
  <2>1. PICK r \in Replicas, u \in UpdateIds :
          /\ last' = [last EXCEPT ![p][r] = u]
          /\ msg' = [msg EXCEPT ![p] = [source |-> "WebSocket", symbol |-> p, U |-> u]]
    BY <1>1 DEF EncacheWebSocket
  <2>2. [source |-> "WebSocket", symbol |-> p, U |-> u] \in WsMessage
    BY DEF WsMessage
  <2>3. last' \in [Producers -> [Replicas -> UpdateIds \cup {0}]]
    BY <2>1
  <2>4. UNCHANGED <<U_, firstU, terminated, refused, dropped>>
    BY <1>1 DEF EncacheWebSocket
  <2>5. gate' = [gate EXCEPT ![p] = "compare"]
    BY <1>1 DEF EncacheWebSocket
  <2>6. /\ msg' \in [Producers -> Message \cup {NoItem}]
        /\ \A o \in Producers : gate'[o] \in {"compare", "store"} => msg'[o] \in WsMessage
        /\ \A o \in Producers : gate'[o] = "enqueue" => msg'[o] \in Message
    BY <2>1, <2>2, <2>5, <1>m
  <2>7. gate' \in [Producers -> {"idle", "compare", "store", "enqueue"}]
    BY <2>5
  <2> QED
    BY <1>q, <2>3, <2>4, <2>6, <2>7
<1>2. ASSUME NEW p \in Producers, EncacheRest(p)
      PROVE  CacheTypeOK'
  <2>1. [source |-> "RestApi", symbol |-> p] \in RestMessage
    BY DEF RestMessage
  <2> QED
    BY <1>2, <1>q, <1>m, <2>1 DEF EncacheRest
<1>3. ASSUME NEW p \in Producers, EncacheMalformed(p)
      PROVE  CacheTypeOK'
  BY <1>3, <1>q DEF EncacheMalformed
<1>4. ASSUME NEW p \in Producers, EncacheRefuse(p)
      PROVE  CacheTypeOK'
  BY <1>4, <1>q DEF EncacheRefuse
<1>5. ASSUME NEW p \in Producers, EncachePass(p)
      PROVE  CacheTypeOK'
  BY <1>5, <1>q DEF EncachePass
<1>6. ASSUME NEW p \in Producers, EncacheStore(p)
      PROVE  CacheTypeOK'
  <2>1. msg[p] \in WsMessage
    BY <1>6 DEF EncacheStore
  <2>2. msg[p].U \in UpdateIds /\ msg[p] \in Message
    BY <2>1, <1>m DEF WsMessage
  <2> QED
    BY <1>6, <1>q, <2>2 DEF EncacheStore
<1>7. ASSUME NEW p \in Producers, EncacheEnqueue(p)
      PROVE  CacheTypeOK'
  BY <1>7, <1>q DEF EncacheEnqueue
<1>8. ASSUME NEW p \in Producers, EncacheFull(p)
      PROVE  CacheTypeOK'
  <2>1. item[p] \in Message
    BY <1>8, CacheAssumption DEF EncacheFull, EnqueueFull, QueueTypeOK
  <2> QED
    BY <1>8, <1>q, <2>1 DEF EncacheFull
<1>9. ASSUME UNCHANGED gateVars
      PROVE  CacheTypeOK'
  BY <1>9, <1>q DEF gateVars
<1> QED
  BY <1>1, <1>2, <1>3, <1>4, <1>5, <1>6, <1>7, <1>8, <1>9
  DEF CacheNext, EncacheCall, EncacheStep, EncacheQueueStep, Decache, cacheVars

(* However many instruments share the cache, U_ holds an update id or what *)
(* its memory held, and enqueue is called with messages only.              *)
THEOREM CacheTypeCorrect == CacheSpec => []CacheTypeOK
BY CacheTypeInit, CacheTypeNext, PTL DEF CacheSpec

-----------------------------------------------------------------------------
(***************************************************************************)
(* CacheInv is inductive, for any number of instruments.                   *)
(***************************************************************************)
(* A new cache has seen and refused nothing.                               *)
LEMMA CacheInvInit == CacheInit => CacheInv
<1> SUFFICES ASSUME CacheInit PROVE CacheInv
  OBVIOUS
<1>1. CacheTypeOK
  BY CacheTypeInit
<1> QED
  BY <1>1 DEF CacheInit, CacheInv, RefusedForCause

(* A message that has gone through the gate stays among those that have:   *)
(* it moves from encache's argument to enqueue's, and from there to the    *)
(* queue or to the dropped ones.                                           *)
LEMMA PassedGrows ==
  ASSUME CacheInv, [CacheNext]_cacheVars
  PROVE  Passed \subseteq Passed'
<1>t. CacheTypeOK /\ QueueTypeOK
  BY DEF CacheInv, CacheTypeOK
<1>i. \A p \in Producers : gate[p] # "idle" => pc[p] = "idle"
  BY DEF CacheInv
<1> SUFFICES ASSUME NEW n \in Passed PROVE n \in Passed'
  OBVIOUS
<1>a. n \in WsMessage
  BY DEF Passed, WebSocketOf
<1>b. \/ \E i \in DOMAIN sent : sent[i] = n
      \/ n \in dropped
      \/ \E q \in Producers : gate[q] = "enqueue" /\ msg[q] = n
      \/ \E q \in Producers : pc[q] # "idle" /\ item[q] = n
  BY DEF Passed, WebSocketOf
<1>c. ASSUME \/ \E i \in DOMAIN sent' : sent'[i] = n
             \/ n \in dropped'
             \/ \E q \in Producers : gate'[q] = "enqueue" /\ msg'[q] = n
             \/ \E q \in Producers : pc'[q] # "idle" /\ item'[q] = n
      PROVE  n \in Passed'
  BY <1>a, <1>c DEF Passed, WebSocketOf
<1> USE DEF CacheTypeOK, QueueTypeOK
<1>1. ASSUME NEW p \in Producers, EncacheCall(p)
      PROVE  n \in Passed'
  BY <1>1, <1>b, <1>c, <1>t
  DEF EncacheCall, EncacheWebSocket, EncacheRest, EncacheMalformed, Free, queueVars, producerVars
<1>2. ASSUME NEW p \in Producers, EncacheRefuse(p) \/ EncachePass(p) \/ EncacheStore(p)
      PROVE  n \in Passed'
  BY <1>2, <1>b, <1>c, <1>t
  DEF EncacheRefuse, EncachePass, EncacheStore, queueVars, producerVars
<1>3. ASSUME NEW p \in Producers, EncacheEnqueue(p)
      PROVE  n \in Passed'
  BY <1>3, <1>b, <1>c, <1>t, <1>i DEF EncacheEnqueue, EnqueueLoadTail
<1>4. ASSUME NEW p \in Producers, EncacheFull(p)
      PROVE  n \in Passed'
  BY <1>4, <1>b, <1>c, <1>t DEF EncacheFull, EnqueueFull
<1>5. ASSUME NEW p \in Producers, EncacheQueueStep(p)
      PROVE  n \in Passed'
  <2>1. CASE EnqueuePublish(p)
    <3>1. /\ DOMAIN sent \subseteq DOMAIN sent'
          /\ \A i \in DOMAIN sent : sent'[i] = sent[i]
          /\ \E i \in DOMAIN sent' : sent'[i] = item[p]
      <4>1. sent' = Append(sent, item[p]) /\ item[p] \in Item
        BY <2>1, <1>t DEF EnqueuePublish
      <4>2. Len(sent) + 1 \in DOMAIN sent' /\ sent'[Len(sent) + 1] = item[p]
        BY <4>1, <1>t
      <4> QED
        BY <4>1, <4>2, <1>t
    <3>2. UNCHANGED <<item, gate, msg, dropped>> /\ pc' = [pc EXCEPT ![p] = "idle"]
      BY <1>5, <2>1 DEF EncacheQueueStep, EnqueuePublish, gateVars
    <3> QED
      BY <3>1, <3>2, <1>b, <1>c, <1>t
  <2>2. CASE EnqueueHasRoom(p) \/ EnqueueWrite(p)
    BY <2>2, <1>5, <1>b, <1>c, <1>t
    DEF EncacheQueueStep, EnqueueHasRoom, EnqueueWrite, gateVars
  <2> QED
    BY <1>5, <2>1, <2>2 DEF EncacheQueueStep
<1>6. CASE Decache
  BY <1>6, <1>b, <1>c
  DEF Decache, DequeueStep, DequeueEmpty, DequeueFound, DequeueRead, DequeueAdvance,
      gateVars, producerVars
<1>7. CASE UNCHANGED cacheVars
  BY <1>7, <1>b, <1>c DEF cacheVars, queueVars, producerVars, gateVars
<1> QED
  BY <1>1, <1>2, <1>3, <1>4, <1>5, <1>6, <1>7 DEF CacheNext, EncacheStep

(* What encache has passed so far has an id that U_ may hold.              *)
LEMMA IdsAreNumbers ==
  ASSUME CacheTypeOK
  PROVE  /\ U_ \in Nat /\ firstU \in Nat
         /\ \A m \in WsMessage : m.U \in Nat
BY CacheAssumption DEF CacheTypeOK, WsMessage

(* Every step keeps CacheInv: what is refused was compared with a U_ that  *)
(* goes back to a message that passed, and that message stays among those. *)
LEMMA CacheInvNext == CacheInv /\ [CacheNext]_cacheVars => CacheInv'
<1> SUFFICES ASSUME CacheInv, [CacheNext]_cacheVars
             PROVE  CacheInv'
  OBVIOUS
<1>t. CacheTypeOK /\ QueueTypeOK
  BY DEF CacheInv, CacheTypeOK
<1>1. CacheTypeOK'
  BY CacheTypeNext DEF CacheInv
<1>2. \A p \in Producers : gate'[p] # "idle" => pc'[p] = "idle"
  <2>i. \A p \in Producers : gate[p] # "idle" => pc[p] = "idle"
    BY DEF CacheInv
  <2> USE <1>t, <2>i DEF CacheTypeOK, QueueTypeOK
  <2>1. ASSUME NEW p \in Producers, EncacheCall(p)
        PROVE  \A q \in Producers : gate'[q] # "idle" => pc'[q] = "idle"
    BY <2>1 DEF EncacheCall, EncacheWebSocket, EncacheRest, EncacheMalformed, Free,
                queueVars, producerVars
  <2>2. ASSUME NEW p \in Producers, EncacheRefuse(p) \/ EncachePass(p) \/ EncacheStore(p)
        PROVE  \A q \in Producers : gate'[q] # "idle" => pc'[q] = "idle"
    BY <2>2 DEF EncacheRefuse, EncachePass, EncacheStore, queueVars, producerVars
  <2>3. ASSUME NEW p \in Producers, EncacheEnqueue(p)
        PROVE  \A q \in Producers : gate'[q] # "idle" => pc'[q] = "idle"
    BY <2>3 DEF EncacheEnqueue, EnqueueLoadTail
  <2>4. ASSUME NEW p \in Producers, EncacheFull(p) \/ EncacheQueueStep(p)
        PROVE  \A q \in Producers : gate'[q] # "idle" => pc'[q] = "idle"
    BY <2>4 DEF EncacheFull, EncacheQueueStep, EnqueueFull, EnqueueHasRoom, EnqueueWrite,
                EnqueuePublish, gateVars
  <2>5. CASE Decache
    BY <2>5 DEF Decache, DequeueStep, DequeueEmpty, DequeueFound, DequeueRead, DequeueAdvance,
                gateVars, producerVars
  <2>6. CASE UNCHANGED cacheVars
    BY <2>6 DEF cacheVars, queueVars, producerVars, gateVars
  <2> QED
    BY <2>1, <2>2, <2>3, <2>4, <2>5, <2>6 DEF CacheNext, EncacheStep
<1>3. firstU' = firstU
  BY DEF CacheNext, EncacheCall, EncacheWebSocket, EncacheRest, EncacheMalformed, EncacheStep,
         EncacheRefuse, EncachePass, EncacheStore, EncacheEnqueue, EncacheFull, EncacheQueueStep,
         Decache, cacheVars, gateVars
<1>4. ASSUME NEW p \in Producers, EncacheStore(p)
      PROVE  /\ \E n \in Passed' : n.U = U_'
             /\ refused' = refused
  <2>1. msg[p] \in WsMessage /\ msg' = msg /\ U_' = msg[p].U /\ gate'[p] = "enqueue"
    BY <1>4, <1>t DEF EncacheStore, CacheTypeOK
  <2>2. msg[p] \in Passed'
    BY <2>1 DEF Passed
  <2> QED
    BY <1>4, <2>1, <2>2 DEF EncacheStore
<1>5. ASSUME NEW p \in Producers, EncacheRefuse(p)
      PROVE  /\ U_' = U_
             /\ \A m \in refused' : m \in refused \/ (m.U <= U_ /\ m \in WsMessage)
  BY <1>5, <1>t DEF EncacheRefuse, CacheTypeOK
<1>6. \/ \E p \in Producers : EncacheStore(p) \/ EncacheRefuse(p)
      \/ UNCHANGED <<U_, refused>>
  BY DEF CacheNext, EncacheCall, EncacheWebSocket, EncacheRest, EncacheMalformed, EncacheStep,
         EncachePass, EncacheEnqueue, EncacheFull, EncacheQueueStep,
         Decache, cacheVars, gateVars
<1>7. Passed \subseteq Passed'
  BY PassedGrows
<1>8. U_' = firstU' \/ \E n \in Passed' : n.U = U_'
  BY <1>3, <1>4, <1>5, <1>6, <1>7 DEF CacheInv
<1>9. \A m \in refused' : m.U <= firstU' \/ \E n \in Passed' : n.U >= m.U
  <2> SUFFICES ASSUME NEW m \in refused', ~(m.U <= firstU)
               PROVE  \E n \in Passed' : n.U >= m.U
    BY <1>3
  <2>1. CASE m \in refused
    BY <2>1, <1>7 DEF CacheInv, RefusedForCause
  <2>2. CASE m \notin refused
    <3>1. m.U <= U_ /\ m \in WsMessage
      BY <2>2, <1>4, <1>5, <1>6
    <3>2. U_ # firstU
      BY <3>1
    <3>3. PICK n \in Passed : n.U = U_
      BY <3>2 DEF CacheInv
    <3>4. m.U \in Nat /\ U_ \in Nat
      BY <3>1, <1>t, IdsAreNumbers
    <3> QED
      BY <3>1, <3>3, <3>4, <1>7
  <2> QED
    BY <2>1, <2>2
<1> QED
  BY <1>1, <1>2, <1>8, <1>9 DEF CacheInv, RefusedForCause

(* However many instruments race for U_, an update is refused for a newer  *)
(* one that passed the gate or for what the memory of U_ held, and for     *)
(* nothing else.                                                           *)
THEOREM RefusedForCauseHolds == CacheSpec => []RefusedForCause
<1>1. CacheInv => RefusedForCause
  BY DEF CacheInv
<1> QED
  BY <1>1, CacheInvInit, CacheInvNext, PTL DEF CacheSpec

-----------------------------------------------------------------------------
(***************************************************************************)
(* One instrument: OneInstrumentInv is inductive.                          *)
(***************************************************************************)
(* The queue is empty at first.                                            *)
LEMMA OneInstrumentInit == CacheInit => OneInstrumentInv
<1> SUFFICES ASSUME CacheInit PROVE OneInstrumentInv
  OBVIOUS
<1>1. CacheInv
  BY CacheInvInit
<1>2. sent = <<>> /\ \A p \in Producers : gate[p] = "idle" /\ pc[p] = "idle"
  BY DEF CacheInit, QueueInit
<1>3. WebSocketOf(sent) = {}
  BY <1>2 DEF WebSocketOf
<1> QED
  BY <1>1, <1>2, <1>3 DEF OneInstrumentInv, OneThreadInv, SentRising

(* The steps other than tail_.store leave the accepted messages alone.     *)
LEMMA OnlyPublishSends ==
  ASSUME [CacheNext]_cacheVars
  PROVE  \/ UNCHANGED sent
         \/ \E p \in Producers : EnqueuePublish(p) /\ UNCHANGED gateVars
BY DEF CacheNext, EncacheCall, EncacheWebSocket, EncacheRest, EncacheMalformed, EncacheStep,
       EncacheRefuse, EncachePass, EncacheStore, EncacheEnqueue, EncacheFull, EncacheQueueStep,
       EnqueueLoadTail, EnqueueFull, EnqueueHasRoom, EnqueueWrite,
       Decache, DequeueStep, DequeueEmpty, DequeueFound, DequeueRead, DequeueAdvance,
       cacheVars, queueVars

(* With one instrument, every step keeps the invariant.                    *)
LEMMA OneInstrumentNext ==
  ASSUME SingleProducer
  PROVE  OneInstrumentInv /\ [CacheNext]_cacheVars => OneInstrumentInv'
<1> SUFFICES ASSUME OneInstrumentInv, [CacheNext]_cacheVars
             PROVE  OneInstrumentInv'
  OBVIOUS
<1>c. CacheInv /\ CacheInv'
  BY CacheInvNext DEF OneInstrumentInv
<1>t. CacheTypeOK /\ QueueTypeOK /\ CacheTypeOK' /\ QueueTypeOK'
  BY <1>c DEF CacheInv, CacheTypeOK
<1>s. sent \in Seq(Item) /\ sent' \in Seq(Item)
  BY <1>t DEF QueueTypeOK
<1>n. /\ U_ \in Nat
      /\ \A m \in WsMessage : m.U \in Nat
      /\ \A i \in WebSocketOf(sent) : sent[i].U \in Nat
  BY <1>t, IdsAreNumbers DEF WebSocketOf
<1>i. /\ SentRising
      /\ \A i \in WebSocketOf(sent) : sent[i].U <= U_
      /\ \A p \in Producers : OneThreadInv(p)
  BY DEF OneInstrumentInv
<1>p. PICK p \in Producers : \A q \in Producers : q = p
  BY QueueAssumption DEF SingleProducer
<1>g. SUFFICES /\ SentRising'
               /\ \A i \in WebSocketOf(sent') : sent'[i].U <= U_'
               /\ OneThreadInv(p)'
  BY <1>c, <1>p DEF OneInstrumentInv
<1>1. CASE EnqueuePublish(p) /\ UNCHANGED gateVars
  <2>1. /\ sent' = Append(sent, item[p])
        /\ item[p] \in Item
        /\ pc' = [pc EXCEPT ![p] = "idle"]
        /\ gate[p] = "idle"
        /\ gate' = gate
        /\ U_' = U_
        /\ pc[p] = "publish"
    BY <1>1, <1>t, <1>c DEF EnqueuePublish, QueueTypeOK, gateVars, CacheInv
  <2>2. /\ Len(sent') = Len(sent) + 1
        /\ sent'[Len(sent) + 1] = item[p]
        /\ \A i \in 1 .. Len(sent) : sent'[i] = sent[i]
    BY <2>1, <1>s
  <2>3. \A i \in WebSocketOf(sent') :
           \/ i \in WebSocketOf(sent) /\ sent'[i] = sent[i] /\ i <= Len(sent)
           \/ i = Len(sent) + 1 /\ sent'[i] = item[p] /\ item[p] \in WsMessage
    BY <2>1, <2>2, <1>s DEF WebSocketOf
  <2>4. item[p] \in WsMessage => NewestUnsent(item[p])
    BY <2>1, <1>i DEF OneThreadInv
  <2>5. SentRising'
    <3> SUFFICES ASSUME NEW i \in WebSocketOf(sent'), NEW j \in WebSocketOf(sent'), i < j
                 PROVE  sent'[i].U < sent'[j].U
      BY DEF SentRising
    <3>1. i \in 1 .. Len(sent) + 1 /\ j \in 1 .. Len(sent) + 1
      BY <2>2, <1>s DEF WebSocketOf
    <3>2. i \in WebSocketOf(sent) /\ sent'[i] = sent[i]
      BY <2>3, <3>1, <1>s
    <3> QED
      BY <2>3, <2>4, <3>2, <1>i DEF SentRising, NewestUnsent
  <2>6. ASSUME NEW i \in WebSocketOf(sent')
        PROVE  sent'[i].U <= U_'
    <3>1. CASE i \in WebSocketOf(sent) /\ sent'[i] = sent[i]
      BY <3>1, <2>1, <1>i
    <3>2. CASE sent'[i] = item[p] /\ item[p] \in WsMessage
      <4>1. item[p].U = U_
        BY <3>2, <2>4 DEF NewestUnsent
      <4> QED
        BY <3>2, <4>1, <2>1, <1>n
    <3> QED
      BY <3>1, <3>2, <2>3
  <2>7. gate'[p] = "idle" /\ pc'[p] = "idle"
    BY <2>1, <1>t DEF QueueTypeOK
  <2> QED
    BY <2>5, <2>6, <2>7 DEF OneThreadInv
<1>2. CASE UNCHANGED sent
  <2>s. UNCHANGED sent /\ WebSocketOf(sent') = WebSocketOf(sent)
    BY <1>2
  <2>1. SentRising'
    BY <2>s, <1>i DEF SentRising
  <2>2. ASSUME NEW q \in Producers, EncacheStore(q)
        PROVE  /\ \A i \in WebSocketOf(sent') : sent'[i].U <= U_'
               /\ OneThreadInv(p)'
    <3>1. /\ msg[p] \in WsMessage
          /\ U_' = msg[p].U
          /\ msg[p].U > U_
          /\ gate[p] = "store"
          /\ gate'[p] = "enqueue"
          /\ msg' = msg
          /\ pc[p] = "idle" /\ pc' = pc
      BY <2>2, <1>p, <1>t, <1>i, <1>c
      DEF EncacheStore, CacheTypeOK, OneThreadInv, CacheInv, queueVars, producerVars
    <3>2. \A i \in WebSocketOf(sent) : sent[i].U < msg[p].U
      BY <3>1, <1>i, <1>n
    <3>3. \A i \in WebSocketOf(sent) : sent[i].U <= msg[p].U
      BY <3>2, <3>1, <1>n
    <3> QED
      BY <3>1, <3>2, <3>3, <2>s, <1>i DEF OneThreadInv, NewestUnsent
  <2>3. ASSUME ~ \E q \in Producers : EncacheStore(q)
        PROVE  U_' = U_
    BY <2>3
    DEF CacheNext, EncacheCall, EncacheWebSocket, EncacheRest, EncacheMalformed, EncacheStep,
        EncacheRefuse, EncachePass, EncacheEnqueue, EncacheFull, EncacheQueueStep,
        Decache, cacheVars, gateVars
  <2>4. ASSUME U_' = U_
        PROVE  /\ \A i \in WebSocketOf(sent') : sent'[i].U <= U_'
               /\ \A m : NewestUnsent(m)' <=> NewestUnsent(m)
    BY <2>4, <2>s, <1>i DEF NewestUnsent
  <2> USE <1>t DEF CacheTypeOK, QueueTypeOK
  <2>5. ASSUME NEW q \in Producers, EncacheCall(q)
        PROVE  OneThreadInv(p)'
    <3>1. /\ q = p
          /\ pc'[p] = "idle"
          /\ Len(sent) < MaxItems
      BY <2>5, <1>p
      DEF EncacheCall, EncacheWebSocket, EncacheRest, EncacheMalformed, Free, queueVars, producerVars
    <3>2. \/ gate'[p] \in {"compare", "idle"}
          \/ gate'[p] = "enqueue" /\ msg'[p] \notin WsMessage
      BY <2>5, <3>1
      DEF EncacheCall, EncacheWebSocket, EncacheRest, EncacheMalformed, Free, WsMessage
    <3> QED
      BY <3>1, <3>2, <2>s DEF OneThreadInv
  <2>6. ASSUME NEW q \in Producers, EncacheRefuse(q) \/ EncachePass(q)
        PROVE  OneThreadInv(p)'
    <3>1. /\ q = p
          /\ pc'[p] = "idle"
          /\ gate[p] = "compare"
          /\ \/ gate'[p] = "idle"
             \/ gate'[p] = "store" /\ msg'[p].U > U_'
      BY <2>6, <1>p, <1>c DEF EncacheRefuse, EncachePass, CacheInv, queueVars, producerVars
    <3> QED
      BY <3>1, <2>s, <1>i DEF OneThreadInv
  <2>7. ASSUME NEW q \in Producers, EncacheEnqueue(q)
        PROVE  OneThreadInv(p)'
    <3>1. /\ q = p
          /\ gate[p] = "enqueue"
          /\ gate'[p] = "idle"
          /\ item'[p] = msg[p]
          /\ U_' = U_
      BY <2>7, <1>p DEF EncacheEnqueue, EnqueueLoadTail
    <3> QED
      BY <3>1, <2>4, <2>s, <1>i DEF OneThreadInv
  <2>8. ASSUME NEW q \in Producers, EncacheFull(q) \/ EncacheQueueStep(q)
        PROVE  OneThreadInv(p)'
    <3>1. /\ q = p
          /\ gate[p] = "idle"
          /\ gate' = gate
          /\ pc[p] # "idle"
          /\ item' = item
          /\ U_' = U_
      BY <2>8, <1>p, <1>c
      DEF EncacheFull, EncacheQueueStep, EnqueueFull, EnqueueHasRoom, EnqueueWrite, EnqueuePublish,
          gateVars, CacheInv
    <3> QED
      BY <3>1, <2>4, <2>s, <1>i DEF OneThreadInv
  <2>9. ASSUME Decache \/ UNCHANGED cacheVars
        PROVE  OneThreadInv(p)'
    <3>1. UNCHANGED <<gate, msg, pc, item, U_>>
      BY <2>9
      DEF Decache, DequeueStep, DequeueEmpty, DequeueFound, DequeueRead, DequeueAdvance,
          cacheVars, queueVars, gateVars, producerVars
    <3> QED
      BY <3>1, <2>4, <2>s, <1>i DEF OneThreadInv
  <2>10. \/ \E q \in Producers : EncacheStore(q)
         \/ U_' = U_ /\ OneThreadInv(p)'
    BY <2>3, <2>5, <2>6, <2>7, <2>8, <2>9 DEF CacheNext, EncacheStep
  <2> QED
    BY <2>1, <2>2, <2>4, <2>10
<1> QED
  BY <1>1, <1>2, <1>p, OnlyPublishSends

(* With one instrument, whatever the replicas deliver: of the messages     *)
(* that were accepted each is newer than those before, and one on its way  *)
(* to the queue is newer than all of them.                                 *)
THEOREM OneInstrumentInvariant ==
  ASSUME SingleProducer
  PROVE  CacheSpec => []OneInstrumentInv
BY OneInstrumentInit, OneInstrumentNext, PTL DEF CacheSpec

(* With one instrument, U_ never goes back: a thread that stores to it has *)
(* compared with the value that it overwrites.                             *)
THEOREM NeverForgetsHolds ==
  ASSUME SingleProducer
  PROVE  CacheSpec => NeverForgets
<1>1. OneInstrumentInv /\ [CacheNext]_cacheVars => [U_' >= U_]_U_
  <2> SUFFICES ASSUME OneInstrumentInv, [CacheNext]_cacheVars, U_' # U_
               PROVE  U_' >= U_
    OBVIOUS
  <2>1. PICK p \in Producers : EncacheStore(p)
    BY DEF CacheNext, EncacheCall, EncacheWebSocket, EncacheRest, EncacheMalformed, EncacheStep,
           EncacheRefuse, EncachePass, EncacheEnqueue, EncacheFull, EncacheQueueStep,
           Decache, cacheVars, gateVars
  <2>2. gate[p] = "store" /\ U_' = msg[p].U /\ msg[p] \in WsMessage
    BY <2>1 DEF EncacheStore, OneInstrumentInv, CacheInv, CacheTypeOK
  <2>3. msg[p].U > U_ /\ msg[p].U \in Nat /\ U_ \in Nat
    BY <2>2, IdsAreNumbers DEF OneInstrumentInv, CacheInv, OneThreadInv
  <2> QED
    BY <2>2, <2>3
<1> QED
  BY <1>1, OneInstrumentInvariant, PTL DEF CacheSpec, NeverForgets

(* With one instrument the cache uses its queue as a single producer would *)
(* and does nothing else to it: all theorems about the queue hold here.    *)
THEOREM CacheUsesQueue ==
  ASSUME SingleProducer
  PROVE  CacheSpec => QueueSpec
<1>1. CacheInit => QueueInit
  BY DEF CacheInit
<1>2. OneInstrumentInv /\ [CacheNext]_cacheVars => [QueueNext]_queueVars
  <2> SUFFICES ASSUME OneInstrumentInv, [CacheNext]_cacheVars
               PROVE  [QueueNext]_queueVars
    OBVIOUS
  <2>1. ASSUME NEW p \in Producers, EncacheEnqueue(p)
        PROVE  QueueNext
    <3>1. gate[p] = "enqueue" /\ EnqueueLoadTail(p, msg[p])
      BY <2>1 DEF EncacheEnqueue
    <3>2. msg[p] \in Item /\ Len(sent) < MaxItems
      BY <3>1, CacheAssumption DEF OneInstrumentInv, CacheInv, CacheTypeOK, OneThreadInv
    <3> QED
      BY <3>1, <3>2 DEF QueueNext, EnqueueCall
  <2>2. ASSUME NEW p \in Producers, EncacheFull(p) \/ EncacheQueueStep(p)
        PROVE  QueueNext
    BY <2>2 DEF EncacheFull, EncacheQueueStep, QueueNext, EnqueueStep
  <2>3. ASSUME Decache
        PROVE  QueueNext
    BY <2>3 DEF Decache, QueueNext
  <2>4. ASSUME UNCHANGED cacheVars
        PROVE  UNCHANGED queueVars
    BY <2>4 DEF cacheVars
  <2> QED
    BY <2>1, <2>2, <2>3, <2>4, CallKeepsQueue, GateKeepsQueue DEF CacheNext, EncacheStep
<1> QED
  BY <1>1, <1>2, OneInstrumentInvariant, PTL DEF CacheSpec, QueueSpec

(* With one instrument, the consumer gets rising update ids, however many  *)
(* replicas there are: the queue keeps the order in which the gate let the *)
(* updates pass.                                                           *)
THEOREM DeliveredInOrderHolds ==
  ASSUME SingleProducer
  PROVE  CacheSpec => []DeliveredInOrder
<1>1. OneInstrumentInv /\ FifoOrder => DeliveredInOrder
  <2> SUFFICES ASSUME OneInstrumentInv, FifoOrder,
                      NEW i \in WebSocketOf(got), NEW j \in WebSocketOf(got), i < j
               PROVE  got[i].U < got[j].U
    BY DEF DeliveredInOrder
  <2>1. got \in Seq(Slot) /\ sent \in Seq(Item)
    BY DEF OneInstrumentInv, CacheInv, CacheTypeOK, QueueTypeOK
  <2>2. /\ got[i] = sent[i] /\ got[j] = sent[j]
        /\ i \in WebSocketOf(sent) /\ j \in WebSocketOf(sent)
    BY <2>1 DEF WebSocketOf, FifoOrder
  <2> QED
    BY <2>2 DEF OneInstrumentInv, SentRising
<1>2. CacheSpec => []FifoOrder
  BY CacheUsesQueue, FifoOrderHolds, PTL
<1> QED
  BY <1>1, <1>2, OneInstrumentInvariant, PTL

(* With one instrument, "Deduplicate message" is true: encache accepts an  *)
(* update once, of however many replicas it comes.  (With several it is    *)
(* not: another thread may set U_ back between two copies.)                *)
THEOREM AcceptedOnceHolds ==
  ASSUME SingleProducer
  PROVE  CacheSpec => []AcceptedOnce
<1>1. OneInstrumentInv => AcceptedOnce
  <2> SUFFICES ASSUME OneInstrumentInv,
                      NEW i \in WebSocketOf(sent), NEW j \in WebSocketOf(sent), i # j
               PROVE  sent[i] # sent[j]
    BY DEF AcceptedOnce
  <2>1. i \in Nat /\ j \in Nat /\ sent[i].U \in Nat /\ sent[j].U \in Nat
    <3>1. sent \in Seq(Item) /\ CacheTypeOK
      BY DEF OneInstrumentInv, CacheInv, CacheTypeOK, QueueTypeOK
    <3>2. i \in DOMAIN sent /\ j \in DOMAIN sent /\ sent[i] \in WsMessage /\ sent[j] \in WsMessage
      BY DEF WebSocketOf
    <3> QED
      BY <3>1, <3>2, IdsAreNumbers
  <2>2. sent[i].U < sent[j].U \/ sent[j].U < sent[i].U
    BY <2>1 DEF OneInstrumentInv, SentRising
  <2> QED
    BY <2>1, <2>2
<1> QED
  BY <1>1, OneInstrumentInvariant, PTL

(* With one instrument, all that encache and decache do to the queue are   *)
(* the Put and Get of a FIFO of capacity_ - 1 messages: what Consumer and  *)
(* Client take the cache for.                                              *)
THEOREM CacheIsFifo ==
  ASSUME SingleProducer
  PROVE  CacheSpec => Fifo!FifoSafeSpec
BY CacheUsesQueue, ImplementsFifoSafely, PTL
=============================================================================
