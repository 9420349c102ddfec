------------------------------- MODULE Cache -------------------------------
(***************************************************************************)
(* The Cache of src/cache.cpp: a gate that is meant to drop duplicate      *)
(* WebSocket messages, in front of the LockFreeQueue.  Client::setup binds *)
(* one Cache to the handlers of every instrument, so the gate's U_ is      *)
(* shared by all of them, and so is the queue behind it.  Each instrument  *)
(* has one io_context thread, which runs on_data, and so encache, for all  *)
(* the handlers of that instrument: several WebSocket replicas, each       *)
(* delivering the updates of the symbol in order but not necessarily all   *)
(* of them, and REST pollers.                                              *)
(*                                                                         *)
(* The threads are the Producers of LockFreeQueue.  U_ is a plain uint64_t *)
(* that no constructor initialises and no lock protects (mutex_ is never   *)
(* locked): its first value is any of UninitialisedU, and between the load *)
(* in `U <= U_' and the store in `U_ = U' other threads may run.  Such a   *)
(* load and such a store are one instruction each; they do not tear.       *)
(***************************************************************************)
EXTENDS LockFreeQueue

CONSTANTS
  Replicas,       \* the WebSocket connections of one instrument
  UpdateIds,      \* bound: the values of "U" in the exchange's updates
  UninitialisedU, \* bound: what the memory of U_ may hold when Cache is constructed
  MayBeMalformed  \* whether a WebSocket message without a number "U" may come

(* An OrderBook Msg, reduced to what encache looks at and to its symbol.   *)
WsMessage == [source : {"WebSocket"}, symbol : Producers, U : UpdateIds]
RestMessage == [source : {"RestApi"}, symbol : Producers]
Message == WsMessage \cup RestMessage

ASSUME CacheAssumption ==
  /\ Item = Message
  /\ UpdateIds \subseteq Nat
  /\ UninitialisedU \subseteq Nat
  /\ MayBeMalformed \in BOOLEAN

VARIABLES
  U_,          \* U_
  firstU,      \* what U_ held when the cache was constructed
  last,        \* last[p][r]: the newest update that replica r of p has delivered
  gate,        \* gate[p]: where p is inside encache, up to its call of enqueue
  msg,         \* msg[p]: the argument of p's encache
  terminated,  \* an exception has left io_context::run, and so the program
  refused,     \* history: the messages for which `U <= U_' held
  dropped      \* history: the messages for which enqueue returned false

gateVars == <<U_, firstU, last, gate, msg, terminated, refused, dropped>>
cacheVars == <<queueVars, gateVars>>

-----------------------------------------------------------------------------
CacheInit ==
  /\ QueueInit
  /\ U_ \in UninitialisedU
  /\ firstU = U_
  /\ last = [p \in Producers |-> [r \in Replicas |-> 0]]
  /\ gate = [p \in Producers |-> "idle"]
  /\ msg = [p \in Producers |-> NoItem]
  /\ terminated = FALSE
  /\ refused = {}
  /\ dropped = {}

(* The thread is in no call of encache, and the run is not over.           *)
Free(p) ==
  /\ gate[p] = "idle"
  /\ pc[p] = "idle"
  /\ Len(sent) < MaxItems

(* on_data with a WebSocket message: encache is called.                    *)
EncacheWebSocket(p) ==
  /\ Free(p)
  /\ \E r \in Replicas, u \in UpdateIds :
       /\ u > last[p][r]
       /\ last' = [last EXCEPT ![p][r] = u]
       /\ msg' = [msg EXCEPT ![p] = [source |-> "WebSocket", symbol |-> p, U |-> u]]
  /\ gate' = [gate EXCEPT ![p] = "compare"]
  /\ UNCHANGED <<queueVars, U_, firstU, terminated, refused, dropped>>

(* on_data with a REST answer: encache is called, and skips the gate.      *)
EncacheRest(p) ==
  /\ Free(p)
  /\ msg' = [msg EXCEPT ![p] = [source |-> "RestApi", symbol |-> p]]
  /\ gate' = [gate EXCEPT ![p] = "enqueue"]
  /\ UNCHANGED <<queueVars, U_, firstU, last, terminated, refused, dropped>>

(* A WebSocket message in which data["U"] is no number (or that is no JSON *)
(* at all, which parses to null and is valid()): the conversion throws,    *)
(* nothing catches it, and std::terminate ends the program.                *)
EncacheMalformed(p) ==
  /\ MayBeMalformed
  /\ Free(p)
  /\ terminated' = TRUE
  /\ UNCHANGED <<queueVars, U_, firstU, last, gate, msg, refused, dropped>>

(* Mutant of EncacheRefuse: the update just after the newest is refused.   *)
EncacheRefuseNext(p) ==
  /\ gate[p] = "compare"
  /\ msg[p].U <= U_ + 1
  /\ refused' = refused \cup {msg[p]}
  /\ gate' = [gate EXCEPT ![p] = "idle"]
  /\ UNCHANGED <<queueVars, U_, firstU, last, msg, terminated, dropped>>

(* if (U <= U_) return false                                               *)
EncacheRefuse(p) ==
  /\ gate[p] = "compare"
  /\ msg[p].U <= U_
  /\ refused' = refused \cup {msg[p]}
  /\ gate' = [gate EXCEPT ![p] = "idle"]
  /\ UNCHANGED <<queueVars, U_, firstU, last, msg, terminated, dropped>>

(* Mutants of EncachePass: `U < U_' is the test; there is no test.         *)
EncachePassEqual(p) ==
  /\ gate[p] = "compare"
  /\ msg[p].U >= U_
  /\ gate' = [gate EXCEPT ![p] = "store"]
  /\ UNCHANGED <<queueVars, U_, firstU, last, msg, terminated, refused, dropped>>

EncachePassAny(p) ==
  /\ gate[p] = "compare"
  /\ gate' = [gate EXCEPT ![p] = "store"]
  /\ UNCHANGED <<queueVars, U_, firstU, last, msg, terminated, refused, dropped>>

(* U > U_: go on                                                           *)
EncachePass(p) ==
  /\ gate[p] = "compare"
  /\ msg[p].U > U_
  /\ gate' = [gate EXCEPT ![p] = "store"]
  /\ UNCHANGED <<queueVars, U_, firstU, last, msg, terminated, refused, dropped>>

(* Mutants of EncacheStore: U_ becomes the id expected next; the message   *)
(* is not passed on to the queue.                                          *)
EncacheStoreNext(p) ==
  /\ gate[p] = "store"
  /\ U_' = msg[p].U + 1
  /\ gate' = [gate EXCEPT ![p] = "enqueue"]
  /\ UNCHANGED <<queueVars, firstU, last, msg, terminated, refused, dropped>>

EncacheStoreOnly(p) ==
  /\ gate[p] = "store"
  /\ U_' = msg[p].U
  /\ gate' = [gate EXCEPT ![p] = "idle"]
  /\ UNCHANGED <<queueVars, firstU, last, msg, terminated, refused, dropped>>

(* U_ = U                                                                  *)
EncacheStore(p) ==
  /\ gate[p] = "store"
  /\ U_' = msg[p].U
  /\ gate' = [gate EXCEPT ![p] = "enqueue"]
  /\ UNCHANGED <<queueVars, firstU, last, msg, terminated, refused, dropped>>

(* cache_queue_->enqueue(msg) begins                                       *)
EncacheEnqueue(p) ==
  /\ gate[p] = "enqueue"
  /\ EnqueueLoadTail(p, msg[p])
  /\ gate' = [gate EXCEPT ![p] = "idle"]
  /\ UNCHANGED <<U_, firstU, last, msg, terminated, refused, dropped>>

(* enqueue returns false, encache returns that, and on_data ignores it     *)
EncacheFull(p) ==
  /\ EnqueueFull(p)
  /\ dropped' = dropped \cup {item[p]}
  /\ UNCHANGED <<U_, firstU, last, gate, msg, terminated, refused>>

(* The rest of enqueue                                                     *)
EncacheQueueStep(p) ==
  /\ EnqueueHasRoom(p) \/ EnqueueWrite(p) \/ EnqueuePublish(p)
  /\ UNCHANGED gateVars

EncacheStep(p) ==
  /\ ~ terminated
  /\ \/ EncacheRefuse(p) \/ EncachePass(p) \/ EncacheStore(p)
     \/ EncacheEnqueue(p) \/ EncacheFull(p) \/ EncacheQueueStep(p)

EncacheCall(p) ==
  /\ ~ terminated
  /\ EncacheWebSocket(p) \/ EncacheRest(p) \/ EncacheMalformed(p)

(* decache, called by the consumer's thread                                *)
Decache ==
  /\ ~ terminated
  /\ DequeueStep
  /\ UNCHANGED gateVars

CacheNext == (\E p \in Producers : EncacheCall(p) \/ EncacheStep(p)) \/ Decache

(* encache always runs to its end and the consumer polls for ever; nothing *)
(* makes the exchange send.                                                *)
CacheFairness ==
  /\ \A p \in Producers : WF_cacheVars(EncacheStep(p))
  /\ WF_cacheVars(~ terminated /\ (DequeueFound \/ DequeueRead \/ DequeueAdvance) /\ UNCHANGED gateVars)

CacheSpec == CacheInit /\ [][CacheNext]_cacheVars

FairCacheSpec == CacheSpec /\ CacheFairness

-----------------------------------------------------------------------------
CacheTypeOK ==
  /\ QueueTypeOK
  /\ U_ \in UpdateIds \cup UninitialisedU
  /\ firstU \in UninitialisedU
  /\ last \in [Producers -> [Replicas -> UpdateIds \cup {0}]]
  /\ gate \in [Producers -> {"idle", "compare", "store", "enqueue"}]
  /\ msg \in [Producers -> Message \cup {NoItem}]
  /\ \A p \in Producers : gate[p] \in {"compare", "store"} => msg[p] \in WsMessage
  /\ \A p \in Producers : gate[p] = "enqueue" => msg[p] \in Message
  /\ terminated \in BOOLEAN
  /\ refused \subseteq WsMessage
  /\ dropped \subseteq Message

WebSocketOf(s) == {i \in DOMAIN s : s[i] \in WsMessage}

(* What the consumer gets of a symbol over WebSocket has rising update     *)
(* ids: no update twice, none after a newer one, however the replicas      *)
(* interleave and whatever U_ held at first.                               *)
DeliveredInOrder ==
  \A i, j \in WebSocketOf(got) :
    i < j /\ got[i].symbol = got[j].symbol => got[i].U < got[j].U

(* "Deduplicate message": encache returns true at most once for an update, *)
(* of however many replicas it comes.                                      *)
AcceptedOnce ==
  \A i, j \in WebSocketOf(sent) : i # j => sent[i] # sent[j]

(* The messages that the gate let through.                                 *)
Passed ==
  {sent[i] : i \in WebSocketOf(sent)} \cup (dropped \cap WsMessage)
    \cup {msg[p] : p \in {q \in Producers : gate[q] = "enqueue" /\ msg[q] \in WsMessage}}
    \cup {item[p] : p \in {q \in Producers : pc[q] # "idle" /\ item[q] \in WsMessage}}

(* An update is refused because one at least as new went through the gate  *)
(* before (and was queued, or dropped by the full queue), or because of    *)
(* what the memory of U_ held at first: for no other reason.               *)
RefusedForCause ==
  \A m \in refused : m.U <= firstU \/ \E n \in Passed : n.U >= m.U

(* "Deduplicate message": an update is refused only if it, or a newer one  *)
(* of its symbol, is in the queue or on its way there.                     *)
OnlyDuplicatesRefused ==
  \A m \in refused : \E n \in Passed \ dropped : n.symbol = m.symbol /\ n.U >= m.U

(* The newest update seen never goes back.                                 *)
NeverForgets == [][U_' >= U_]_U_

(* An update that moved U_ reaches the consumer, unless the queue was full *)
(* just then or the program has ended: no other step between `U_ = U' and  *)
(* decache loses it.  (Every copy of it on another replica is refused from *)
(* then on.)                                                               *)
NewestDelivered ==
  \A u \in UpdateIds :
    U_ = u /\ u > firstU ~>
      \/ \E i \in WebSocketOf(got) : got[i].U = u
      \/ \E m \in dropped \cap WsMessage : m.U = u
      \/ terminated

(***************************************************************************)
(* The inductive invariants behind the properties above.  CacheInv holds   *)
(* for any number of instruments: a thread is in the gate or in enqueue,   *)
(* never in both, and what U_ holds came from its memory or from a message *)
(* that went through the gate.  OneInstrumentInv says what a single thread *)
(* adds: each message on its way to the queue is newer than all in it.     *)
(***************************************************************************)
CacheInv ==
  /\ CacheTypeOK
  /\ \A p \in Producers : gate[p] # "idle" => pc[p] = "idle"
  /\ U_ = firstU \/ \E n \in Passed : n.U = U_
  /\ RefusedForCause

(* m is the message that U_ was set to, and none like it is queued yet.    *)
NewestUnsent(m) == m.U = U_ /\ \A i \in WebSocketOf(sent) : sent[i].U < U_

SentRising ==
  \A i, j \in WebSocketOf(sent) : i < j => sent[i].U < sent[j].U

OneThreadInv(p) ==
  /\ gate[p] = "store" => msg[p].U > U_
  /\ gate[p] = "enqueue" /\ msg[p] \in WsMessage => NewestUnsent(msg[p])
  /\ pc[p] # "idle" /\ item[p] \in WsMessage => NewestUnsent(item[p])
  /\ gate[p] # "idle" \/ pc[p] # "idle" => Len(sent) < MaxItems

OneInstrumentInv ==
  /\ CacheInv
  /\ SentRising
  /\ \A i \in WebSocketOf(sent) : sent[i].U <= U_
  /\ \A p \in Producers : OneThreadInv(p)
=============================================================================
