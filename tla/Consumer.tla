------------------------------ MODULE Consumer ------------------------------
(***************************************************************************)
(* The Consumer of src/consumer.cpp: the handlers it keeps posting to      *)
(* ioc_consumer_, an io_context that one thread runs (Client::run), in the *)
(* order in which they were posted.  One handler polls the cache and posts *)
(* itself again; the other, posted for each message found, hands the       *)
(* message to the callback of its source.  The cache is the bounded FIFO   *)
(* that LockFreeQueue implements for one producer.  Whoever owns the       *)
(* consumer calls run() once (Client::run, test_consumer.cpp).             *)
(***************************************************************************)
EXTENDS BoundedFifo

CONSTANTS
  Bound,    \* the sources for which bind_callback_onOrderBook was called
  MayThrow, \* whether a callback may throw
  MaxItems  \* bound: the number of messages that are cached

Source == {"WebSocket", "RestApi"}

(* A Msg as onData looks at it; type None is that of a default Msg.        *)
Message == [type : {"OrderBook", "None"}, source : Source]

ASSUME ConsumerAssumption ==
  /\ Item \subseteq Message
  /\ Limit \in Nat \ {0}
  /\ Bound \subseteq Source
  /\ MayThrow \in BOOLEAN
  /\ MaxItems \in Nat

VARIABLES
  started, \* run() has been called
  loop,    \* the handlers posted to io_context_, the next one first
  thrown,  \* an exception of a callback has left io_context_.run()
  cached,  \* history: the messages that encache queued
  called   \* history: the messages that callbacks were called with

consumerVars == <<fifo, started, loop, thrown, cached, called>>

Poll == [run |-> "poll"]
OnData(m) == [run |-> "onData", msg |-> m]

-----------------------------------------------------------------------------
ConsumerInit ==
  /\ FifoInit
  /\ started = FALSE
  /\ loop = <<>>
  /\ thrown = FALSE
  /\ cached = <<>>
  /\ called = <<>>

(* run() posts the first poll.                                             *)
ConsumerRun ==
  /\ ~ started
  /\ started' = TRUE
  /\ loop' = Append(loop, Poll)
  /\ UNCHANGED <<fifo, thrown, cached, called>>

(* A handler of a connection puts a message in the cache.                  *)
Encache ==
  /\ Len(cached) < MaxItems
  /\ Put
  /\ cached' = Append(cached, fifo'[Len(fifo')])
  /\ UNCHANGED <<started, loop, thrown, called>>

(* The handler that the io_context runs next                               *)
Runs(h) == loop # <<>> /\ Head(loop).run = h

(* Mutants of PollTakes: run() posts a poll more for each message; decache *)
(* copies the message and leaves it in the cache.                          *)
PollTakesAndForks ==
  /\ Runs(Poll.run)
  /\ Get
  /\ loop' = Tail(loop) \o <<OnData(Head(fifo)), Poll, Poll>>
  /\ UNCHANGED <<started, thrown, cached, called>>

PollPeeks ==
  /\ Runs(Poll.run)
  /\ fifo # <<>>
  /\ loop' = Tail(loop) \o <<OnData(Head(fifo)), Poll>>
  /\ UNCHANGED <<fifo, started, thrown, cached, called>>

(* decache(msg) is true: post onData(msg), then run() posts the next poll. *)
PollTakes ==
  /\ Runs(Poll.run)
  /\ Get
  /\ loop' = Tail(loop) \o <<OnData(Head(fifo)), Poll>>
  /\ UNCHANGED <<started, thrown, cached, called>>

(* Mutant of PollMisses: run() is called only where there was a message.   *)
PollStops ==
  /\ Runs(Poll.run)
  /\ loop' = Tail(loop)
  /\ UNCHANGED <<fifo, started, thrown, cached, called>>

(* decache(msg) is false: the queue is empty, or the tail_ it loaded is    *)
(* stale.                                                                  *)
PollMisses ==
  /\ Runs(Poll.run)
  /\ loop' = Append(Tail(loop), Poll)
  /\ UNCHANGED <<fifo, started, thrown, cached, called>>

HasCallback(m) == m.type = "OrderBook" /\ m.source \in Bound

(* Mutant of OnDataCalls: whether a callback is bound is not asked.        *)
OnDataCallsAny ==
  /\ Runs("onData")
  /\ called' = Append(called, Head(loop).msg)
  /\ loop' = Tail(loop)
  /\ UNCHANGED <<fifo, started, thrown, cached>>

(* onData with an OrderBook whose source has a callback, which returns     *)
OnDataCalls ==
  /\ Runs("onData")
  /\ HasCallback(Head(loop).msg)
  /\ called' = Append(called, Head(loop).msg)
  /\ loop' = Tail(loop)
  /\ UNCHANGED <<fifo, started, thrown, cached>>

(* or throws, as that of app/main.cpp does when the data is no JSON object *)
OnDataThrows ==
  /\ MayThrow
  /\ Runs("onData")
  /\ HasCallback(Head(loop).msg)
  /\ called' = Append(called, Head(loop).msg)
  /\ thrown' = TRUE
  /\ loop' = Tail(loop)
  /\ UNCHANGED <<fifo, started, cached>>

(* No callback is bound, or "Unknown message type".                        *)
OnDataIgnores ==
  /\ Runs("onData")
  /\ ~ HasCallback(Head(loop).msg)
  /\ loop' = Tail(loop)
  /\ UNCHANGED <<fifo, started, thrown, cached, called>>

OnDataRuns == OnDataCalls \/ OnDataThrows \/ OnDataIgnores

(* The thread that is in io_context_.run() runs the next handler.          *)
Handles == ~ thrown /\ (PollTakes \/ PollMisses \/ OnDataRuns)

ConsumerNext == ConsumerRun \/ Encache \/ Handles

(* The io_context thread runs every handler that is posted, and a store to *)
(* tail_ becomes visible to it in the end.                                 *)
ConsumerFairness ==
  /\ WF_consumerVars(~ thrown /\ PollTakes)
  /\ WF_consumerVars(~ thrown /\ OnDataRuns)

ConsumerSpec == ConsumerInit /\ [][ConsumerNext]_consumerVars

FairConsumerSpec == ConsumerSpec /\ ConsumerFairness

-----------------------------------------------------------------------------
ConsumerTypeOK ==
  /\ fifo \in Seq(Item)
  /\ Len(fifo) <= Limit
  /\ loop \in Seq({Poll} \cup {OnData(m) : m \in Item})
  /\ started \in BOOLEAN
  /\ thrown \in BOOLEAN
  /\ cached \in Seq(Item)
  /\ called \in Seq(Item)

(* The message that was taken from the cache and not yet handed on         *)
InHand == IF Runs("onData") THEN <<Head(loop).msg>> ELSE <<>>

(* However long it runs, the event loop holds one poll and at most one     *)
(* onData ahead of it: polling never stops, never multiplies, and takes no *)
(* further message from the cache while one is in hand.                    *)
OnePoll ==
  \/ ~ started /\ loop = <<>>
  \/ started /\ loop = <<Poll>>
  \/ started /\ \E m \in Item : loop = <<OnData(m), Poll>>

(* Those of the messages in s that have a callback, in the same order      *)
CallsOf(s) ==
  LET calls[n \in 0 .. Len(s)] ==
        IF n = 0 THEN <<>>
        ELSE IF HasCallback(s[n]) THEN Append(calls[n - 1], s[n]) ELSE calls[n - 1]
  IN  calls[Len(s)]

(* Each cached message is passed to the callback of its source just once,  *)
(* in the order of the cache; without one it is passed to none.            *)
CallbacksFollowCache == CallsOf(cached) = called \o CallsOf(InHand \o fifo)

(* Once run() has been called, every message is taken, those cached before *)
(* too, and its callback called, unless a callback before it has thrown.   *)
EveryMessageCalled ==
  \A n \in 1 .. MaxItems :
    started /\ Len(CallsOf(cached)) >= n ~> Len(called) >= n \/ thrown

(* The cache and the event loop together are a bounded FIFO from encache   *)
(* to the callback: the loop adds room for one message.                    *)
Delivery == INSTANCE BoundedFifo WITH fifo <- InHand \o fifo, Limit <- Limit + 1

ImplementsDelivery == Delivery!FifoSafeSpec
=============================================================================
