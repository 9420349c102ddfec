# A verification model of time-research-coding

The repository is a C++ client for an exchange's market data. It keeps several
WebSocket connections and REST pollers open per instrument, drops duplicate
updates, buffers what is left in a lock-free ring and hands it to callbacks on a
single consumer thread. The modules here are TLA+ models of that program,
translated from the code in `src/src` and `src/include`; the `.cfg` files
model-check them with TLC; `RingProof`, `LockFreeQueueProof`, `CacheProof`, `ConsumerProof`,
`WebSocketProof`, `RestProof` and `ClientProof` hold theorems that TLAPS proves, over the lemmas of
`NaturalLemmas`.

`PROJECT.json` maps every definition to the lines it stands for. File names below are
those of the repository (`src/cache.cpp` and so on).

## The system

```
 exchange ──> WebSocketHandler ┐  on_data, on the io_context thread      one thread,
 exchange ──> WebSocketHandler ├──> Cache::encache ─> LockFreeQueue ──>  Consumer::run ─> callbacks
 exchange ──> RestApiHandler   ┘    (one Cache for                       on ioc_consumer_
   × instruments, each with its own io_context and thread   all instruments)
```

| Component | State | Operations | Module |
| --- | --- | --- | --- |
| `LockFreeQueue<T>` (`utils/queue.h`) | `buffer_`, `capacity_`, atomics `head_`, `tail_` | constructor, `enqueue`, `dequeue`, `size` | `LockFreeQueue`, `RingArithmetic` |
| `Cache` (`cache.cpp`, `cache.h`) | the queue, `U_`, an unused `mutex_` | `encache`, `decache`, `size` | `Cache` |
| `Consumer` (`consumer.cpp`, `consumer.h`) | `ioc_consumer_`'s handlers, the two callbacks | `run`, `onData`, `bind_*` | `Consumer` |
| `WebSocketHandler` (`websocket.cpp`) | stream, `buffer`, the operation outstanding | `run`, `on_resolve` … `on_read`, `close` | `WebSocketHandler` |
| `RestApiHandler` (`restapi.cpp`) | `timer_`, `socket_`, the operations outstanding | `run`, `on_resolve` … `on_read` | `RestApiHandler`, `RestReply` |
| `ConnectionHandler`, `ConnectionManager` (`connection.h/.cpp`) | the handlers of one instrument | `on_data`, `createConnection`, `bind_cache`, `run` | in `Cache`, the two handlers, `Client` |
| `Client` (`client.cpp`) | `iocs_`, `ioc_consumer_`, threads, managers | constructor, `setup`, `run`, destructor | `Client` |
| Configuration (`client.cpp`) | `Config` | `load_config` | `Configuration` |
| `Msg`, `Parser` (`common.h`, `utils/parser.h`) | none | `createMsg`, `valid`, `parse` | records in `Cache`, `Consumer`; `RestReply` |
| Demo (`app/main.cpp`) | none | `main`, the callbacks | in `Consumer`, `Client` |

How they interact: each instrument's thread runs the handlers of its connections, one
at a time, in the order in which they were posted. `on_data` parses the text and calls
`encache`, so *several threads* call `encache` on the *one* cache; only the
consumer's thread calls `decache`. The program persists nothing, so there is no
recovery to model; connections fail, and an operation ends at any time, after the timer has fired
again, or, as none has a timeout, never.

What is hard here, and what each component must guarantee:

- **Queue.** Two threads and two atomics, with loads that may be stale. Items must leave
  in order, exactly once, never torn; "full" and "empty" must be right. Both depend on
  a contract that nothing enforces: one thread enqueues.
- **Cache.** `U <= U_` and `U_ = U` are two accesses to an unprotected member that all
  instruments share and nobody initialises. Replicas repeat and overtake each other.
- **Consumer.** The event loop must keep one poll alive for ever and must not reorder
  the messages that it posts.
- **Connections.** A stream allows one read at a time; a callback uses whatever
  `socket_` is when it runs; a timer replaces it. Errors end a connection.
  A reply is cut into lines, of which one is kept.
- **Client.** Start-up order (a loop that has nothing to do ends, and is run by nobody
  again), a destructor that does not stop every loop it started, counts that nobody initialises.

`PROJECT.json`, under `hazards`, lists these at their lines with the properties that
cover them.

## Modules

### LockFreeQueue, BoundedFifo

One action per access to shared memory. An atomic is its *modification order*: the
sequence of all values stored, newest last. A load returns any value no older than the
thread has already seen, a release store appends; that is how an acquire/release pair
behaves in C++, for variables whose accesses do not depend on one another's order
beyond happens-before. `head` of `dequeue` and (for one producer) `tail` of `enqueue` are read
back by the thread that writes them, so coherence makes these loads exact.

| Code | Actions |
| --- | --- |
| `enqueue` 18–27 | `EnqueueLoadTail`, `EnqueueFull` (return false) or `EnqueueHasRoom`, `EnqueueWrite`, `EnqueuePublish` |
| `dequeue` 29–37 | `DequeueEmpty` (return false) or `DequeueFound`, `DequeueRead`, `DequeueAdvance` |

A slot is plain memory. `NoDataRace` says that no two threads are about to access the
same one; where they are, the behaviour is undefined and the model lets the slot, or
the copy, be `Torn`. `sent` and `got` are histories. `BoundedFifo` is what the queue
promises: `Put` and `Get` on a sequence of at most `Limit` items. The refinement maps
it to the slots from `head_` up to `tail_`.

### RingArithmetic

The same indices in `size_t` of `Width` bits, with `&`, for every `int` capacity,
including the constructor's test and `size()`. It justifies the `% Capacity` in
`LockFreeQueue`. `BitAnd` is `&`, bit by bit, as a recursive function (`AndOfBits`), so that the
prover can reason about it; `MCRingArithmetic` has TLC check, for all pairs of numbers of the width, that it
is the `&` of the community module `Bitwise`, and `TwoTo` the power `2^k`.
The constructor may refuse the capacity, or `buffer_.resize` may throw (`ResizeThrows`). Capacity 0 passes the
test; the mask is then all ones, the queue never looks full, and the first `enqueue` is `EnqueueOutside`.

### Cache

`EXTENDS LockFreeQueue`, whose producers are the instruments' threads and whose steps
are steps of `encache` and `decache`. `EncacheWebSocket`, `EncacheRest` and
`EncacheMalformed` are the calls from `on_data`; `EncacheRefuse` is
`return false` at `U <= U_`; `EncachePass` and `EncacheStore` are the two accesses to
`U_`; then come the queue's steps. Loads and stores of `U_` are single instructions on
the platforms the code is built for, so they do not tear. A replica delivers rising ids, but
may miss some (it is one of several connections to the same stream). `last` records that.

### Consumer

The handlers in `ioc_consumer_`, in a sequence, and the cache as the FIFO of
`BoundedFifo`. That is what the queue implements for one producer
(`ImplementsFifoSafely`). A poll that loads a stale `tail_` misses a message that
is there: `PollMisses` has no guard on `fifo`. `OnDataCalls`,
`OnDataThrows` and `OnDataIgnores` are the outcomes of `onData`; the exception of a callback
leaves `io_context_.run()` (`thrown`), and no handler runs any more. `ConsumerRun` is the one
call of `run()` that posts the first poll; the thread that then runs the `io_context` takes the steps of
`Handles`. Both are actions of their own so that `Client` can say when they happen.

### WebSocketHandler

`op` is the asynchronous operation outstanding and `ready` the handlers posted to the
`io_context`. Operations `Complete` or `Fail`; `RunHandler` runs the callback, which
starts the next operation, or reports the error and starts nothing. `failed` is a history variable that only
`EveryFrameHandled` looks at. `OnRead` is the whole of
`on_read`: copy the text, consume the buffer, post `on_data`, read on. Data left in the
buffer by a read that failed is not modelled: nobody looks at it. `HandleData` is `on_data` and with it `encache`;
for a frame without a numeric `U` that throws (`cache.cpp:18`), nobody catches it on the instrument's thread, and the
program ends: `HandleDataThrows`. `Unnumbered` says which frames are of that kind.

### RestApiHandler

`TimerFires` is the timer's handler: a new stream, `async_resolve`, and `run()` again.
`OpSucceeds`, `OpFails` and `OnRead` are the callbacks, run with the stream `socket_`
holds at that time. `UndefinedOpRuns` is what may become of an operation on a
stream that has been destroyed, or of two requests that have come to share a stream and have on it
operations that TLS does not allow at once (`Clash`: a handshake beside anything, two reads, two writes): the program
may end. (It may also go on, which is `OpSucceeds`, or report an error, which is `OpFails`.) `overlap` is a
history variable: the timer has fired while a request was under way.

### RestReply

`on_read` on one reply. `ReplyInit` is the text that has arrived: a status line, headers,
then the body with its length given, or in chunks, and all this whole or cut short, after any of its lines or within
one. `GetLine` is a turn of the `std::getline` loop, `LoopEnds` its two ways out, `OnData` the parse and the encache.
Of a line's text the model keeps only what the loop and the parser tell apart: a document, a JSON number (which the
size of a chunk is when its hexadecimal digits are decimal ones), other text, `"\r"`, nothing.

### Configuration

`load_config` as far as it decides which connections are made: `SetReplicas` is a
line of `setup.ini` that sets a number of replicas (any other line changes nothing that is
kept), `Subscribe` a line of `subscription.ini`, `LoadThrows` the exceptions. `replicas` starts with whatever is in memory.
`lines` is a history variable.

### Client

`EXTENDS Consumer, Configuration`. `phase` is where the main thread is:

| Phase | The main thread is |
| --- | --- |
| `setup.ini`, `subscription.ini` | in `load_config` (`LoadConfig`) |
| `constructed` | between the constructor and the end of `setup()` (`Setup`, `ContextsThrow`, `ManagerThrows`) |
| `ready`, `connected`, `starting` | before, or in, `run()`: managers, consumer, threads (`StartConnections`, `StartConsumer`, `StartThread`) |
| `running` | in `ioc_consumer_.run()` (`RunLoop`, the steps of `Handles`) |
| `left` | past an exception that it caught |
| `joining`, `destroyed` | in the destructor (`Destroy`, `Joined`), behind it |
| `terminated`, `undefined` | nowhere: an exception nobody caught, or an assertion; undefined behaviour |

Meanwhile each instrument's thread caches messages, loses connections, throws or ends. Of a connection
the module keeps only that it has work (`work`); what the work is, the two handlers' modules say.
`Catches` is whether the program around the client catches exceptions; `app/main.cpp` does not.
`setup()` and `run()` are called once and in this order, as `main` and the tests do.
While one thread enqueues the cache is the FIFO of `Consumer`. As soon as there are two, any `encache` may interfere
with another (`queue.h:24-25`, the run `queue_mpsc_order`): `ThreadsRace` then leaves any messages in the cache, and
`TornMessageCrashes` is the main thread that copies a torn one. So statements about delivery are for one subscription
(`RunDelivers` and the theorems say so), and everything else holds beside the races.

## Runs

| Run | Shows | Bounds |
| --- | --- | --- |
| `queue_spsc` | One producer: no race, FIFO order, nothing unread overwritten, exact verdicts, the inductive invariant, refinement of `BoundedFifo`, `Drained` | capacity 4, 7 items: the indices go round almost twice, and every stale value of a lap can be loaded. Two distinct items, so that order shows |
| `queue_mpsc_order` | Two producers: `FifoOrder` is violated | 4 accepted items, which is a whole lap |
| `ring_zero` | Capacity 0 is accepted, and the first `enqueue` writes outside the buffer, violation | 6-bit `int`, 7-bit `size_t`, every capacity of that width |
| `sequential` | The two algorithms in which one thread takes part. Of the ring: masking, and `size()` across the wrap. Of a reply: which line becomes the data, and for which replies that is a document | 6-bit `int`, 7-bit `size_t`, every capacity of that width, every pair of indices; every body of up to 4 lines, so that a document may have lines, an empty line or another chunk before and behind it, both framings, cut in every line. Each beside one simple input of the other |
| `cache_order` | One instrument: ids rise, refusals have a cause, `U_` never goes back, an update that moved `U_` arrives; the inductive invariant of the proof | two replicas and REST, ids 1–3, 3 accepted messages, capacity 2 so that the queue fills, `U_` initially 0 or 2 |
| `cache_duplicate` | Two instruments: a duplicate is accepted, violation | ids 1–2, capacity 4 |
| `cache_refused` | Two instruments: an update is refused for another symbol's id, violation | one replica, ids 1–2 |
| `consumer_loop` | One poll in the loop, callbacks follow the cache, every message is called, `BoundedFifo` is implemented from `encache` to the callback | 4 messages through a cache of 3, one source unbound, throwing callbacks |
| `ws_frames` | One operation at a time, frames in order, at most one waiting, all handled up to one without `U` | 4 frames of 2 values, one of them without `U`; failure at any step |
| `rest_polling` | While requests are timely: own stream, answers in order. Always: no answer twice, polling goes on; the inductive invariant of the proof | 3 polls, so three requests may overlap, and any of them may never end |
| `rest_dangling` | A request that outlasts the period is left on a destroyed stream, violation | 2 polls |
| `client` | From the `.ini` files to the destructor: connections as configured, each with a running thread, where the destructor is defined, that it joins only threads it has stopped, that it ends, delivery; the inductive invariant | 2 lines of `setup.ini` with numbers −1 and 1, memory 0 or 2; 2 subscriptions; 3 messages (no property looks at which) through a cache of 2; `Catches = TRUE`, whose behaviours include those of `FALSE` up to the exception that ends the program |

The bounds on histories are `MaxItems`, `MaxFrames`, `MaxPolls`, `MaxLines` and
`MaxSubscriptions`. They only stop new calls, lines and frames, and nothing
that has begun. Each module's type invariant is a conjunct of its inductive invariant (`SpscInv`,
`OneInstrumentInv`, `WsInv`, `RestInv`; that of `Consumer` in `ClientInv`). Symmetry is used only
where the values are merely compared and no liveness property is checked. Deadlock checking is off where the system may stop: an exception that
ends the program, a failed connection, an exhausted bound.

### What the violations say

- **More than one enqueueing thread** (`queue_mpsc_order`, `queue.h:25`). With two
  instruments in `config/subscription.ini`, two threads load the same `tail_`. Accepted items
  are lost or repeated. `answer_of_assignment1b.md:29` says that a lock should be applied;
  `mutex_` in `cache.h:20` is never locked.
- **Deduplication over all instruments** (`cache_duplicate`, `cache_refused`,
  `cache.cpp:19`). The shared `U_` lets a copy through when the check and the store interleave,
  and refuses updates of one symbol because of the ids of another. `README.md:19` says
  "Deduplicate message".
- **A queue without slots** (`ring_zero`, `queue.h:12`). The comment and the message next to the constructor's test say
  that the capacity must be a power of 2. Capacity 0 passes it, and makes a `buffer_` without slots; `enqueue` finds
  `next_tail` = 1 different from `head_` = 0 and writes `buffer_[0]` (`queue.h:24`).
- **Slow REST requests** (`rest_dangling`, `restapi.cpp:26`). The timer destroys the stream of a
  request that is still under way.

Two more ways in which `OnlyDuplicatesRefused` fails need no second
instrument: `U_` moves before a full queue drops the update (`cache.cpp:22`), and the initial
memory of `U_` may refuse updates that were never seen (`cache.h:21`). `RefusedForCause`
and `NewestDelivered` are stated so as to say precisely what is left: those two causes and no
other.

### What the passing runs say that a reader may not expect

- A negative `int`, which becomes a huge `size_t`, never gets past the constructor (`AcceptedCapacitiesHolds`):
  an `int` is narrower than a `size_t`, so what it becomes has several bits.
- `EveryFrameHandled`: one frame without a numeric `U` on any connection ends the program. Up to there, frames that have
  been read are handled even where the connection has failed since.
- `WhichRepliesAreRead`: a document over several lines and, without an empty line in its body, a
  chunked reply give `null` (or a number, the size of a chunk), which is `valid()` and is cached. The callback in `main.cpp` then throws. A reply
  that is cut short gives whatever its last line happens to be (`LastLineBeforeGap`).
- `DestructorDefined`: the destructor runs over `iocs_` with a count that is not initialised
  before `setup()` (`client.cpp:14`). From the end of `setup()` on it is right.
- `ServedWhileLive` depends on the order within `run()`: a thread whose `io_context` has no work when
  it starts ends, and its connections are never served.
- The message of `load_config` for an unreadable `setup.ini` names the other file (`client.cpp:108`). No
  property is about wording.

## Fairness

- A call of `enqueue`, `encache` that has begun runs to its end: the thread is scheduled
  and the code does not block (`WF` on the steps of each producer). Nothing makes
  anyone *call* it.
- The consumer's loop polls for ever (`Consumer::run` posts itself). Every store becomes
  visible in finite time, as the C++ standard asks of atomics, so `DequeueFound`
  is weakly fair: a consumer cannot load stale values for ever. `DequeueEmpty` needs no
  fairness.
- An `io_context` runs the handlers that are ready, and the timer expires. No operation has a timeout, so none is assumed
  to complete, but one: the read of a WebSocket once a frame has come to its socket. A connection may never
  come up, and a REST request never end. Nothing forces the exchange to send, or an operation to fail.
- In `Client` the main thread, once in `run()`, goes on to start the consumer and the threads and
  to run the consumer's loop; a thread whose `io_context` is stopped or without work ends;
  the destructor's joins return when the threads have ended. `PollMisses` is not fair. Nothing makes the program
  call `setup()`, `run()` or the destructor.

## What is proved

Everything in this section holds for *every* value of the constants that satisfies the modules'
assumptions.

| Module | Theorem | Statement |
| --- | --- | --- |
| `LockFreeQueueProof` | `TypeCorrect` | `QueueTypeOK`, for any number of producers |
| | `SpscInvariant` | `SpscInv`, for one producer |
| | `FifoOrderHolds`, `UnreadKeptHolds`, `NoDataRaceHolds`, `VerdictsExactHolds` | the properties of `queue_spsc`, for one producer |
| | `ImplementsFifoSafely` | `QueueSpec => Fifo!FifoSafeSpec` for one producer: each step is a `Put`, a `Get` or a stutter |
| `RingProof` | `RingInvHolds`, `MaskIsModuloHolds`, `SizeExactHolds` | the properties of the ring in `sequential`, for `int` and `size_t` of any width |
| | `AcceptedCapacitiesHolds` | the constructor accepts the powers of two and 0, and no other `int` |
| | `SizeInRangeHolds` | `size()` is in `0 .. capacity_ - 1`, whichever slots it loads |
| `CacheProof` | `CacheTypeCorrect`, `RefusedForCauseHolds` | for any number of instruments |
| | `OneInstrumentInvariant`, `NeverForgetsHolds` | for one instrument |
| | `CacheUsesQueue` | `CacheSpec => QueueSpec` for one instrument |
| | `DeliveredInOrderHolds`, `AcceptedOnceHolds` | rising update ids, and no update accepted twice, for one instrument and any replicas |
| | `CacheIsFifo` | `CacheSpec => Fifo!FifoSafeSpec` for one instrument |
| `ConsumerProof` | `ConsumerTypeCorrect`, `OnePollHolds` | one poll in the loop |
| | `ImplementsDeliverySafely` | `ConsumerSpec => Delivery!FifoSafeSpec` |
| | `CallbacksFollowCacheHolds` | each cached message that has a callback goes to it once and in order |
| `WebSocketProof` | `WsInvariant`, `OneOperationHolds`, `OneDataPendingHolds`, `FramesInOrderHolds` | the safety properties of `ws_frames`, for any frames |
| `RestProof` | `RestInvariant`, `TimelyOwnStreamHolds`, `TimelyAnswersInOrderHolds`, `AnswersOnceHolds` | any number of polls |
| | `LastLineBeforeGapHolds`, `WhichRepliesAreReadHolds` | bodies of any length, with its length given or in any number of chunks, cut anywhere |
| `ClientProof` | `ClientOnePoll` | one poll in the loop, for any number of racing threads |
| | `ClientCallbacksFollowCache`, `ClientImplementsDelivery` | the theorems about `Consumer` hold in a client, for at most one subscription |
| | `ClientInvariant`, `CreatedAsConfiguredHolds`, `ServedWhileLiveHolds`, `DestructorDefinedHolds` | any lines and numbers, any count of subscriptions, catching or not |
| | `JoinsStoppedThreadsHolds` | the destructor joins only threads that were told to stop |

"One producer" and "one instrument" are the hypothesis `SingleProducer`: one thread
enqueues; in a client it is `[](subscriptions <= 1)`. Without it the violations above refute these statements.

**Queue.** None of its properties is inductive by itself. `FifoOrder` does not say that the slot
the consumer reads holds the item it owes; `UnreadKept` does not say why the slot that a producer
writes is free. `SpscInv` adds the missing link: the values in the modification orders
are item numbers modulo the capacity (`IndicesFollowItems`), the producer's view of
`head_`, however stale, leaves it within one lap (`ProducerInv`), and the consumer
never runs past the `tail_` it has loaded (`ConsumerInv`). The proof takes the
actions one by one; `NaturalLemmas` has the modular arithmetic: numbers less than a lap apart with
equal remainders are equal, and the successor of a remainder is the remainder
of the successor.

**Ring.** `LockFreeQueue` writes the indices with `%`; what the code computes is `&` in `size_t`. The bridge is
`AndWithMask`, which says that `x & (2^k - 1)` is `x % 2^k`, and `AndWithPredecessor`, by which
`c & (c - 1)` is 0 for powers of two and 0 alone. Both go by induction on the width: `NaturalLemmas` derives
induction over `0 .. n` from the least element of a set of naturals, and from it that a function defined by recursion
on such a range has the value its equation gives (`FiniteRecursion`); `AndStep` then takes one bit off. The subtraction
of `size()` may go below 0 and wrap at `2^Width`, which loses nothing because the capacity divides that
(`PowersDivide`). `RingInv` adds to the two properties what they do not say themselves: that `count` is the distance from
`head` to `tail` round the ring, which `enqueue` and `dequeue` keep only if the two are slots, and that with
capacity 0 they stay equal, since the first `enqueue` already leaves the buffer (`MaskIsModulo` says that it does,
and `NextIndexWithoutSlots` why).

**Cache.** `CacheInv` adds to `RefusedForCause` that what `U_` holds came from its memory or
from a message that passed the gate, and `PassedGrows` shows that such a message never drops out
of `Passed` on its way through `enqueue`; this needs no assumption about the number of threads.
`OneInstrumentInv` adds, for one thread, that a message between the gate and the queue is newer than
all queued ones. `DeliveredInOrder` then follows from `SentRising` and the queue's `FifoOrder`,
which `CacheUsesQueue` carries over. `AcceptedOnce`, which `cache_duplicate` refutes for two instruments, follows
from `SentRising` for one. `CacheIsFifo` puts `CacheUsesQueue` and `ImplementsFifoSafely` together: gate and ring
are the FIFO that `Consumer` and `Client` take the cache for.

**Consumer.** `OnePoll` with the types is inductive. It gives the two shapes of the loop, and with
them each step is a `Put`, a `Get`, or a move from the cache into the loop that
leaves `InHand \o fifo` as it was (`MessageMoves`). `CallbacksFollowCache` needs one thing more: the calls made, followed
by the calls that the waiting messages will cause, are the calls of all that was ever cached. `CallsOf` is a recursive function of a
sequence; `CallsOfIsDefined` shows, by induction on the length, that its equation has a solution, `CallsOfAppend` and
`CallsOfInFront` how it grows at either end.

**REST.** `RestInv`: requests and operations are in one-to-one correspondence, none is
younger than `socket_`, and while there is no overlap all are the newest. `AnswersOnce` needs the
first of these, `TimelyAnswersInOrder` all.

**WebSocket.** That one operation is outstanding does not follow from itself: a handler that is
posted may start one. `WsInv` says which shapes `op` and `ready` take together (one callback, or one
operation, and at most one `on_data` before it), where the next frame is (in the buffer, or
not read yet), and that what has been handled and what waits are the frames read so far, in order.

**Reply.** `ReplyInv`: the loop has passed `next - 1` lines, none of them empty, and `data_str` is the
last of these. `WholeLines` says what a whole reply has at each line, and `WholeRead` where in it the loop can stop
behind a document or a number.

**Client.** `ConsumerStep` shows that each step of a client is a step of `Consumer`, leaves its variables
alone, or is an enqueue that another thread may interfere with. The last keeps the loop (`InterferenceKeeps`), which gives
`ClientOnePoll` for any number of threads. With one subscription there is one thread, by `ClientInv`, so the last does not
occur (`OneThread`), and the consumer's theorems carry over (`ClientCallbacksFollowCache`, `ClientImplementsDelivery`).
`ClientInv` ties the phase to what has been made: nothing while the files are read, an
`io_context` and a manager for each subscription from `setup()` on, no thread before the
connections have work, one for each `io_context` in the loop; and an ended thread has a cause, no
work or a stop. `ServedWhileLive` needs all of that. `JoinsStoppedThreads` is the safety half of `DestructorEnds`: no join waits
for a thread that goes on with its connections.

Model-checked only: liveness (`Drained`, `NewestDelivered`,
`EveryMessageCalled`, `EveryFrameHandled`, `PollingGoesOn`, `DestructorEnds`,
`RunDelivers`, and the fairness in `ImplementsFifo` and `ImplementsDelivery`), since fairness
and `ENABLED` are outside the prover's reach. Every invariant that a passing run checks is proved. That `BitAnd` is the
`&` of `Bitwise` is checked by TLC for the width of the instance: `Bitwise` is recursive and cannot be used in a proof.

## Plan

Every component with a state of its own is modelled, and every module with a state of its own
has its proofs. What could be added: `Cache` and `Consumer` in one module, with
the ring in place of the FIFO. The two are joined by refinement now: `CacheIsFifo` and
`ImplementsDeliverySafely`.

## Not modelled

The logger (no state that anything depends on); the vendored JSON library in `include/nlohmann`,
which is most of the repository's lines and none of its logic: the program keeps from it whether a text is a
document, a number or `null`, and what a missing member does (`RestReply`, `EncacheMalformed`, `OnDataThrows`); the text of
messages and requests, TLS and HTTP options, the hosts, ports and period of the
configuration (`setEndpoint`, `setPollingInterval`: no property depends on what they store), `get_cache_size`
(a read, for the tests), `OrderBook::hash` and
`WebSocketHandler::close` (called by nobody). Boost.Asio and Boost.Beast are external and are
modelled from their use: one FIFO of handlers per `io_context`, operations that complete
once.
