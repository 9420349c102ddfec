------------------------------- MODULE Client -------------------------------
(***************************************************************************)
(* The Client of src/client.cpp, from its configuration to its destructor: *)
(* setup() makes an io_context and a ConnectionManager per subscription;   *)
(* run() starts all connections and the consumer, then a thread for each   *)
(* io_context, and becomes the consumer's thread itself; the destructor    *)
(* stops the io_contexts and joins the threads.                            *)
(*                                                                         *)
(* The consumer is that of Consumer; its handlers run on the main thread   *)
(* while that is in ioc_consumer_.run().  The cache is a FIFO for as long  *)
(* as one thread enqueues, which is what LockFreeQueue implements.  Of     *)
(* several, two may be in enqueue at once (the run queue_mpsc_order), and  *)
(* the cache then holds whatever they leave there.                         *)
(* Of a connection only whether it still has work is kept: how it works is *)
(* in WebSocketHandler and RestApiHandler.                                 *)
(*                                                                         *)
(* Nobody stops ioc_consumer_, so run() ends by an exception only.  In     *)
(* app/main.cpp nothing catches it, and the program ends.  A program that  *)
(* catches it, or never calls run(), destroys the client.                  *)
(***************************************************************************)
EXTENDS Consumer, Configuration

CONSTANTS
  Catches \* the program that has the client catches exceptions, and may
          \* destroy the client; FALSE for app/main.cpp

ASSUME ClientAssumption == Catches \in BOOLEAN

VARIABLES
  n_instrument_, \* not initialised before setup()
  managers,      \* connection_managers_: how many handlers of each kind each has
  work,          \* for each io_context of iocs_, how many connections have work
                 \* in it; <<>> while iocs_ is null
  threads,       \* threads_: "running" in io_context::run, or "ended"
  stopped        \* the io_contexts that are stopped

lifeVars == <<n_instrument_, managers, work, threads, stopped>>
clientVars == <<consumerVars, configVars, lifeVars>>

Instrument == 1 .. MaxSubscriptions

-----------------------------------------------------------------------------
ClientInit ==
  /\ ConsumerInit
  /\ ConfigInit
  /\ n_instrument_ \in Uninitialised
  /\ managers = <<>>
  /\ work = <<>>
  /\ threads = <<>>
  /\ stopped = {}

LoadConfig == ConfigNext /\ UNCHANGED <<consumerVars, lifeVars>>

(* Where the program is after an exception has left setup() or run()       *)
AfterException == IF Catches THEN "left" ELSE "terminated"

(* The main thread goes on; the configuration has been read.               *)
Goto(p) == phase' = p /\ UNCHANGED <<replicas, subscriptions, lines>>

(* The constructor of ConnectionManager: createConnection in a loop        *)
Connections == [k \in Kind |-> IF replicas[k] > 0 THEN replicas[k] ELSE 0]

(* Mutant of SetUp: each manager's io_context is made along with it.       *)
SetUpOneByOne(n) ==
  /\ n_instrument_' = subscriptions
  /\ work' = [i \in 1 .. n |-> 0]
  /\ managers' = [i \in 1 .. n |-> Connections]
  /\ UNCHANGED <<consumerVars, threads, stopped>>

(* setup(), as far as the io_contexts and n managers                       *)
SetUp(n) ==
  /\ n_instrument_' = subscriptions
  /\ work' = [i \in 1 .. subscriptions |-> 0]
  /\ managers' = [i \in 1 .. n |-> Connections]
  /\ UNCHANGED <<consumerVars, threads, stopped>>

(* Mutant of Setup: the managers' arguments for the replicas are swapped.  *)
SetupSwaps ==
  /\ phase = "constructed"
  /\ Goto("ready")
  /\ n_instrument_' = subscriptions
  /\ work' = [i \in 1 .. subscriptions |-> 0]
  /\ managers' = [i \in 1 .. subscriptions |->
       [restapi |-> Connections["websocket"], websocket |-> Connections["restapi"]]]
  /\ UNCHANGED <<consumerVars, threads, stopped>>

(* setup(): all is made, and nothing is started.                           *)
Setup == phase = "constructed" /\ Goto("ready") /\ SetUp(subscriptions)

(* The io_contexts cannot be made.                                         *)
ContextsThrow ==
  /\ phase = "constructed"
  /\ Goto(AfterException)
  /\ n_instrument_' = subscriptions
  /\ UNCHANGED <<consumerVars, managers, work, threads, stopped>>

(* One of the managers cannot be made.                                     *)
ManagerThrows ==
  /\ phase = "constructed"
  /\ Goto(AfterException)
  /\ \E n \in 0 .. subscriptions - 1 : SetUp(n)

(* run(): assert(connection_managers_.size() > 0) fails.                   *)
RunAsserts ==
  /\ phase = "ready" /\ managers = <<>>
  /\ Goto("terminated")
  /\ UNCHANGED <<consumerVars, lifeVars>>

(* run(): each handler's run() posts work to its io_context, which nobody  *)
(* runs yet.                                                               *)
StartConnections ==
  /\ phase = "ready" /\ managers # <<>>
  /\ Goto("connected")
  /\ work' = [i \in DOMAIN work |-> managers[i].restapi + managers[i].websocket]
  /\ UNCHANGED <<consumerVars, n_instrument_, managers, threads, stopped>>

(* Mutant of StartConsumer: consumer_->run() is not called.                *)
StartNoConsumer ==
  /\ phase = "connected"
  /\ Goto("starting")
  /\ UNCHANGED <<consumerVars, lifeVars>>

(* run(): consumer_->run() posts the first poll.                           *)
StartConsumer ==
  /\ phase = "connected"
  /\ Goto("starting")
  /\ ConsumerRun
  /\ UNCHANGED lifeVars

(* Mutant of StartThread: the threads are made before anything is started. *)
StartThreadEarly ==
  /\ phase \in {"ready", "connected", "starting"} /\ Len(threads) < n_instrument_
  /\ threads' = Append(threads, "running")
  /\ UNCHANGED <<consumerVars, configVars, n_instrument_, managers, work, stopped>>

(* run(): the next thread, which calls run() of its io_context             *)
StartThread ==
  /\ phase = "starting" /\ Len(threads) < n_instrument_
  /\ threads' = Append(threads, "running")
  /\ UNCHANGED <<consumerVars, configVars, n_instrument_, managers, work, stopped>>

(* run(): the system has no thread to give.                                *)
StartThreadThrows ==
  /\ phase = "starting" /\ Len(threads) < n_instrument_
  /\ Goto(AfterException)
  /\ UNCHANGED <<consumerVars, lifeVars>>

(* run(): ioc_consumer_.run()                                              *)
EnterLoop ==
  /\ phase = "starting" /\ Len(threads) >= n_instrument_
  /\ Goto("running")
  /\ UNCHANGED <<consumerVars, lifeVars>>

(* The main thread runs a handler of the consumer.  When a callback throws *)
(* run() is left, while the instruments' threads go on.                    *)
RunLoop ==
  /\ phase = "running"
  /\ Handles
  /\ Goto(IF thrown' THEN AfterException ELSE phase)
  /\ UNCHANGED lifeVars

-----------------------------------------------------------------------------
(* The thread of instrument i is in io_context::run, with connections.     *)
Serves(i) == i \in DOMAIN threads /\ threads[i] = "running" /\ work[i] > 0

(* on_data of a connection, on the only instrument's thread                *)
ThreadEncaches(i) ==
  /\ Serves(i) /\ Len(threads) = 1
  /\ Encache
  /\ UNCHANGED <<configVars, lifeVars>>

(* Two threads' enqueues interfere: both write one slot, and the tail_ that *)
(* the later store leaves may be behind the other's, or behind head_.  The *)
(* message may be lost, or torn, and others lost or found again.           *)
Interfere ==
  /\ Len(cached) < MaxItems
  /\ \E m \in Item : cached' = Append(cached, m)
  /\ \E n \in 0 .. Limit : fifo' \in [1 .. n -> Item]
  /\ UNCHANGED <<started, loop, thrown, called>>

(* on_data of a connection, where other threads may be in enqueue          *)
ThreadsRace(i) ==
  /\ Serves(i) /\ Len(threads) > 1
  /\ Interfere
  /\ UNCHANGED <<configVars, lifeVars>>

(* The main thread copies a message whose pointers are torn.               *)
TornMessageCrashes ==
  /\ phase = "running" /\ Len(threads) > 1 /\ cached # <<>>
  /\ Goto("terminated")
  /\ UNCHANGED <<consumerVars, lifeVars>>

(* A connection ends with an error, and nothing starts it again.           *)
ConnectionEnds(i) ==
  /\ Serves(i)
  /\ work' = [work EXCEPT ![i] = @ - 1]
  /\ UNCHANGED <<consumerVars, configVars, n_instrument_, managers, threads, stopped>>

(* A message without update id: an exception leaves the thread's function. *)
ThreadThrows(i) ==
  /\ Serves(i)
  /\ Goto("terminated")
  /\ UNCHANGED <<consumerVars, lifeVars>>

(* io_context::run returns when nothing is left to do, or once stopped.    *)
ThreadEnds(i) ==
  /\ i \in DOMAIN threads /\ threads[i] = "running"
  /\ work[i] = 0 \/ i \in stopped
  /\ threads' = [threads EXCEPT ![i] = "ended"]
  /\ UNCHANGED <<consumerVars, configVars, n_instrument_, managers, work, stopped>>

-----------------------------------------------------------------------------
(* The client goes out of scope: never run, or left by an exception.       *)
MayDestroy == Catches /\ phase \in {"constructed", "ready", "left"}

(* Mutant of Destroy: the last io_context is not stopped.                  *)
DestroyButLast ==
  /\ MayDestroy /\ n_instrument_ <= Len(work)
  /\ Goto("joining")
  /\ stopped' = 1 .. n_instrument_ - 1
  /\ UNCHANGED <<consumerVars, n_instrument_, managers, work, threads>>

(* The destructor stops the io_contexts                                    *)
Destroy ==
  /\ MayDestroy /\ n_instrument_ <= Len(work)
  /\ Goto("joining")
  /\ stopped' = 1 .. n_instrument_
  /\ UNCHANGED <<consumerVars, n_instrument_, managers, work, threads>>

(* or goes past the end of iocs_, which may be null: undefined.            *)
DestroyUndefined ==
  /\ MayDestroy /\ n_instrument_ > Len(work)
  /\ Goto("undefined")
  /\ UNCHANGED <<consumerVars, lifeVars>>

(* All threads have been joined, and the members are destroyed.            *)
Joined ==
  /\ phase = "joining"
  /\ \A i \in DOMAIN threads : threads[i] = "ended"
  /\ Goto("destroyed")
  /\ UNCHANGED <<consumerVars, lifeVars>>

Prepare == LoadConfig \/ Setup \/ ContextsThrow \/ ManagerThrows

RunStep ==
  \/ RunAsserts \/ StartConnections \/ StartConsumer
  \/ StartThread \/ StartThreadThrows \/ EnterLoop \/ RunLoop \/ TornMessageCrashes

ThreadStep(i) ==
  \/ ThreadEncaches(i) \/ ThreadsRace(i)
  \/ ConnectionEnds(i) \/ ThreadThrows(i) \/ ThreadEnds(i)

ClientNext ==
  /\ phase \notin {"terminated", "undefined"}
  /\ \/ Prepare \/ RunStep
     \/ \E i \in Instrument : ThreadStep(i)
     \/ Destroy \/ DestroyUndefined \/ Joined

(* run(), once begun, and the destructor go on, and so do the threads;     *)
(* nothing makes anyone call them, connect or send.                        *)
ClientFairness ==
  /\ WF_clientVars(StartConsumer)
  /\ WF_clientVars(StartThread)
  /\ WF_clientVars(EnterLoop)
  /\ WF_clientVars(RunLoop /\ PollTakes)
  /\ WF_clientVars(RunLoop /\ OnDataRuns)
  /\ WF_clientVars(Joined)
  /\ \A i \in Instrument : WF_clientVars(phase \notin {"terminated", "undefined"} /\ ThreadEnds(i))

ClientSpec == ClientInit /\ [][ClientNext]_clientVars

FairClientSpec == ClientSpec /\ ClientFairness

-----------------------------------------------------------------------------
Phase ==
  {"setup.ini", "subscription.ini", "constructed", "ready", "connected", "starting",
   "running", "left", "joining", "destroyed", "terminated", "undefined"}

ClientTypeOK ==
  /\ ConsumerTypeOK
  /\ phase \in Phase
  /\ replicas \in [Kind -> Int]
  /\ subscriptions \in 0 .. MaxSubscriptions
  /\ lines \in Seq([kind : Kind, number : Number])
  /\ n_instrument_ \in Int
  /\ managers \in Seq([Kind -> Nat])
  /\ work \in Seq(Nat)
  /\ threads \in Seq({"running", "ended"})
  /\ stopped \subseteq Instrument

(* Each subscription gets the connections that the last line of setup.ini  *)
(* for their kind asks for: from the line that is read, through the        *)
(* configuration and setup(), to the loops that create them.  (A kind that *)
(* no line sets gets as many as uninitialised memory says.)                *)
CreatedAsConfigured ==
  /\ phase \in {"ready", "connected", "starting", "running"} =>
       /\ n_instrument_ = subscriptions
       /\ Len(managers) = subscriptions
       /\ Len(work) = subscriptions
  /\ \A i \in DOMAIN managers, k \in Kind, n \in Number :
       Configured(k, n) => managers[i][k] = IF n < 0 THEN 0 ELSE n

(* While run() goes on, every connection that has work is on an io_context *)
(* that a thread is running.  One whose run() has returned for lack of     *)
(* work is run by nobody again, so the connections have to be started      *)
(* before the threads, and each subscription needs its thread.             *)
ServedWhileLive == phase = "running" => \A i \in DOMAIN work : work[i] > 0 => Serves(i)

(* While the destructor joins the threads, every one has been told to stop:*)
(* join() waits for no connection and for no timer, also when an exception *)
(* has left setup() or run() half-way.  (That a stopped thread then        *)
(* returns is DestructorEnds.)                                             *)
JoinsStoppedThreads == phase = "joining" => \A i \in DOMAIN threads : i \in stopped

(* The destructor goes past the end of iocs_ only in a client for which    *)
(* setup() has not made it: n_instrument_ is then not initialised, or that *)
(* of a setup() that failed.  From then on the two agree.                  *)
DestructorDefined == phase = "undefined" => work = <<>>

(***************************************************************************)
(* The inductive invariant behind these: how far configuration, setup() and*)
(* run() have come, in each phase of the main thread, and why a thread may *)
(* have ended.                                                             *)
(***************************************************************************)
Loading == {"setup.ini", "subscription.ini", "constructed"}

SetUpAndRunning == {"ready", "connected", "starting", "running"}

NothingMade == managers = <<>> /\ work = <<>> /\ threads = <<>>

MadeForEach ==
  n_instrument_ = subscriptions /\ Len(managers) = subscriptions /\ Len(work) = subscriptions

ClientInv ==
  /\ ClientTypeOK
  /\ Len(threads) <= Len(work) /\ Len(work) <= subscriptions
  /\ work = <<>> \/ n_instrument_ = Len(work)
  /\ phase \in Loading => NothingMade
  /\ phase \in SetUpAndRunning => MadeForEach
  /\ phase \in {"ready", "connected"} => threads = <<>>
  /\ phase = "running" => Len(threads) = Len(work)
  /\ stopped # {} => phase \in {"joining", "destroyed", "terminated"}
  /\ \A i \in DOMAIN threads : threads[i] = "ended" => work[i] = 0 \/ i \in stopped
  /\ phase = "destroyed" => \A i \in DOMAIN threads : threads[i] = "ended"
  /\ phase = "undefined" => work = <<>>
  /\ \A k \in Kind, n \in Number : Configured(k, n) => replicas[k] = n
  /\ \A i \in DOMAIN managers : managers[i] = Connections

(* The destructor ends, whatever the threads are doing, unless an          *)
(* exception on one of them ends the program first.                        *)
DestructorEnds == phase = "joining" ~> phase \in {"destroyed", "terminated"}

(* With one subscription, what its thread has cached comes to its callback *)
(* as long as run() is not left, also when the connections have ended.     *)
RunDelivers ==
  \A n \in 1 .. MaxItems :
    subscriptions = 1 /\ Len(cached) >= n ~> Len(called) >= n \/ phase \notin {"starting", "running"}
=============================================================================
