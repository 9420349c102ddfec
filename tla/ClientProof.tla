---------------------------- MODULE ClientProof ----------------------------
(***************************************************************************)
(* Theorems about Client, for any configuration files, whatever memory     *)
(* that was not initialised holds, any number of subscriptions, replicas   *)
(* and messages, and a program that catches exceptions or does not.        *)
(***************************************************************************)
EXTENDS Client, ConsumerProof

(* A step of the client is one of its consumer, or leaves it alone, or is  *)
(* an enqueue that another thread may interfere with.                      *)
LEMMA ConsumerStep ==
  ASSUME [ClientNext]_clientVars
  PROVE  \/ [ConsumerNext]_consumerVars
         \/ Len(threads) > 1 /\ Interfere
<1> DEFINE Goal ==
      ConsumerNext \/ UNCHANGED consumerVars \/ (Len(threads) > 1 /\ Interfere)
<1> SUFFICES Goal
  OBVIOUS
<1>1. CASE UNCHANGED clientVars
  BY <1>1 DEF clientVars
<1>2. CASE Prepare
  BY <1>2 DEF Prepare, LoadConfig, Setup, SetUp, ContextsThrow, ManagerThrows
<1>3. CASE RunStep
  <2>1. ASSUME RunLoop
        PROVE  Handles
    BY <2>1 DEF RunLoop
  <2>2. ASSUME StartConsumer
        PROVE  ConsumerRun
    BY <2>2 DEF StartConsumer
  <2>3. ASSUME \/ RunAsserts \/ StartConnections \/ StartThread \/ StartThreadThrows
               \/ EnterLoop \/ TornMessageCrashes
        PROVE  UNCHANGED consumerVars
    BY <2>3 DEF RunAsserts, StartConnections, StartThread, StartThreadThrows, EnterLoop,
                TornMessageCrashes
  <2> QED
    BY <1>3, <2>1, <2>2, <2>3 DEF RunStep, ConsumerNext
<1>4. ASSUME NEW i \in Instrument, ThreadStep(i)
      PROVE  Goal
  <2>1. ASSUME ThreadEncaches(i)
        PROVE  Encache
    BY <2>1 DEF ThreadEncaches
  <2>2. ASSUME ThreadsRace(i)
        PROVE  Len(threads) > 1 /\ Interfere
    BY <2>2 DEF ThreadsRace
  <2>3. ASSUME ConnectionEnds(i) \/ ThreadThrows(i) \/ ThreadEnds(i)
        PROVE  UNCHANGED consumerVars
    BY <2>3 DEF ConnectionEnds, ThreadThrows, ThreadEnds
  <2> QED
    BY <1>4, <2>1, <2>2, <2>3 DEF ThreadStep, ConsumerNext
<1>5. CASE Destroy \/ DestroyUndefined \/ Joined
  BY <1>5 DEF Destroy, DestroyUndefined, Joined
<1> QED
  BY <1>1, <1>2, <1>3, <1>4, <1>5 DEF ClientNext

(* Whatever threads that interfere leave in the cache, the event loop is   *)
(* not theirs.                                                             *)
LEMMA InterferenceKeeps == ASSUME ConsumerInv, Interfere PROVE ConsumerInv'
<1>1. /\ UNCHANGED <<started, loop, thrown, called>>
      /\ fifo' \in Seq(Item) /\ Len(fifo') <= Limit
  <2>1. PICK n \in 0 .. Limit : fifo' \in [1 .. n -> Item]
    BY DEF Interfere
  <2>2. n \in Nat /\ n <= Limit
    BY <2>1, ConsumerAssumption
  <2> QED
    BY <2>1, <2>2 DEF Interfere
<1>2. cached' \in Seq(Item)
  <2>1. PICK m \in Item : cached' = Append(cached, m)
    BY DEF Interfere
  <2> QED
    BY <2>1 DEF ConsumerInv, ConsumerTypeOK
<1>3. OnePoll'
  <2>1. OnePoll
    BY DEF ConsumerInv
  <2> QED
    BY <1>1, <2>1 DEF OnePoll
<1> QED
  BY <1>1, <1>2, <1>3 DEF ConsumerInv, ConsumerTypeOK

(* So the consumer's own invariant holds, for any number of threads.       *)
LEMMA ConsumerInvHolds == ClientSpec => []ConsumerInv
<1>1. ClientInit => ConsumerInv
  BY ConsumerInvInit DEF ClientInit
<1>2. ConsumerInv /\ [ClientNext]_clientVars => ConsumerInv'
  BY ConsumerStep, ConsumerInvNext, InterferenceKeeps
<1> QED
  BY <1>1, <1>2, PTL DEF ClientSpec

(* Polling never stops or multiplies while threads come, fail and go, also *)
(* where several of them spoil the cache that is polled.                   *)
THEOREM ClientOnePoll == ClientSpec => []OnePoll
<1>1. ConsumerInv => OnePoll
  BY DEF ConsumerInv
<1> QED
  BY <1>1, ConsumerInvHolds, PTL

-----------------------------------------------------------------------------
(* Nothing is made yet.                                                    *)
LEMMA ClientInvInit == ClientInit /\ ConsumerTypeOK => ClientInv
<1> SUFFICES ASSUME ClientInit, ConsumerTypeOK PROVE ClientInv
  OBVIOUS
<1>1. /\ phase = "setup.ini" /\ replicas \in [Kind -> Uninitialised]
      /\ subscriptions = 0 /\ lines = <<>> /\ n_instrument_ \in Uninitialised
      /\ managers = <<>> /\ work = <<>> /\ threads = <<>> /\ stopped = {}
  BY DEF ClientInit, ConfigInit
<1>2. replicas \in [Kind -> Int] /\ n_instrument_ \in Int /\ MaxSubscriptions \in Nat
  BY <1>1, ConfigurationAssumption
<1>3. ClientTypeOK
  BY <1>1, <1>2 DEF ClientTypeOK, Phase
<1>4. /\ DOMAIN managers = {} /\ DOMAIN threads = {} /\ DOMAIN lines = {}
      /\ Len(threads) = 0 /\ Len(work) = 0
  BY <1>1
<1> QED
  BY <1>1, <1>2, <1>3, <1>4
  DEF ClientInv, Loading, SetUpAndRunning, NothingMade, Configured

(* A line more decides for its own kind, and for no other.                 *)
LEMMA LineDecides ==
  ASSUME lines \in Seq([kind : Kind, number : Number]),
         NEW k \in Kind, NEW n \in Number,
         lines' = Append(lines, [kind |-> k, number |-> n]),
         NEW j \in Kind, NEW m \in Number, Configured(j, m)'
  PROVE  IF j = k THEN m = n ELSE Configured(j, m)
<1>1. PICK i \in DOMAIN lines' :
        /\ lines'[i] = [kind |-> j, number |-> m]
        /\ \A l \in i + 1 .. Len(lines') : lines'[l].kind # j
  BY DEF Configured
<1>2. /\ DOMAIN lines' = 1 .. Len(lines) + 1 /\ Len(lines') = Len(lines) + 1
      /\ Len(lines) \in Nat /\ DOMAIN lines = 1 .. Len(lines)
      /\ lines'[Len(lines) + 1] = [kind |-> k, number |-> n]
      /\ \A l \in 1 .. Len(lines) : lines'[l] = lines[l]
  OBVIOUS
<1>3. CASE i = Len(lines) + 1
  BY <1>1, <1>2, <1>3
<1>4. CASE i # Len(lines) + 1
  <2>1. i \in DOMAIN lines /\ Len(lines) + 1 \in i + 1 .. Len(lines')
    BY <1>2, <1>4
  <2>2. j # k
    BY <1>1, <1>2, <2>1
  <2>3. Configured(j, m)
    BY <1>1, <1>2, <2>1 DEF Configured
  <2> QED
    BY <2>2, <2>3
<1> QED
  BY <1>3, <1>4

(* Reading the configuration keeps the invariant.                          *)
LEMMA LoadKeeps == ClientInv /\ ConsumerTypeOK' /\ LoadConfig => ClientInv'
<1> SUFFICES ASSUME ClientInv, ConsumerTypeOK', LoadConfig PROVE ClientInv'
  OBVIOUS
<1>t. /\ replicas \in [Kind -> Int]
      /\ subscriptions \in 0 .. MaxSubscriptions
      /\ lines \in Seq([kind : Kind, number : Number])
      /\ n_instrument_ \in Int
      /\ Number \subseteq Int /\ MaxSubscriptions \in Nat
  BY ConfigurationAssumption DEF ClientInv, ClientTypeOK
<1>u. UNCHANGED <<n_instrument_, managers, work, threads, stopped>>
  BY DEF LoadConfig, lifeVars
<1>p. phase \in Loading /\ phase' \in Loading \cup {"terminated"}
  BY DEF LoadConfig, ConfigNext, SetReplicas, LoadThrows, SetupEnds, Subscribe, Construct, Loading
<1>n. NothingMade /\ NothingMade'
  BY <1>p, <1>u DEF ClientInv, NothingMade
<1>s. stopped = {}
  BY <1>p DEF ClientInv, Loading
<1>1. /\ replicas' \in [Kind -> Int]
      /\ subscriptions' \in 0 .. MaxSubscriptions
      /\ lines' \in Seq([kind : Kind, number : Number])
      /\ \A k \in Kind, n \in Number : Configured(k, n)' => replicas'[k] = n
  <2>1. CASE SetReplicas
    <3>1. PICK k \in Kind, n \in Number :
            /\ replicas' = [replicas EXCEPT ![k] = n]
            /\ lines' = Append(lines, [kind |-> k, number |-> n])
      BY <2>1 DEF SetReplicas
    <3>2. [kind |-> k, number |-> n] \in [kind : Kind, number : Number] /\ n \in Int
      BY <1>t
    <3>3. lines' \in Seq([kind : Kind, number : Number])
      BY <1>t, <3>1, <3>2
    <3>4. ASSUME NEW j \in Kind, NEW m \in Number, Configured(j, m)'
          PROVE  replicas'[j] = m
      <4>1. IF j = k THEN m = n ELSE Configured(j, m)
        BY <1>t, <3>1, <3>4, LineDecides
      <4>2. Configured(j, m) => replicas[j] = m
        BY DEF ClientInv
      <4> QED
        BY <1>t, <3>1, <4>1, <4>2
    <3> QED
      BY <1>t, <2>1, <3>1, <3>2, <3>3, <3>4 DEF SetReplicas
  <2>2. CASE LoadThrows \/ SetupEnds \/ Subscribe \/ Construct
    <3>1. UNCHANGED <<replicas, lines>> /\ subscriptions' \in 0 .. MaxSubscriptions
      BY <1>t, <2>2 DEF LoadThrows, SetupEnds, Subscribe, Construct
    <3>2. \A k, n : Configured(k, n)' <=> Configured(k, n)
      BY <3>1 DEF Configured
    <3> QED
      BY <1>t, <3>1, <3>2 DEF ClientInv
  <2> QED
    BY <2>1, <2>2 DEF LoadConfig, ConfigNext
<1>2. ClientTypeOK'
  <2>1. <<>> \in Seq([Kind -> Nat]) /\ <<>> \in Seq(Nat) /\ <<>> \in Seq({"running", "ended"})
    OBVIOUS
  <2> QED
    BY <1>1, <1>n, <1>p, <1>s, <1>t, <1>u, <2>1 DEF ClientTypeOK, NothingMade, Loading, Phase
<1>3. /\ DOMAIN managers' = {} /\ DOMAIN threads' = {} /\ Len(threads') = 0 /\ Len(work') = 0
  BY <1>n DEF NothingMade
<1> QED
  BY <1>1, <1>2, <1>3, <1>n, <1>p, <1>s, <1>t, <1>u
  DEF ClientInv, Loading, SetUpAndRunning, NothingMade

(* What has been read stays what it is, once there is a client.            *)
LEMMA ConfigurationStays ==
  ASSUME ClientInv, UNCHANGED <<replicas, subscriptions, lines>>
  PROVE  /\ replicas' \in [Kind -> Int]
         /\ subscriptions' \in 0 .. MaxSubscriptions
         /\ lines' \in Seq([kind : Kind, number : Number])
         /\ \A k \in Kind, n \in Number : Configured(k, n)' => replicas'[k] = n
         /\ Connections' = Connections
         /\ Connections \in [Kind -> Nat]
<1>1. replicas \in [Kind -> Int]
  BY DEF ClientInv, ClientTypeOK
<1>2. \A k, n : Configured(k, n)' <=> Configured(k, n)
  BY DEF Configured
<1>3. Connections' = Connections /\ Connections \in [Kind -> Nat]
  BY <1>1 DEF Connections
<1> QED
  BY <1>1, <1>2, <1>3 DEF ClientInv, ClientTypeOK

(* As many io_contexts as there are subscriptions, and managers of the     *)
(* replicas read.                                                          *)
LEMMA MadeSequences ==
  ASSUME NEW n \in Nat, NEW c \in [Kind -> Nat]
  PROVE  /\ [i \in 1 .. n |-> 0] \in Seq(Nat) /\ Len([i \in 1 .. n |-> 0]) = n
         /\ [i \in 1 .. n |-> c] \in Seq([Kind -> Nat]) /\ Len([i \in 1 .. n |-> c]) = n
OBVIOUS

(* setup() keeps the invariant, wherever an exception leaves it.           *)
LEMMA SetupKeeps ==
  ClientInv /\ ConsumerTypeOK' /\ (Setup \/ ContextsThrow \/ ManagerThrows) => ClientInv'
<1> SUFFICES ASSUME ClientInv, ConsumerTypeOK', Setup \/ ContextsThrow \/ ManagerThrows
             PROVE  ClientInv'
  OBVIOUS
<1>t. /\ subscriptions \in 0 .. MaxSubscriptions /\ MaxSubscriptions \in Nat
      /\ subscriptions \in Nat /\ subscriptions \in Int
  BY ConfigurationAssumption DEF ClientInv, ClientTypeOK
<1>u. /\ phase = "constructed" /\ n_instrument_' = subscriptions
      /\ UNCHANGED <<replicas, subscriptions, lines, threads, stopped>>
  BY DEF Setup, ContextsThrow, ManagerThrows, SetUp, Goto
<1>n. managers = <<>> /\ work = <<>> /\ threads = <<>> /\ stopped = {}
  BY <1>u DEF ClientInv, NothingMade, Loading
<1>c. /\ replicas' \in [Kind -> Int]
      /\ subscriptions' \in 0 .. MaxSubscriptions
      /\ lines' \in Seq([kind : Kind, number : Number])
      /\ \A k \in Kind, n \in Number : Configured(k, n)' => replicas'[k] = n
      /\ Connections' = Connections
      /\ Connections \in [Kind -> Nat]
  BY <1>u, ConfigurationStays
<1>x. AfterException \in {"left", "terminated"}
  BY DEF AfterException
(* n managers have been made for the subscriptions' io_contexts.           *)
<1>1. ASSUME NEW n \in Nat, SetUp(n), phase' \in {"ready", "left", "terminated"},
             phase' = "ready" => n = subscriptions
      PROVE  ClientInv'
  <2>1. /\ work' = [i \in 1 .. subscriptions |-> 0] /\ managers' = [i \in 1 .. n |-> Connections]
        /\ threads' = <<>> /\ stopped' = {}
    BY <1>1, <1>n DEF SetUp
  <2>2. /\ work' \in Seq(Nat) /\ Len(work') = subscriptions
        /\ managers' \in Seq([Kind -> Nat]) /\ Len(managers') = n
    BY <1>1, <1>c, <1>t, <2>1, MadeSequences
  <2>3. threads' \in Seq({"running", "ended"}) /\ Len(threads') = 0 /\ DOMAIN threads' = {}
    BY <2>1
  <2>4. ClientTypeOK'
    BY <1>1, <1>c, <1>t, <1>u, <2>1, <2>2, <2>3 DEF ClientTypeOK, Phase
  <2>5. \A i \in DOMAIN managers' : managers'[i] = Connections'
    BY <1>c, <2>1
  <2> QED
    BY <1>1, <1>c, <1>t, <1>u, <2>1, <2>2, <2>3, <2>4, <2>5
    DEF ClientInv, Loading, SetUpAndRunning, MadeForEach
<1>2. CASE Setup
  BY <1>1, <1>2, <1>t DEF Setup, Goto
<1>3. CASE ManagerThrows
  <2>1. PICK n \in 0 .. subscriptions - 1 : SetUp(n)
    BY <1>3 DEF ManagerThrows
  <2>2. n \in Nat /\ phase' = AfterException
    BY <1>3, <1>t, <2>1 DEF ManagerThrows, Goto
  <2> QED
    BY <1>1, <1>x, <2>1, <2>2
<1>4. CASE ContextsThrow
  <2>1. /\ phase' = AfterException /\ managers' = <<>> /\ work' = <<>> /\ threads' = <<>>
        /\ stopped' = {}
    BY <1>4, <1>n DEF ContextsThrow, Goto
  <2>2. <<>> \in Seq([Kind -> Nat]) /\ <<>> \in Seq(Nat) /\ <<>> \in Seq({"running", "ended"})
    OBVIOUS
  <2>3. ClientTypeOK'
    BY <1>c, <1>t, <1>u, <1>x, <2>1, <2>2 DEF ClientTypeOK, Phase
  <2>4. /\ DOMAIN managers' = {} /\ DOMAIN threads' = {} /\ Len(threads') = 0 /\ Len(work') = 0
    BY <2>1
  <2> QED
    BY <1>c, <1>t, <1>x, <2>1, <2>3, <2>4 DEF ClientInv, Loading, SetUpAndRunning
<1> QED
  BY <1>2, <1>3, <1>4

(* The main thread goes on to p, with nothing else changed but perhaps the *)
(* consumer.                                                               *)
LEMMA MainMoves ==
  ASSUME ClientInv, ConsumerTypeOK', NEW p \in Phase, Goto(p), UNCHANGED lifeVars,
         p \in Loading => NothingMade,
         p \in SetUpAndRunning => MadeForEach,
         p \in {"ready", "connected"} => threads = <<>>,
         p = "running" => Len(threads) = Len(work),
         stopped # {} => p \in {"joining", "destroyed", "terminated"},
         p = "destroyed" => \A i \in DOMAIN threads : threads[i] = "ended",
         p = "undefined" => work = <<>>
  PROVE  ClientInv'
<1>1. phase' = p /\ UNCHANGED <<replicas, subscriptions, lines>>
  BY DEF Goto
<1>2. UNCHANGED <<n_instrument_, managers, work, threads, stopped>>
  BY DEF lifeVars
<1>3. /\ replicas' \in [Kind -> Int]
      /\ subscriptions' \in 0 .. MaxSubscriptions
      /\ lines' \in Seq([kind : Kind, number : Number])
      /\ \A k \in Kind, n \in Number : Configured(k, n)' => replicas'[k] = n
      /\ Connections' = Connections
  BY <1>1, ConfigurationStays
<1>4. ClientTypeOK'
  BY <1>1, <1>2, <1>3 DEF ClientInv, ClientTypeOK
<1>5. (NothingMade' <=> NothingMade) /\ (MadeForEach' <=> MadeForEach)
  BY <1>1, <1>2 DEF NothingMade, MadeForEach
<1> QED
  BY <1>1, <1>2, <1>3, <1>4, <1>5 DEF ClientInv

(* Connections, or a thread, or their work, change while phase stays.      *)
LEMMA WorkChanges ==
  ASSUME ClientInv, ConsumerTypeOK', UNCHANGED <<replicas, subscriptions, lines>>,
         UNCHANGED <<n_instrument_, managers>>,
         phase' \in Phase \ Loading, phase' # "undefined",
         phase' \in SetUpAndRunning => MadeForEach,
         work' \in Seq(Nat), Len(work') = Len(work),
         threads' \in Seq({"running", "ended"}), Len(threads') <= Len(work),
         stopped' \subseteq Instrument,
         phase' \in {"ready", "connected"} => threads' = <<>>,
         phase' = "running" => Len(threads') = Len(work),
         stopped' # {} => phase' \in {"joining", "destroyed", "terminated"},
         \A i \in DOMAIN threads' : threads'[i] = "ended" => work'[i] = 0 \/ i \in stopped',
         phase' = "destroyed" => \A i \in DOMAIN threads' : threads'[i] = "ended"
  PROVE  ClientInv'
<1>1. /\ replicas' \in [Kind -> Int]
      /\ subscriptions' \in 0 .. MaxSubscriptions
      /\ lines' \in Seq([kind : Kind, number : Number])
      /\ \A k \in Kind, n \in Number : Configured(k, n)' => replicas'[k] = n
      /\ Connections' = Connections
  BY ConfigurationStays
<1>2. ClientTypeOK'
  BY <1>1 DEF ClientInv, ClientTypeOK
<1>3. phase' \in SetUpAndRunning => MadeForEach'
  BY DEF MadeForEach
<1>4. work = <<>> => work' = <<>>
  <2>1. work \in Seq(Nat)
    BY DEF ClientInv, ClientTypeOK
  <2>2. ASSUME work = <<>> PROVE work' = <<>>
    <3>1. Len(work') = 0
      BY <2>2
    <3> QED
      BY <3>1
  <2> QED
    BY <2>2
<1>5. work' = <<>> \/ n_instrument_' = Len(work')
  BY <1>4 DEF ClientInv
<1> QED
  BY <1>1, <1>2, <1>3, <1>5 DEF ClientInv

(* run() keeps the invariant, from its assertion to what its loop handles. *)
LEMMA RunKeeps == ClientInv /\ ConsumerTypeOK' /\ RunStep => ClientInv'
<1> SUFFICES ASSUME ClientInv, ConsumerTypeOK', RunStep PROVE ClientInv'
  OBVIOUS
<1>t. /\ work \in Seq(Nat) /\ threads \in Seq({"running", "ended"}) /\ stopped \subseteq Instrument
      /\ managers \in Seq([Kind -> Nat]) /\ phase \in Phase /\ subscriptions \in Nat
  BY ConfigurationAssumption DEF ClientInv, ClientTypeOK
<1>x. AfterException \in {"left", "terminated"}
  BY DEF AfterException
<1>m. phase \in SetUpAndRunning => MadeForEach /\ stopped = {}
  BY DEF ClientInv, SetUpAndRunning
<1>1. CASE RunAsserts
  <2>1. stopped = {} /\ Goto("terminated") /\ UNCHANGED lifeVars
    BY <1>1, <1>m DEF RunAsserts, SetUpAndRunning
  <2> QED
    BY <2>1, MainMoves DEF Phase, Loading, SetUpAndRunning
<1>2. CASE StartConnections
  <2>1. /\ phase = "ready" /\ phase' = "connected"
        /\ work' = [i \in DOMAIN work |-> managers[i].restapi + managers[i].websocket]
        /\ UNCHANGED <<replicas, subscriptions, lines, n_instrument_, managers, threads, stopped>>
    BY <1>2 DEF StartConnections, Goto
  <2>2. MadeForEach /\ stopped = {} /\ threads = <<>>
    BY <1>m, <2>1 DEF ClientInv, SetUpAndRunning
  <2>3. DOMAIN work = 1 .. Len(work) /\ DOMAIN managers = 1 .. Len(managers) /\ Len(work) \in Nat
    BY <1>t
  <2>4. \A i \in DOMAIN work : managers[i].restapi + managers[i].websocket \in Nat
    <3>1. \A i \in DOMAIN work : managers[i] \in [Kind -> Nat]
      BY <1>t, <2>2, <2>3 DEF MadeForEach
    <3> QED
      BY <3>1 DEF Kind
  <2>5. work' \in Seq(Nat) /\ Len(work') = Len(work)
    BY <2>1, <2>3, <2>4
  <2>6. threads' = <<>> /\ DOMAIN threads' = {} /\ Len(threads') <= Len(work)
        /\ threads' \in Seq({"running", "ended"}) /\ stopped' = {}
    BY <1>t, <2>1, <2>2, <2>3
  <2> QED
    BY <2>1, <2>2, <2>5, <2>6, WorkChanges DEF Phase, Loading, SetUpAndRunning
<1>3. CASE StartConsumer \/ EnterLoop
  <2>1. /\ phase \in {"connected", "starting"} /\ UNCHANGED lifeVars
        /\ \/ Goto("starting")
           \/ Goto("running") /\ phase = "starting" /\ Len(threads) >= n_instrument_
    BY <1>3 DEF StartConsumer, EnterLoop
  <2>2. MadeForEach /\ stopped = {} /\ Len(threads) <= Len(work)
    BY <1>m, <2>1 DEF ClientInv, SetUpAndRunning
  <2>3. CASE Goto("starting")
    BY <2>1, <2>2, <2>3, MainMoves DEF Phase, Loading, SetUpAndRunning
  <2>4. CASE Goto("running") /\ Len(threads) >= n_instrument_
    <3>1. Len(threads) = Len(work)
      BY <1>t, <2>2, <2>4 DEF MadeForEach
    <3> QED
      BY <2>1, <2>2, <2>4, <3>1, MainMoves DEF Phase, Loading, SetUpAndRunning
  <2> QED
    BY <2>1, <2>3, <2>4
<1>4. CASE StartThread
  <2>1. /\ phase = "starting" /\ Len(threads) < n_instrument_
        /\ threads' = Append(threads, "running")
        /\ UNCHANGED <<phase, replicas, subscriptions, lines, n_instrument_, managers, work, stopped>>
    BY <1>4 DEF StartThread, configVars
  <2>2. MadeForEach /\ stopped = {}
    BY <1>m, <2>1 DEF SetUpAndRunning
  <2>3. /\ threads' \in Seq({"running", "ended"}) /\ Len(threads') = Len(threads) + 1
        /\ \A i \in DOMAIN threads' : threads'[i] = "running" \/ (i \in DOMAIN threads /\ threads'[i] = threads[i])
    <3>1. /\ Append(threads, "running") \in Seq({"running", "ended"})
          /\ Len(Append(threads, "running")) = Len(threads) + 1
          /\ Append(threads, "running")[Len(threads) + 1] = "running"
          /\ \A i \in 1 .. Len(threads) : Append(threads, "running")[i] = threads[i]
      BY <1>t, AppendProperties
    <3>2. DOMAIN threads = 1 .. Len(threads) /\ Len(threads) \in Nat
          /\ DOMAIN threads' = 1 .. Len(threads')
      BY <1>t, <2>1, <3>1
    <3>3. /\ threads' \in Seq({"running", "ended"}) /\ Len(threads') = Len(threads) + 1
          /\ threads'[Len(threads) + 1] = "running"
          /\ \A i \in 1 .. Len(threads) : threads'[i] = threads[i]
      BY <2>1, <3>1
    <3>4. \A i \in 1 .. Len(threads) + 1 : i = Len(threads) + 1 \/ i \in 1 .. Len(threads)
      BY <3>2
    <3>5. DOMAIN threads' = 1 .. Len(threads) + 1
      BY <3>2, <3>3
    <3> QED
      BY <3>2, <3>3, <3>4, <3>5
  <2>4. Len(threads') <= Len(work)
    BY <1>t, <2>1, <2>2, <2>3 DEF MadeForEach
  <2>5. \A i \in DOMAIN threads' : threads'[i] = "ended" => work'[i] = 0 \/ i \in stopped'
    BY <2>1, <2>3 DEF ClientInv
  <2> QED
    BY <1>t, <2>1, <2>2, <2>3, <2>4, <2>5, WorkChanges DEF Phase, Loading, SetUpAndRunning
<1>5. CASE StartThreadThrows
  <2>1. phase = "starting" /\ Goto(AfterException) /\ UNCHANGED lifeVars
    BY <1>5 DEF StartThreadThrows
  <2>2. stopped = {}
    BY <1>m, <2>1 DEF SetUpAndRunning
  <2> QED
    BY <1>x, <2>1, <2>2, MainMoves DEF Phase, Loading, SetUpAndRunning
<1>6. CASE RunLoop
  <2>1. /\ phase = "running" /\ UNCHANGED lifeVars
        /\ Goto("running") \/ Goto(AfterException)
    BY <1>6 DEF RunLoop, Goto
  <2>2. MadeForEach /\ stopped = {} /\ Len(threads) = Len(work)
    BY <1>m, <2>1 DEF ClientInv, SetUpAndRunning
  <2> QED
    BY <1>x, <2>1, <2>2, MainMoves DEF Phase, Loading, SetUpAndRunning
<1>7. CASE TornMessageCrashes
  <2>1. stopped = {} /\ Goto("terminated") /\ UNCHANGED lifeVars
    BY <1>7, <1>m DEF TornMessageCrashes, SetUpAndRunning
  <2> QED
    BY <2>1, MainMoves DEF Phase, Loading, SetUpAndRunning
<1> QED
  BY <1>1, <1>2, <1>3, <1>4, <1>5, <1>6, <1>7 DEF RunStep

(* A thread keeps it, whatever its connections and the destructor do: it   *)
(* ends only when its io_context has no work, or is stopped for good.      *)
LEMMA ThreadKeeps ==
  ASSUME NEW i \in Instrument, ThreadStep(i), ClientInv, ConsumerTypeOK',
         phase \notin {"terminated", "undefined"}
  PROVE  ClientInv'
<1>t. /\ work \in Seq(Nat) /\ threads \in Seq({"running", "ended"}) /\ stopped \subseteq Instrument
      /\ Len(threads) <= Len(work) /\ phase \in Phase
  BY DEF ClientInv, ClientTypeOK
<1>1. CASE ThreadEncaches(i) \/ ThreadsRace(i)
  <2>1. UNCHANGED lifeVars /\ Goto(phase)
    BY <1>1 DEF ThreadEncaches, ThreadsRace, configVars, Goto
  <2> QED
    BY <1>t, <2>1, MainMoves DEF ClientInv
<1>2. CASE ThreadThrows(i)
  <2>1. UNCHANGED lifeVars /\ Goto("terminated")
    BY <1>2 DEF ThreadThrows
  <2> QED
    BY <2>1, MainMoves DEF Phase, Loading, SetUpAndRunning
<1>3. CASE ConnectionEnds(i) \/ ThreadEnds(i)
  <2>1. /\ i \in DOMAIN threads /\ threads[i] = "running" /\ phase' = phase
        /\ UNCHANGED <<replicas, subscriptions, lines, n_instrument_, managers, stopped>>
    BY <1>3 DEF ConnectionEnds, ThreadEnds, Serves, configVars
  <2>2. i \in DOMAIN work /\ threads # <<>>
    BY <1>t, <2>1
  <2>3. /\ phase \notin Loading
        /\ phase \in SetUpAndRunning => MadeForEach
        /\ phase \notin {"ready", "connected"}
        /\ phase # "destroyed"
    BY <2>1, <2>2 DEF ClientInv, NothingMade
  <2>4. /\ \A j \in DOMAIN threads : threads[j] = "ended" => work[j] = 0 \/ j \in stopped
        /\ phase = "running" => Len(threads) = Len(work)
        /\ stopped # {} => phase \in {"joining", "destroyed", "terminated"}
    BY DEF ClientInv
  <2>5. CASE ConnectionEnds(i)
    <3>1. work[i] > 0 /\ work' = [work EXCEPT ![i] = @ - 1] /\ UNCHANGED threads
      BY <2>5 DEF ConnectionEnds, Serves
    <3>2. /\ work' \in Seq(Nat) /\ Len(work') = Len(work)
          /\ \A j \in DOMAIN work : j # i => work'[j] = work[j]
      BY <1>t, <2>2, <3>1
    <3>3. \A j \in DOMAIN threads' : threads'[j] = "ended" => work'[j] = 0 \/ j \in stopped'
      <4>1. DOMAIN threads \subseteq DOMAIN work
        BY <1>t
      <4> QED
        BY <2>1, <2>4, <3>1, <3>2, <4>1
    <3> QED
      BY <1>t, <2>1, <2>3, <2>4, <3>1, <3>2, <3>3, WorkChanges
  <2>6. CASE ThreadEnds(i)
    <3>1. /\ work[i] = 0 \/ i \in stopped
          /\ threads' = [threads EXCEPT ![i] = "ended"] /\ UNCHANGED work
      BY <2>6 DEF ThreadEnds
    <3>2. /\ threads' \in Seq({"running", "ended"}) /\ Len(threads') = Len(threads)
          /\ DOMAIN threads' = DOMAIN threads
          /\ \A j \in DOMAIN threads : j # i => threads'[j] = threads[j]
      BY <1>t, <2>1, <3>1
    <3>3. \A j \in DOMAIN threads' : threads'[j] = "ended" => work'[j] = 0 \/ j \in stopped'
      BY <2>1, <2>4, <3>1, <3>2
    <3> QED
      BY <1>t, <2>1, <2>3, <2>4, <3>1, <3>2, <3>3, WorkChanges
  <2> QED
    BY <1>3, <2>5, <2>6
<1> QED
  BY <1>1, <1>2, <1>3 DEF ThreadStep

(* The destructor stops the io_contexts that there are, or runs past them  *)
(* when there are none; it returns when all threads have ended.            *)
LEMMA DestroyKeeps ==
  ClientInv /\ ConsumerTypeOK' /\ (Destroy \/ DestroyUndefined \/ Joined) => ClientInv'
<1> SUFFICES ASSUME ClientInv, ConsumerTypeOK', Destroy \/ DestroyUndefined \/ Joined
             PROVE  ClientInv'
  OBVIOUS
<1>t. /\ work \in Seq(Nat) /\ threads \in Seq({"running", "ended"}) /\ n_instrument_ \in Int
      /\ Len(threads) <= Len(work) /\ Len(work) <= subscriptions
      /\ subscriptions \in 0 .. MaxSubscriptions /\ MaxSubscriptions \in Nat
      /\ work = <<>> \/ n_instrument_ = Len(work)
      /\ \A i \in DOMAIN threads : threads[i] = "ended" => work[i] = 0 \/ i \in stopped
  BY ConfigurationAssumption DEF ClientInv, ClientTypeOK
<1>1. CASE Destroy
  <2>1. /\ n_instrument_ <= Len(work) /\ stopped' = 1 .. n_instrument_ /\ phase' = "joining"
        /\ phase \in {"constructed", "ready", "left"}
        /\ UNCHANGED <<replicas, subscriptions, lines, n_instrument_, managers, work, threads>>
    BY <1>1 DEF Destroy, Goto, MayDestroy
  <2>2. Len(work) \in Nat /\ stopped' \subseteq Instrument
    BY <1>t, <2>1 DEF Instrument
  <2>3. stopped = {}
    BY <2>1 DEF ClientInv
  <2>4. \A i \in DOMAIN threads' : threads'[i] = "ended" => work'[i] = 0 \/ i \in stopped'
    BY <1>t, <2>1, <2>3
  <2> QED
    BY <1>t, <2>1, <2>2, <2>4, WorkChanges DEF Phase, Loading, SetUpAndRunning
<1>2. CASE DestroyUndefined
  <2>1. /\ n_instrument_ > Len(work) /\ Goto("undefined") /\ UNCHANGED lifeVars
        /\ phase \in {"constructed", "ready", "left"}
    BY <1>2 DEF DestroyUndefined, MayDestroy
  <2>2. work = <<>>
    BY <1>t, <2>1
  <2>3. stopped = {}
    BY <2>1 DEF ClientInv
  <2> QED
    BY <2>1, <2>2, <2>3, MainMoves DEF Phase, Loading, SetUpAndRunning
<1>3. CASE Joined
  <2>1. /\ Goto("destroyed") /\ UNCHANGED lifeVars
        /\ \A i \in DOMAIN threads : threads[i] = "ended"
    BY <1>3 DEF Joined
  <2> QED
    BY <2>1, MainMoves DEF Phase, Loading, SetUpAndRunning
<1> QED
  BY <1>1, <1>2, <1>3

-----------------------------------------------------------------------------
(* Every step of the main thread and of the instruments' threads keeps the *)
(* invariant.                                                              *)
LEMMA ClientInvNext ==
  ClientInv /\ ConsumerTypeOK' /\ [ClientNext]_clientVars => ClientInv'
<1> SUFFICES ASSUME ClientInv, ConsumerTypeOK', [ClientNext]_clientVars PROVE ClientInv'
  OBVIOUS
<1>1. CASE UNCHANGED clientVars
  <2>1. Goto(phase) /\ UNCHANGED lifeVars /\ phase \in Phase
    BY <1>1 DEF clientVars, configVars, Goto, ClientInv, ClientTypeOK
  <2> QED
    BY <2>1, MainMoves DEF ClientInv
<1>2. CASE ClientNext
  BY <1>2, LoadKeeps, SetupKeeps, RunKeeps, ThreadKeeps, DestroyKeeps DEF ClientNext, Prepare
<1> QED
  BY <1>1, <1>2

(* In every phase of the main thread, what setup() and run() have made so  *)
(* far is there, and nothing else; and a thread has ended only for want of *)
(* work or because it was stopped.                                         *)
THEOREM ClientInvariant == ClientSpec => []ClientInv
<1>1. ConsumerInv => ConsumerTypeOK
  BY DEF ConsumerInv
<1> QED
  BY <1>1, ConsumerInvHolds, ClientInvInit, ClientInvNext, PTL DEF ClientSpec

(* Each subscription gets the connections that setup.ini asks for.         *)
THEOREM CreatedAsConfiguredHolds == ClientSpec => []CreatedAsConfigured
<1>1. ClientInv => CreatedAsConfigured
  <2> SUFFICES ASSUME ClientInv PROVE CreatedAsConfigured
    OBVIOUS
  <2>1. phase \in SetUpAndRunning => MadeForEach
    BY DEF ClientInv
  <2>2. ASSUME NEW i \in DOMAIN managers, NEW k \in Kind, NEW n \in Number, Configured(k, n)
        PROVE  managers[i][k] = IF n < 0 THEN 0 ELSE n
    <3>1. replicas[k] = n /\ n \in Int
      BY <2>2, ConfigurationAssumption DEF ClientInv
    <3>2. managers[i][k] = IF n > 0 THEN n ELSE 0
      BY <2>2, <3>1 DEF ClientInv, Connections
    <3> QED
      BY <3>1, <3>2
  <2> QED
    BY <2>1, <2>2 DEF CreatedAsConfigured, MadeForEach, SetUpAndRunning
<1> QED
  BY <1>1, ClientInvariant, PTL

(* No connection that has work waits for an io_context that nobody runs.   *)
THEOREM ServedWhileLiveHolds == ClientSpec => []ServedWhileLive
<1>1. ClientInv => ServedWhileLive
  <2> SUFFICES ASSUME ClientInv, phase = "running", NEW i \in DOMAIN work, work[i] > 0
               PROVE  Serves(i)
    BY DEF ServedWhileLive
  <2>1. Len(threads) = Len(work) /\ stopped = {} /\ work \in Seq(Nat)
        /\ threads \in Seq({"running", "ended"})
    BY DEF ClientInv, ClientTypeOK
  <2>2. i \in DOMAIN threads /\ threads[i] \in {"running", "ended"} /\ work[i] # 0
    BY <2>1
  <2>3. threads[i] # "ended"
    BY <2>1, <2>2 DEF ClientInv
  <2> QED
    BY <2>2, <2>3 DEF Serves
<1> QED
  BY <1>1, ClientInvariant, PTL

(* The destructor is undefined only when setup() has made no io_context.   *)
THEOREM DestructorDefinedHolds == ClientSpec => []DestructorDefined
<1>1. ClientInv => DestructorDefined
  BY DEF ClientInv, DestructorDefined
<1> QED
  BY <1>1, ClientInvariant, PTL

-----------------------------------------------------------------------------
(* Every step keeps the threads that are joined among the stopped ones.    *)
LEMMA JoinsNext ==
  ClientInv /\ JoinsStoppedThreads /\ [ClientNext]_clientVars => JoinsStoppedThreads'
<1> SUFFICES ASSUME ClientInv, JoinsStoppedThreads, [ClientNext]_clientVars, phase' = "joining"
             PROVE  \A i \in DOMAIN threads' : i \in stopped'
  BY DEF JoinsStoppedThreads
<1>t. /\ threads \in Seq({"running", "ended"}) /\ work \in Seq(Nat)
      /\ Len(threads) <= Len(work)
      /\ work = <<>> \/ n_instrument_ = Len(work)
  BY DEF ClientInv, ClientTypeOK
<1>1. CASE Destroy
  <2>1. n_instrument_ <= Len(work) /\ threads' = threads /\ stopped' = 1 .. n_instrument_
    BY <1>1 DEF Destroy
  <2>2. CASE work = <<>>
    <3>1. Len(threads) = 0
      BY <1>t, <2>2
    <3>2. DOMAIN threads = {}
      BY <1>t, <3>1
    <3> QED
      BY <2>1, <3>2
  <2>3. CASE n_instrument_ = Len(work)
    <3>1. DOMAIN threads = 1 .. Len(threads) /\ Len(threads) \in Nat /\ Len(work) \in Nat
      BY <1>t
    <3> QED
      BY <1>t, <2>1, <2>3, <3>1
  <2> QED
    BY <1>t, <2>2, <2>3
<1>2. ASSUME UNCHANGED <<stopped, phase>>, DOMAIN threads' = DOMAIN threads
      PROVE  \A i \in DOMAIN threads' : i \in stopped'
  BY <1>2 DEF JoinsStoppedThreads
<1>3. CASE UNCHANGED clientVars
  BY <1>2, <1>3 DEF clientVars, configVars, lifeVars
<1>4. ASSUME NEW i \in Instrument, ThreadStep(i)
      PROVE  \A j \in DOMAIN threads' : j \in stopped'
  <2>1. DOMAIN threads' = DOMAIN threads /\ stopped' = stopped
    BY <1>4, <1>t
    DEF ThreadStep, ThreadEncaches, ThreadsRace, ConnectionEnds, ThreadThrows, ThreadEnds, lifeVars
  <2>2. phase' = phase
    BY <1>4
    DEF ThreadStep, ThreadEncaches, ThreadsRace, ConnectionEnds, ThreadThrows, ThreadEnds,
        configVars, Goto
  <2> QED
    BY <1>2, <2>1, <2>2
<1>5. CASE Prepare \/ RunStep \/ DestroyUndefined \/ Joined
  BY <1>5
  DEF Prepare, LoadConfig, ConfigNext, SetReplicas, LoadThrows, SetupEnds, Subscribe, Construct,
      Setup, ContextsThrow, ManagerThrows, RunStep, RunAsserts, StartConnections, StartConsumer,
      StartThread, StartThreadThrows, EnterLoop, RunLoop, TornMessageCrashes, DestroyUndefined,
      Joined, Goto,
      AfterException, configVars
<1> QED
  BY <1>1, <1>3, <1>4, <1>5 DEF ClientNext

(* The destructor joins only threads whose io_context it has stopped, also *)
(* when an exception left setup() or run() half-way.                       *)
THEOREM JoinsStoppedThreadsHolds == ClientSpec => []JoinsStoppedThreads
<1>1. ClientInit => JoinsStoppedThreads
  BY DEF ClientInit, ConfigInit, JoinsStoppedThreads
<1> QED
  BY <1>1, JoinsNext, ClientInvariant, PTL DEF ClientSpec

-----------------------------------------------------------------------------
(* With at most one subscription there is at most one thread, and no other *)
(* to interfere with it.                                                   *)
LEMMA OneThread ==
  ASSUME ClientInv, subscriptions <= 1, [ClientNext]_clientVars
  PROVE  [ConsumerNext]_consumerVars
<1>1. /\ Len(threads) <= Len(work) /\ Len(work) <= subscriptions
      /\ threads \in Seq({"running", "ended"}) /\ work \in Seq(Nat)
      /\ subscriptions \in Nat
  BY ConfigurationAssumption DEF ClientInv, ClientTypeOK
<1>2. Len(threads) \in Nat /\ Len(work) \in Nat
  BY <1>1
<1> QED
  BY <1>1, <1>2, ConsumerStep

(* So of one subscription the client uses its consumer as Consumer has it. *)
LEMMA UsesConsumer == ClientSpec /\ [](subscriptions <= 1) => ConsumerSpec
<1>1. ClientInit => ConsumerInit
  BY DEF ClientInit
<1> QED
  BY <1>1, OneThread, ClientInvariant, PTL DEF ClientSpec, ConsumerSpec

(* Of one subscription, each message that the instrument's thread caches   *)
(* is passed to its callback once and in order, on the main thread, while  *)
(* connections end, and the destructor joins.                              *)
THEOREM ClientCallbacksFollowCache ==
  ClientSpec /\ [](subscriptions <= 1) => []CallbacksFollowCache
BY UsesConsumer, CallbacksFollowCacheHolds, PTL

(* Of one subscription, from the thread's encache to the callbacks the     *)
(* client is a bounded FIFO.                                               *)
THEOREM ClientImplementsDelivery ==
  ClientSpec /\ [](subscriptions <= 1) => Delivery!FifoSafeSpec
BY UsesConsumer, ImplementsDeliverySafely, PTL
=============================================================================
