---------------------------- MODULE ConsumerProof ----------------------------
(***************************************************************************)
(* Theorems about Consumer, for every capacity of the cache, any set of    *)
(* bound callbacks, throwing or not, and any number of messages.           *)
(***************************************************************************)
EXTENDS Consumer, NaturalLemmas, SequenceTheorems

(* The event loop's shape decides which handler runs next.                 *)
ConsumerInv == ConsumerTypeOK /\ OnePoll

(* The handlers that OnePoll allows are those of a well-typed loop.        *)
LEMMA LoopTyped ==
  ASSUME NEW l, l = <<>> \/ l = <<Poll>> \/ \E m \in Item : l = <<OnData(m), Poll>>
  PROVE  l \in Seq({Poll} \cup {OnData(m) : m \in Item})
<1> DEFINE H == {Poll} \cup {OnData(m) : m \in Item}
<1>1. Poll \in H /\ \A m \in Item : OnData(m) \in H
  OBVIOUS
<1>2. <<>> \in Seq(H) /\ \A h \in H : <<h, Poll>> \in Seq(H) /\ <<h>> \in Seq(H)
  <2> HIDE DEF H
  <2> QED
    BY <1>1
<1> QED
  BY <1>1, <1>2

(* A new consumer has posted nothing.                                      *)
LEMMA ConsumerInvInit == ConsumerInit => ConsumerInv
<1> SUFFICES ASSUME ConsumerInit PROVE ConsumerInv
  OBVIOUS
<1>1. OnePoll /\ loop \in Seq({Poll} \cup {OnData(m) : m \in Item})
  BY LoopTyped DEF ConsumerInit, OnePoll
<1>2. fifo = <<>> /\ cached = <<>> /\ called = <<>> /\ thrown = FALSE /\ started = FALSE
  BY DEF ConsumerInit, FifoInit
<1>3. fifo \in Seq(Item) /\ Len(fifo) <= Limit
  BY <1>2, ConsumerAssumption
<1> QED
  BY <1>1, <1>2, <1>3 DEF ConsumerInv, ConsumerTypeOK

(* A poll runs only when it is alone in the loop, onData only with a poll  *)
(* behind it.                                                              *)
LEMMA LoopShape ==
  ASSUME OnePoll
  PROVE  /\ Runs(Poll.run) => loop = <<Poll>> /\ Tail(loop) = <<>> /\ InHand = <<>>
         /\ Runs("onData") => \E m \in Item : /\ loop = <<OnData(m), Poll>>
                                              /\ Head(loop).msg = m
                                              /\ Tail(loop) = <<Poll>>
                                              /\ InHand = <<m>>
<1>1. Poll.run = "poll" /\ \A m : OnData(m).run = "onData" /\ OnData(m).msg = m
  BY DEF Poll, OnData
<1>2. CASE loop = <<Poll>>
  <2>1. Head(loop) = Poll /\ Tail(loop) = <<>>
    BY <1>2
  <2> QED
    BY <1>1, <1>2, <2>1 DEF Runs, InHand
<1>3. ASSUME NEW m \in Item, loop = <<OnData(m), Poll>>
      PROVE  /\ ~ Runs(Poll.run)
             /\ loop = <<OnData(m), Poll>>
             /\ Head(loop).msg = m
             /\ Tail(loop) = <<Poll>>
             /\ InHand = <<m>>
  <2>1. Head(loop) = OnData(m) /\ Tail(loop) = <<Poll>> /\ loop # <<>>
    BY <1>3
  <2> QED
    BY <1>1, <1>3, <2>1 DEF Runs, InHand
<1>4. CASE loop = <<>>
  BY <1>4 DEF Runs
<1> QED
  BY <1>2, <1>3, <1>4 DEF OnePoll

(* What each handler leaves in the loop.                                   *)
LEMMA LoopStep ==
  ASSUME ConsumerInv, ConsumerNext
  PROVE  \/ Encache
         \/ ConsumerRun /\ loop = <<>> /\ loop' = <<Poll>>
         \/ PollTakes /\ loop = <<Poll>> /\ loop' = <<OnData(Head(fifo)), Poll>>
         \/ PollMisses /\ loop = <<Poll>> /\ loop' = <<Poll>>
         \/ OnDataRuns /\ loop' = <<Poll>> /\ \E m \in Item : loop = <<OnData(m), Poll>>
<1>o. OnePoll
  BY DEF ConsumerInv
<1>1. ASSUME PollTakes
      PROVE  loop = <<Poll>> /\ loop' = <<OnData(Head(fifo)), Poll>>
  <2>1. loop = <<Poll>> /\ Tail(loop) = <<>>
    BY <1>1, <1>o, LoopShape DEF PollTakes
  <2>2. loop' = <<>> \o <<OnData(Head(fifo)), Poll>>
    BY <1>1, <2>1 DEF PollTakes
  <2> QED
    BY <2>1, <2>2
<1>2. ASSUME PollMisses
      PROVE  loop = <<Poll>> /\ loop' = <<Poll>>
  <2>1. loop = <<Poll>> /\ Tail(loop) = <<>>
    BY <1>2, <1>o, LoopShape DEF PollMisses
  <2>2. loop' = Append(<<>>, Poll)
    BY <1>2, <2>1 DEF PollMisses
  <2> QED
    BY <2>1, <2>2
<1>3. ASSUME OnDataRuns
      PROVE  loop' = <<Poll>> /\ \E m \in Item : loop = <<OnData(m), Poll>>
  <2>1. Runs("onData") /\ loop' = Tail(loop)
    BY <1>3 DEF OnDataRuns, OnDataCalls, OnDataThrows, OnDataIgnores
  <2> QED
    BY <2>1, <1>o, LoopShape
<1>4. ASSUME ConsumerRun
      PROVE  loop = <<>> /\ loop' = <<Poll>>
  <2>1. loop = <<>> /\ loop' = Append(loop, Poll)
    BY <1>4, <1>o DEF ConsumerRun, OnePoll
  <2> QED
    BY <2>1
<1> QED
  BY <1>1, <1>2, <1>3, <1>4 DEF ConsumerNext, Handles

(* The head and the tail of what is in the cache.                          *)
LEMMA TakeFirst ==
  ASSUME NEW s \in Seq(Item), s # <<>>
  PROVE  /\ Head(s) \in Item
         /\ Tail(s) \in Seq(Item)
         /\ Len(Tail(s)) = Len(s) - 1
OBVIOUS

(* Every handler, and every message that is cached, keeps one poll in the  *)
(* loop.                                                                   *)
LEMMA ConsumerInvNext == ConsumerInv /\ [ConsumerNext]_consumerVars => ConsumerInv'
<1> SUFFICES ASSUME ConsumerInv, [ConsumerNext]_consumerVars
             PROVE  ConsumerInv'
  OBVIOUS
<1>t. /\ fifo \in Seq(Item)
      /\ Len(fifo) <= Limit
      /\ Limit \in Nat
      /\ started \in BOOLEAN
      /\ thrown \in BOOLEAN
      /\ cached \in Seq(Item)
      /\ called \in Seq(Item)
      /\ OnePoll
  BY ConsumerAssumption DEF ConsumerInv, ConsumerTypeOK
<1>g. SUFFICES /\ fifo' \in Seq(Item)
               /\ Len(fifo') <= Limit
               /\ started' \in BOOLEAN
               /\ thrown' \in BOOLEAN
               /\ cached' \in Seq(Item)
               /\ called' \in Seq(Item)
               /\ OnePoll'
  <2>1. ASSUME OnePoll'
        PROVE  loop' \in Seq({Poll} \cup {OnData(m) : m \in Item})
    BY <2>1, LoopTyped DEF OnePoll
  <2> QED
    BY <2>1 DEF ConsumerInv, ConsumerTypeOK
<1>1. CASE Encache
  <2>1. PICK m \in Item : fifo' = Append(fifo, m)
    BY <1>1 DEF Encache, Put
  <2>2. fifo' \in Seq(Item) /\ Len(fifo') = Len(fifo) + 1 /\ fifo'[Len(fifo')] = m
    BY <2>1, <1>t
  <2>3. Len(fifo) < Limit
    BY <1>1 DEF Encache, Put
  <2>4. cached' \in Seq(Item) /\ UNCHANGED <<started, loop, thrown, called>>
    BY <1>1, <2>2, <1>t DEF Encache
  <2> QED
    BY <2>2, <2>3, <2>4, <1>t DEF OnePoll
<1>2. CASE PollTakes /\ loop = <<Poll>> /\ loop' = <<OnData(Head(fifo)), Poll>>
  <2>1. fifo # <<>> /\ fifo' = Tail(fifo) /\ UNCHANGED <<started, thrown, cached, called>>
    BY <1>2 DEF PollTakes, Get
  <2> QED
    BY <1>2, <2>1, <1>t, TakeFirst DEF OnePoll
<1>3. CASE PollMisses /\ loop = <<Poll>> /\ loop' = <<Poll>>
  BY <1>3, <1>t DEF PollMisses, OnePoll
<1>4. CASE OnDataRuns /\ loop' = <<Poll>> /\ \E m \in Item : loop = <<OnData(m), Poll>>
  <2>1. PICK m \in Item : Head(loop).msg = m
    BY <1>4, <1>t, LoopShape DEF OnDataRuns, OnDataCalls, OnDataThrows, OnDataIgnores
  <2>2. UNCHANGED <<fifo, started, cached>> /\ (thrown' = thrown \/ thrown' = TRUE)
    BY <1>4 DEF OnDataRuns, OnDataCalls, OnDataThrows, OnDataIgnores
  <2>3. called' = called \/ called' = Append(called, m)
    BY <1>4, <2>1 DEF OnDataRuns, OnDataCalls, OnDataThrows, OnDataIgnores
  <2>c. called \in Seq(Item)
    BY <1>t
  <2>4. called' \in Seq(Item)
    <3>1. Append(called, m) \in Seq(Item)
      BY <2>c
    <3> QED
      BY <2>c, <2>3, <3>1
  <2>5. thrown' \in BOOLEAN
    BY <2>2, <1>t
  <2> QED
    BY <1>4, <2>2, <2>4, <2>5, <1>t DEF OnePoll
<1>5. CASE UNCHANGED consumerVars
  BY <1>5, <1>t DEF consumerVars, OnePoll
<1>6. CASE ConsumerRun /\ loop = <<>> /\ loop' = <<Poll>>
  BY <1>6, <1>t DEF ConsumerRun, OnePoll
<1> QED
  BY <1>1, <1>2, <1>3, <1>4, <1>5, <1>6, LoopStep

(* The cache never holds more than its limit, and only messages pass.      *)
THEOREM ConsumerTypeCorrect == ConsumerSpec => []ConsumerTypeOK
<1>1. ConsumerInv => ConsumerTypeOK
  BY DEF ConsumerInv
<1> QED
  BY <1>1, ConsumerInvInit, ConsumerInvNext, PTL DEF ConsumerSpec

(* Polling never stops and never multiplies, and no message overtakes the  *)
(* one in hand, however many messages come and whatever callbacks do.      *)
THEOREM OnePollHolds == ConsumerSpec => []OnePoll
<1>1. ConsumerInv => OnePoll
  BY DEF ConsumerInv
<1> QED
  BY <1>1, ConsumerInvInit, ConsumerInvNext, PTL DEF ConsumerSpec

-----------------------------------------------------------------------------
(***************************************************************************)
(* The cache and the event loop implement a bounded FIFO that has room for *)
(* one message more than the cache.                                        *)
(***************************************************************************)
(* Sequences that start with the message in hand.                          *)
LEMMA InFront ==
  ASSUME NEW m \in Item, NEW s \in Seq(Item)
  PROVE  /\ <<>> \o s = s
         /\ <<m>> \o s # <<>>
         /\ Tail(<<m>> \o s) = s
         /\ Len(<<m>> \o s) = Len(s) + 1
         /\ \A n \in Item : <<m>> \o Append(s, n) = Append(<<m>> \o s, n)
OBVIOUS

(* A message that is taken is in front of those that are left.             *)
LEMMA TakenInFront ==
  ASSUME NEW s \in Seq(Item), s # <<>>
  PROVE  <<Head(s)>> \o Tail(s) = s
OBVIOUS

(* What waits for its callback, in hand or in the cache                    *)
Waiting == InHand \o fifo

(* encache puts a message in,                                              *)
Comes(n) ==
  /\ Len(Waiting) < Limit + 1
  /\ Waiting' = Append(Waiting, n)
  /\ cached' = Append(cached, n)
  /\ called' = called

(* the end of onData takes one out,                                        *)
Goes(m) ==
  /\ Waiting = <<m>> \o Waiting'
  /\ cached' = cached
  /\ called' = IF HasCallback(m) THEN Append(called, m) ELSE called

(* and polling only moves a message from the cache into the loop.          *)
LEMMA MessageMoves ==
  ASSUME ConsumerInv, ConsumerInv', [ConsumerNext]_consumerVars
  PROVE  /\ Waiting \in Seq(Item) /\ Waiting' \in Seq(Item)
         /\ \/ \E n \in Item : Comes(n)
            \/ \E m \in Item : Goes(m)
            \/ UNCHANGED <<Waiting, cached, called>>
<1>t. /\ fifo \in Seq(Item)
      /\ fifo' \in Seq(Item)
      /\ Limit \in Nat
      /\ cached \in Seq(Item)
      /\ OnePoll
      /\ OnePoll'
  BY ConsumerAssumption DEF ConsumerInv, ConsumerTypeOK
<1>h. \/ InHand = <<>>
      \/ \E m \in Item : InHand = <<m>>
  BY <1>t, LoopShape DEF InHand
<1>h2. \/ InHand' = <<>>
       \/ \E m \in Item : InHand' = <<m>>
  <2>1. \A m \in Item : Head(<<OnData(m), Poll>>) = OnData(m) /\ OnData(m).msg = m
    BY DEF OnData
  <2> QED
    BY <1>t, <2>1 DEF OnePoll, InHand, Runs, Poll
<1>w. Waiting \in Seq(Item) /\ Waiting' \in Seq(Item)
  <2>1. ASSUME NEW h, h = <<>> \/ \E m \in Item : h = <<m>>, NEW s \in Seq(Item)
        PROVE  h \o s \in Seq(Item)
    <3>1. <<>> \in Seq(Item) /\ \A m \in Item : <<m>> \in Seq(Item)
      OBVIOUS
    <3>2. h \in Seq(Item)
      BY <2>1, <3>1, Zenon
    <3> QED
      BY <3>2
  <2>2. InHand \o fifo \in Seq(Item)
    BY <1>t, <1>h, <2>1
  <2>3. InHand' \o fifo' \in Seq(Item)
    BY <1>t, <1>h2, <2>1
  <2> QED
    BY <2>2, <2>3 DEF Waiting
<1>i. ASSUME loop' = loop
      PROVE  InHand' = InHand
  BY <1>i DEF InHand, Runs
<1>p. /\ Poll.run = "poll"
      /\ \A m : OnData(m).run = "onData" /\ OnData(m).msg = m
  BY DEF Poll, OnData
<1>e. ASSUME loop' = <<Poll>>
      PROVE  InHand' = <<>>
  BY <1>e, <1>p DEF InHand, Runs
<1>1. CASE Encache
  <2>1. PICK n \in Item : fifo' = Append(fifo, n)
    BY <1>1 DEF Encache, Put
  <2>2. Len(fifo) < Limit /\ InHand' = InHand
    BY <1>1, <1>i DEF Encache, Put
  <2>3. InHand' \o fifo' = Append(InHand \o fifo, n) /\ Len(InHand \o fifo) < Limit + 1
    <3>1. CASE InHand = <<>>
      <4>1. <<>> \o fifo = fifo /\ <<>> \o fifo' = fifo'
        BY <1>t, <1>h, InFront
      <4> QED
        BY <2>1, <2>2, <3>1, <4>1, <1>t
    <3>2. ASSUME NEW m \in Item, InHand = <<m>>
          PROVE  InHand' \o fifo' = Append(InHand \o fifo, n) /\ Len(InHand \o fifo) < Limit + 1
      <4>1. /\ <<m>> \o Append(fifo, n) = Append(<<m>> \o fifo, n)
            /\ Len(<<m>> \o fifo) = Len(fifo) + 1
        BY <1>t, InFront
      <4> QED
        BY <2>1, <2>2, <3>2, <4>1, <1>t
    <3> QED
      BY <3>1, <3>2, <1>h
  <2>4. cached' = Append(cached, n) /\ called' = called
    <3>1. fifo'[Len(fifo')] = n
      BY <2>1, <1>t
    <3> QED
      BY <1>1, <3>1 DEF Encache
  <2>5. Comes(n)
    BY <2>3, <2>4 DEF Comes, Waiting
  <2> QED
    BY <2>5, <1>w
<1>2. CASE PollTakes /\ loop = <<Poll>> /\ loop' = <<OnData(Head(fifo)), Poll>>
  <2>1. fifo # <<>> /\ fifo' = Tail(fifo)
    BY <1>2 DEF PollTakes, Get
  <2>2. InHand = <<>> /\ InHand' = <<Head(fifo)>>
    BY <1>2, <1>p DEF InHand, Runs
  <2>3. InHand' \o fifo' = fifo /\ InHand \o fifo = fifo
    BY <2>1, <2>2, <1>t, TakenInFront
  <2> QED
    BY <1>2, <1>w, <2>3 DEF PollTakes, Waiting
<1>3. CASE PollMisses /\ loop = <<Poll>> /\ loop' = <<Poll>>
  BY <1>3, <1>i, <1>w DEF PollMisses, Waiting
<1>4. CASE OnDataRuns /\ loop' = <<Poll>> /\ \E m \in Item : loop = <<OnData(m), Poll>>
  <2>1. PICK m \in Item : loop = <<OnData(m), Poll>>
    BY <1>4
  <2>2. InHand = <<m>> /\ InHand' = <<>>
    BY <1>4, <2>1, <1>e, <1>p DEF InHand, Runs
  <2>3. fifo' = fifo /\ cached' = cached
    BY <1>4 DEF OnDataRuns, OnDataCalls, OnDataThrows, OnDataIgnores
  <2>4. called' = IF HasCallback(m) THEN Append(called, m) ELSE called
    <3>1. Head(loop).msg = m
      BY <2>1, <1>p
    <3> QED
      BY <1>4, <3>1 DEF OnDataRuns, OnDataCalls, OnDataThrows, OnDataIgnores
  <2>5. Waiting' = fifo /\ Waiting = <<m>> \o fifo
    BY <2>2, <2>3, <1>t, InFront DEF Waiting
  <2>6. Goes(m)
    BY <2>3, <2>4, <2>5 DEF Goes
  <2> QED
    BY <2>6, <1>w
<1>5. CASE UNCHANGED consumerVars
  BY <1>5, <1>i, <1>w DEF consumerVars, Waiting
<1>6. CASE ConsumerRun /\ loop = <<>> /\ loop' = <<Poll>>
  <2>1. InHand = <<>> /\ InHand' = <<>> /\ fifo' = fifo
    BY <1>6, <1>e DEF ConsumerRun, InHand, Runs
  <2> QED
    BY <1>6, <1>w, <2>1 DEF ConsumerRun, Waiting
<1> QED
  BY <1>1, <1>2, <1>3, <1>4, <1>5, <1>6, LoopStep

(* So the cache and the loop step like one FIFO.                           *)
LEMMA DeliveryNext ==
  ConsumerInv /\ ConsumerInv' /\ [ConsumerNext]_consumerVars
    => [Delivery!Put \/ Delivery!Get]_(InHand \o fifo)
<1> SUFFICES ASSUME ConsumerInv, ConsumerInv', [ConsumerNext]_consumerVars
             PROVE  Delivery!Put \/ Delivery!Get \/ Waiting' = Waiting
  BY DEF Waiting
<1>1. Waiting' \in Seq(Item)
  BY MessageMoves
<1>2. ASSUME NEW n \in Item, Comes(n) PROVE Delivery!Put
  BY <1>2 DEF Comes, Waiting, Delivery!Put
<1>3. ASSUME NEW m \in Item, Goes(m) PROVE Delivery!Get
  <2>1. Waiting # <<>> /\ Waiting' = Tail(Waiting)
    BY <1>1, <1>3, InFront DEF Goes
  <2> QED
    BY <2>1 DEF Delivery!Get, Waiting
<1> QED
  BY <1>2, <1>3, MessageMoves

(* From encache to the callback messages go as through one bounded FIFO,   *)
(* whatever the loop is doing when they come.                              *)
THEOREM ImplementsDeliverySafely == ConsumerSpec => Delivery!FifoSafeSpec
<1>1. ConsumerInit => Delivery!FifoInit
  <2> SUFFICES ASSUME ConsumerInit PROVE InHand \o fifo = <<>>
    BY DEF Delivery!FifoInit
  <2>1. fifo = <<>> /\ loop = <<>>
    BY DEF ConsumerInit, FifoInit
  <2>2. InHand = <<>>
    BY <2>1 DEF InHand, Runs, Poll
  <2> QED
    BY <2>1, <2>2
<1> QED
  BY <1>1, DeliveryNext, ConsumerInvInit, ConsumerInvNext, PTL
  DEF ConsumerSpec, Delivery!FifoSafeSpec

-----------------------------------------------------------------------------
(***************************************************************************)
(* No message is passed to a callback twice, none is passed over, and none *)
(* overtakes another.                                                      *)
(***************************************************************************)
(* The recursion of CallsOf, which goes through s from its first message.  *)
IsCallsOf(f, s) ==
  /\ f \in [0 .. Len(s) -> Seq(Item)]
  /\ f[0] = <<>>
  /\ \A n \in 1 .. Len(s) :
       f[n] = IF HasCallback(s[n]) THEN Append(f[n - 1], s[n]) ELSE f[n - 1]

LEMMA CallsOfIsDefined ==
  ASSUME NEW s \in Seq(Item)
  PROVE  \E f : IsCallsOf(f, s) /\ CallsOf(s) = f[Len(s)]
<1> DEFINE N == Len(s)
           T == Seq(Item)
           Next(n, c) == IF HasCallback(s[n]) THEN Append(c, s[n]) ELSE c
           step == [n \in 1 .. N |-> [c \in T |-> Next(n, c)]]
           G(h) == [n \in 0 .. N |-> IF n = 0 THEN <<>> ELSE Next(n, h[n - 1])]
<1>1. N \in Nat /\ <<>> \in T /\ \A n \in 1 .. N : s[n] \in Item
  OBVIOUS
<1>2. \A n \in 1 .. N : \A c \in T : Next(n, c) \in T
  <2> TAKE n \in 1 .. N
  <2> TAKE c \in T
  <2>1. Append(c, s[n]) \in T
    BY <1>1
  <2> QED
    BY <2>1
<1> HIDE DEF N, T, Next
<1>3. step \in [1 .. N -> [T -> T]] /\ \A n \in 1 .. N : \A c \in T : step[n][c] = Next(n, c)
  BY <1>2
<1>4. \A h : G(h)[0] = <<>> /\ \A n \in 1 .. N : G(h)[n] = Next(n, h[n - 1])
  <2> TAKE h
  <2>1. 0 \in 0 .. N /\ \A n \in 1 .. N : n \in 0 .. N /\ n # 0
    BY <1>1
  <2> QED
    BY <2>1
<1>5. \E h : h = G(h)
  <2>1. RecursionHasValue(N, T, <<>>, step)
    <3> HIDE DEF step
    <3> QED
      BY <1>1, <1>3, FiniteRecursion, Zenon
  <2> HIDE DEF step
  <2>2. PICK h \in [0 .. N -> T] : h[0] = <<>> /\ \A n \in 1 .. N : h[n] = step[n][h[n - 1]]
    BY <2>1 DEF RecursionHasValue
  <2>3. \A n \in 1 .. N : h[n] = Next(n, h[n - 1])
    <3>1. \A n \in 1 .. N : n - 1 \in 0 .. N
      BY <1>1
    <3> QED
      BY <1>3, <2>2, <3>1
  <2>4. h = G(h)
    BY <1>1, <2>2, <2>3
  <2> QED
    BY <2>4
<1> DEFINE f == CHOOSE h : h = G(h)
<1>6. f = G(f)
  BY <1>5, Zenon
<1>7. CallsOf(s) = f[N]
  BY Zenon DEF CallsOf, N, Next
<1> HIDE DEF f
<1>8. f[0] = <<>> /\ \A n \in 1 .. N : f[n] = Next(n, f[n - 1])
  <2> HIDE DEF G
  <2> QED
    BY <1>4, <1>6
<1>9. f \in [0 .. N -> T]
  <2> DEFINE S == {n \in 0 .. N : f[n] \in T}
  <2>1. 0 \in S
    BY <1>1, <1>8
  <2>2. ASSUME NEW n \in 0 .. N - 1, n \in S PROVE n + 1 \in S
    <3>1. n + 1 \in 0 .. N /\ n + 1 \in 1 .. N /\ (n + 1) - 1 = n
      BY <1>1
    <3> QED
      BY <1>2, <1>8, <2>2, <3>1
  <2> HIDE DEF S
  <2>3. \A n \in 0 .. N : n \in S
    BY <1>1, <2>1, <2>2, BoundedInduction, Zenon
  <2>4. \A n \in 0 .. N : f[n] \in T
    BY <2>3 DEF S
  <2> QED
    BY <1>6, <2>4
<1>10. IsCallsOf(f, s)
  BY <1>8, <1>9 DEF IsCallsOf, N, T, Next
<1> QED
  BY <1>7, <1>10 DEF N

(* Every function of the recursion has the same last value.                *)
LEMMA CallsOfIsUnique ==
  ASSUME NEW s \in Seq(Item), NEW f, IsCallsOf(f, s)
  PROVE  CallsOf(s) = f[Len(s)]
<1>1. PICK g : IsCallsOf(g, s) /\ CallsOf(s) = g[Len(s)]
  BY CallsOfIsDefined
<1> DEFINE S == {n \in 0 .. Len(s) : f[n] = g[n]}
<1>2. Len(s) \in Nat
  OBVIOUS
<1>3. 0 \in S
  BY <1>1, <1>2 DEF IsCallsOf
<1>4. ASSUME NEW n \in 0 .. Len(s) - 1, n \in S PROVE n + 1 \in S
  <2>1. n + 1 \in 0 .. Len(s) /\ n + 1 \in 1 .. Len(s) /\ (n + 1) - 1 = n
    BY <1>2
  <2> QED
    BY <1>1, <1>4, <2>1 DEF IsCallsOf
<1> HIDE DEF S
<1>5. \A n \in 0 .. Len(s) : n \in S
  BY <1>2, <1>3, <1>4, BoundedInduction, Zenon
<1>6. f[Len(s)] = g[Len(s)]
  BY <1>2, <1>5 DEF S
<1> QED
  BY <1>1, <1>6

(* No message, no call.                                                    *)
LEMMA CallsOfNone == CallsOf(<<>>) = <<>>
<1>1. <<>> \in Seq(Item) /\ Len(<<>>) = 0
  OBVIOUS
<1>2. PICK f : IsCallsOf(f, <<>>) /\ CallsOf(<<>>) = f[Len(<<>>)]
  BY <1>1, CallsOfIsDefined, Zenon
<1>3. f[0] = <<>>
  BY <1>2 DEF IsCallsOf
<1> QED
  BY <1>1, <1>2, <1>3

(* One message more at the end adds a call at the end, or none.            *)
LEMMA CallsOfAppend ==
  ASSUME NEW s \in Seq(Item), NEW m \in Item
  PROVE  CallsOf(Append(s, m)) =
           IF HasCallback(m) THEN Append(CallsOf(s), m) ELSE CallsOf(s)
<1> DEFINE t == Append(s, m)
           N == Len(s)
           T == Seq(Item)
           More(c) == IF HasCallback(m) THEN Append(c, m) ELSE c
<1>1. t \in Seq(Item) /\ Len(t) = N + 1 /\ t[N + 1] = m /\ \A n \in 1 .. N : t[n] = s[n]
  OBVIOUS
<1>2. N \in Nat
  OBVIOUS
<1> HIDE DEF t
<1>3. PICK g : IsCallsOf(g, t) /\ CallsOf(t) = g[N + 1]
  <2>1. \E g : IsCallsOf(g, t) /\ CallsOf(t) = g[Len(t)]
    BY <1>1, CallsOfIsDefined
  <2> QED
    BY <1>1, <2>1
<1> DEFINE f == [n \in 0 .. N |-> g[n]]
<1>4. IsCallsOf(f, s)
  <2>1. \A n \in 0 .. N : n \in 0 .. Len(t)
    BY <1>1, <1>2
  <2>2. f \in [0 .. N -> T]
    BY <1>3, <2>1 DEF IsCallsOf
  <2>3. f[0] = <<>>
    BY <1>2, <1>3 DEF IsCallsOf
  <2>4. ASSUME NEW n \in 1 .. N
        PROVE  f[n] = IF HasCallback(s[n]) THEN Append(f[n - 1], s[n]) ELSE f[n - 1]
    <3>1. n \in 1 .. Len(t) /\ n \in 0 .. N /\ n - 1 \in 0 .. N
      BY <1>1, <1>2
    <3>2. f[n] = g[n] /\ f[n - 1] = g[n - 1] /\ t[n] = s[n]
      BY <1>1, <3>1
    <3>3. g[n] = IF HasCallback(t[n]) THEN Append(g[n - 1], t[n]) ELSE g[n - 1]
      BY <1>3, <3>1 DEF IsCallsOf
    <3> QED
      BY <3>2, <3>3
  <2> QED
    BY <2>2, <2>3, <2>4 DEF IsCallsOf
<1>5. CallsOf(s) = g[N]
  <2>1. f[N] = g[N]
    BY <1>2
  <2>2. CallsOf(s) = f[N]
    <3> HIDE DEF f
    <3> QED
      BY <1>4, CallsOfIsUnique
  <2> QED
    BY <2>1, <2>2
<1>6. g[N + 1] = More(g[N])
  <2>1. N + 1 \in 1 .. Len(t) /\ (N + 1) - 1 = N
    BY <1>1, <1>2
  <2>2. g[N + 1] = IF HasCallback(t[N + 1]) THEN Append(g[(N + 1) - 1], t[N + 1]) ELSE g[(N + 1) - 1]
    BY <1>3, <2>1 DEF IsCallsOf
  <2> QED
    BY <1>1, <2>1, <2>2
<1> QED
  BY <1>3, <1>5, <1>6 DEF t

(* A message behind two sequences is behind the second of them.            *)
LEMMA AppendBehind ==
  ASSUME NEW s \in Seq(Item), NEW t \in Seq(Item), NEW m \in Item
  PROVE  Append(s \o t, m) = s \o Append(t, m)
<1>1. s \o t \in Seq(Item) /\ <<m>> \in Seq(Item)
  OBVIOUS
<1>2. (s \o t) \o <<m>> = s \o (t \o <<m>>)
  BY <1>1, ConcatAssociative
<1>3. \A u \in Seq(Item) : Append(u, m) = u \o <<m>>
  OBVIOUS
<1> QED
  BY <1>1, <1>2, <1>3

(* A sequence with one message more in front.                              *)
LEMMA OneInFront ==
  ASSUME NEW m \in Item, NEW s \in Seq(Item)
  PROVE  /\ <<m>> \o s \in Seq(Item)
         /\ Len(<<m>> \o s) = Len(s) + 1
         /\ (<<m>> \o s)[1] = m
         /\ \A n \in 1 .. Len(s) : (<<m>> \o s)[n + 1] = s[n]
OBVIOUS

(* One message more in front adds a call in front, or none.                *)
LEMMA CallsOfInFront ==
  ASSUME NEW m \in Item, NEW s \in Seq(Item)
  PROVE  CallsOf(<<m>> \o s) = (IF HasCallback(m) THEN <<m>> ELSE <<>>) \o CallsOf(s)
<1> DEFINE t == <<m>> \o s
           N == Len(s)
           first == IF HasCallback(m) THEN <<m>> ELSE <<>>
<1>1. t \in Seq(Item) /\ Len(t) = N + 1 /\ t[1] = m /\ \A n \in 1 .. N : t[n + 1] = s[n]
  BY OneInFront
<1>2. N \in Nat /\ first \in Seq(Item)
  OBVIOUS
<1> HIDE DEF t
<1>3. PICK f : IsCallsOf(f, s) /\ CallsOf(s) = f[N]
  BY CallsOfIsDefined
<1>4. PICK g : IsCallsOf(g, t) /\ CallsOf(t) = g[N + 1]
  <2>1. \E g : IsCallsOf(g, t) /\ CallsOf(t) = g[Len(t)]
    BY <1>1, CallsOfIsDefined
  <2> QED
    BY <1>1, <2>1
<1> DEFINE S == {n \in 0 .. N : g[n + 1] = first \o f[n]}
<1>5. 0 \in S
  <2>1. 1 \in 1 .. Len(t) /\ 1 - 1 = 0
    BY <1>1, <1>2
  <2>2. g[1] = IF HasCallback(t[1]) THEN Append(g[1 - 1], t[1]) ELSE g[1 - 1]
    BY <1>4, <2>1 DEF IsCallsOf
  <2>3. g[0] = <<>> /\ f[0] = <<>>
    BY <1>3, <1>4 DEF IsCallsOf
  <2>4. Append(<<>>, m) = <<m>> /\ first \o <<>> = first
    BY <1>2
  <2>5. g[1] = first
    BY <1>1, <2>1, <2>2, <2>3, <2>4
  <2>6. 0 \in 0 .. N /\ 0 + 1 = 1
    BY <1>2
  <2> HIDE DEF first
  <2> QED
    BY <2>3, <2>4, <2>5, <2>6
<1>6. ASSUME NEW n \in 0 .. N - 1, n \in S PROVE n + 1 \in S
  <2>1. n + 1 \in 0 .. N /\ n + 1 \in 1 .. N /\ (n + 1) - 1 = n /\ n \in 0 .. N
        /\ (n + 1) + 1 \in 1 .. Len(t) /\ ((n + 1) + 1) - 1 = n + 1
    BY <1>1, <1>2
  <2> DEFINE x == s[n + 1]
             c == f[n]
  <2>2. t[(n + 1) + 1] = x /\ x \in Item /\ c \in Seq(Item)
    <3>1. t[(n + 1) + 1] = x
      BY <1>1, <2>1
    <3>2. x \in Item
      BY <2>1
    <3>3. c \in Seq(Item)
      BY <1>3, <2>1 DEF IsCallsOf
    <3> QED
      BY <3>1, <3>2, <3>3
  <2>3. f[n + 1] = IF HasCallback(x) THEN Append(c, x) ELSE c
    <3>1. f[n + 1] = IF HasCallback(s[n + 1]) THEN Append(f[(n + 1) - 1], s[n + 1]) ELSE f[(n + 1) - 1]
      BY <1>3, <2>1 DEF IsCallsOf
    <3> QED
      BY <2>1, <3>1
  <2>4. g[(n + 1) + 1] = IF HasCallback(x) THEN Append(g[n + 1], x) ELSE g[n + 1]
    <3>1. \A k \in 1 .. Len(t) : g[k] = IF HasCallback(t[k]) THEN Append(g[k - 1], t[k]) ELSE g[k - 1]
      BY <1>4 DEF IsCallsOf
    <3> QED
      BY <2>1, <2>2, <3>1
  <2>5. g[n + 1] = first \o c
    BY <1>6
  <2> HIDE DEF x, c, first
  <2>6. Append(first \o c, x) = first \o Append(c, x)
    BY <1>2, <2>2, AppendBehind
  <2>7. g[(n + 1) + 1] = first \o f[n + 1]
    BY <2>3, <2>4, <2>5, <2>6
  <2> QED
    BY <2>1, <2>7
<1> HIDE DEF S
<1>7. \A n \in 0 .. N : n \in S
  BY <1>2, <1>5, <1>6, BoundedInduction, Zenon
<1>8. g[N + 1] = first \o f[N]
  <2>1. N \in S
    BY <1>2, <1>7
  <2> QED
    BY <2>1, Zenon DEF S
<1> QED
  BY <1>3, <1>4, <1>8 DEF t

(* However the messages move, the calls that were made and those that are  *)
(* to come are those of all the messages that were cached.                 *)
LEMMA CallbacksNext ==
  ConsumerInv /\ ConsumerInv' /\ CallbacksFollowCache /\ [ConsumerNext]_consumerVars
    => CallbacksFollowCache'
<1> SUFFICES ASSUME ConsumerInv, ConsumerInv', [ConsumerNext]_consumerVars,
                    CallsOf(cached) = called \o CallsOf(Waiting)
             PROVE  CallsOf(cached') = called' \o CallsOf(Waiting')
  BY DEF CallbacksFollowCache, Waiting
<1>1. /\ Waiting \in Seq(Item) /\ Waiting' \in Seq(Item)
      /\ cached \in Seq(Item) /\ called \in Seq(Item)
  BY MessageMoves DEF ConsumerInv, ConsumerTypeOK
<1>2. \A s \in Seq(Item) : CallsOf(s) \in Seq(Item)
  <2> TAKE s \in Seq(Item)
  <2>1. PICK f : IsCallsOf(f, s) /\ CallsOf(s) = f[Len(s)]
    BY CallsOfIsDefined
  <2> QED
    BY <2>1 DEF IsCallsOf
<1> DEFINE c == CallsOf(cached)
           w == CallsOf(Waiting)
           v == CallsOf(Waiting')
<1>3. c = called \o w /\ c \in Seq(Item) /\ w \in Seq(Item) /\ v \in Seq(Item)
  BY <1>1, <1>2
<1>4. ASSUME NEW n \in Item, Comes(n) PROVE CallsOf(cached') = called' \o v
  <2>1. cached' = Append(cached, n) /\ Waiting' = Append(Waiting, n) /\ called' = called
    BY <1>4 DEF Comes
  <2>2. /\ CallsOf(cached') = IF HasCallback(n) THEN Append(c, n) ELSE c
        /\ v = IF HasCallback(n) THEN Append(w, n) ELSE w
    BY <1>1, <2>1, CallsOfAppend
  <2> HIDE DEF c, w, v
  <2>3. Append(called \o w, n) = called \o Append(w, n)
    BY <1>1, <1>3, AppendBehind
  <2> QED
    BY <1>3, <2>1, <2>2, <2>3
<1>5. ASSUME NEW m \in Item, Goes(m) PROVE CallsOf(cached') = called' \o v
  <2>1. cached' = cached /\ Waiting = <<m>> \o Waiting'
        /\ called' = IF HasCallback(m) THEN Append(called, m) ELSE called
    BY <1>5 DEF Goes
  <2>2. w = (IF HasCallback(m) THEN <<m>> ELSE <<>>) \o v
    BY <1>1, <2>1, CallsOfInFront
  <2> HIDE DEF w, v
  <2>3. CASE HasCallback(m)
    <3>1. called \o (<<m>> \o v) = (called \o <<m>>) \o v
      <4>1. <<m>> \in Seq(Item)
        OBVIOUS
      <4> QED
        BY <1>1, <1>3, <4>1, ConcatAssociative
    <3>2. Append(called, m) = called \o <<m>>
      BY <1>1
    <3> QED
      BY <1>3, <2>1, <2>2, <2>3, <3>1, <3>2
  <2>4. CASE ~ HasCallback(m)
    <3>1. <<>> \o v = v
      BY <1>3
    <3> QED
      BY <1>3, <2>1, <2>2, <2>4, <3>1
  <2> QED
    BY <2>3, <2>4
<1>6. CASE UNCHANGED <<Waiting, cached, called>>
  BY <1>3, <1>6
<1> QED
  BY <1>4, <1>5, <1>6, MessageMoves

(* Each cached message is passed to the callback of its source once, in    *)
(* the order of the cache, and a message without callback to none: what    *)
(* Consumer::onData promises, for any number of messages and polls.        *)
THEOREM CallbacksFollowCacheHolds == ConsumerSpec => []CallbacksFollowCache
<1>1. ConsumerInit => CallbacksFollowCache
  <2> SUFFICES ASSUME ConsumerInit PROVE CallbacksFollowCache
    OBVIOUS
  <2>1. cached = <<>> /\ called = <<>> /\ fifo = <<>> /\ loop = <<>>
    BY DEF ConsumerInit, FifoInit
  <2>2. InHand = <<>>
    BY <2>1 DEF InHand, Runs
  <2>3. InHand \o fifo = <<>>
    BY <2>1, <2>2
  <2> QED
    BY <2>1, <2>3, CallsOfNone DEF CallbacksFollowCache
<1> QED
  BY <1>1, CallbacksNext, ConsumerInvInit, ConsumerInvNext, PTL DEF ConsumerSpec
=============================================================================
