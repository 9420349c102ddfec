------------------------------ MODULE RestProof ------------------------------
(***************************************************************************)
(* Theorems about the REST handler.  First about its requests, as          *)
(* RestApiHandler has them: for any number of polls, and for requests that *)
(* take any time and end in any way.  Then about what becomes of one       *)
(* reply, as RestReply has it: for bodies of any length, whole or cut      *)
(* short.                                                                  *)
(***************************************************************************)
EXTENDS RestApiHandler, RestReply, SequenceTheorems, TLAPS

(* Nothing is under way at first.                                          *)
LEMMA RestInvInit == RestInit => RestInv
<1> SUFFICES ASSUME RestInit PROVE RestInv
  OBVIOUS
<1>1. Answers = <<>> /\ ops = {}
  BY DEF RestInit, Answers
<1>2. RestTypeOK
  <2>1. socket \in 0 .. MaxPolls
    BY RestAssumption DEF RestInit
  <2>2. posted \in Seq(1 .. MaxPolls) /\ handled \in Seq(1 .. MaxPolls)
    BY DEF RestInit
  <2>3. /\ overlap \in BOOLEAN
        /\ terminated \in BOOLEAN
        /\ timer \in {"armed", "off", "failed"}
        /\ ops \subseteq Op
    BY <1>1 DEF RestInit
  <2> QED
    BY <2>1, <2>2, <2>3 DEF RestTypeOK
<1>3. DOMAIN Answers = {} /\ OnStream = {}
  BY <1>1 DEF OnStream
<1> QED
  BY <1>1, <1>2, <1>3 DEF RestInv, TimelyOwnStream, TimelyAnswersInOrder, AnswersOnce

(* The operations that a callback may start, and their requests.           *)
LEMMA NextOperationTyped ==
  ASSUME RestTypeOK, NEW o \in ops
  PROVE  /\ o.poll \in 1 .. MaxPolls
         /\ o.what \in DOMAIN NextOperation =>
              [poll |-> o.poll, what |-> NextOperation[o.what], on |-> socket] \in Op
         /\ socket \in Nat
<1>1. o \in Op /\ socket \in 0 .. MaxPolls
  BY DEF RestTypeOK
<1>2. o.poll \in 1 .. MaxPolls
  BY <1>1 DEF Op
<1>3. o.what \in DOMAIN NextOperation =>
        NextOperation[o.what] \in {"connect", "handshake", "write", "read"}
  BY DEF NextOperation
<1> QED
  BY <1>1, <1>2, <1>3 DEF Op

(* on_data takes the next answer; which have been read stays the same.     *)
LEMMA HandlingKeepsAnswers ==
  ASSUME RestTypeOK, HandleData
  PROVE  /\ Answers' = Answers
         /\ handled' \in Seq(1 .. MaxPolls)
         /\ posted' \in Seq(1 .. MaxPolls)
<1> DEFINE P == 1 .. MaxPolls
<1>1. /\ handled \in Seq(P)
      /\ posted \in Seq(P)
      /\ posted # <<>>
      /\ handled' = Append(handled, Head(posted))
      /\ posted' = Tail(posted)
  BY DEF RestTypeOK, HandleData
<1> HIDE DEF P
<1>2. /\ Append(handled, Head(posted)) \o Tail(posted) = handled \o posted
      /\ Append(handled, Head(posted)) \in Seq(P)
      /\ Tail(posted) \in Seq(P)
  BY <1>1
<1> QED
  BY <1>1, <1>2 DEF Answers, P

(* on_read puts the answer of its request behind all others.               *)
LEMMA ReadingAddsAnswer ==
  ASSUME RestTypeOK, NEW o \in ops, posted' = Append(posted, o.poll), handled' = handled
  PROVE  /\ posted' \in Seq(1 .. MaxPolls)
         /\ Answers \in Seq(1 .. MaxPolls)
         /\ Answers' = Append(Answers, o.poll)
<1> DEFINE P == 1 .. MaxPolls
<1>1. handled \in Seq(P) /\ posted \in Seq(P) /\ o.poll \in P
  BY NextOperationTyped DEF RestTypeOK
<1> HIDE DEF P
<1>2. /\ handled \o Append(posted, o.poll) = Append(handled \o posted, o.poll)
      /\ Append(posted, o.poll) \in Seq(P)
      /\ handled \o posted \in Seq(P)
  BY <1>1
<1> QED
  BY <1>1, <1>2 DEF Answers, P

(* Every step keeps the invariant.                                         *)
LEMMA RestInvNext == RestInv /\ [RestNext]_restVars => RestInv'
<1> SUFFICES ASSUME RestInv, [RestNext]_restVars
             PROVE  RestInv'
  OBVIOUS
<1>t. RestTypeOK
  BY DEF RestInv
<1>n. /\ socket \in Nat
      /\ MaxPolls \in Nat
      /\ \A o \in ops : o.poll \in Nat
      /\ \A o \in ops : o.poll \in 1 .. MaxPolls
  <2>1. \A o \in ops : o.poll \in 1 .. MaxPolls
    BY <1>t, NextOperationTyped
  <2>2. MaxPolls \in Nat /\ socket \in 0 .. MaxPolls
    BY <1>t, RestAssumption DEF RestTypeOK
  <2> QED
    BY <2>1, <2>2
<1>a. /\ Answers \in Seq(1 .. MaxPolls)
      /\ Len(Answers) \in Nat
      /\ DOMAIN Answers = 1 .. Len(Answers)
      /\ \A i \in DOMAIN Answers : Answers[i] \in Nat
  <2> DEFINE P == 1 .. MaxPolls
  <2>1. posted \in Seq(P) /\ handled \in Seq(P)
    BY <1>t DEF RestTypeOK
  <2>2. \A n \in P : n \in Nat
    OBVIOUS
  <2> HIDE DEF P
  <2>3. handled \o posted \in Seq(P)
    BY <2>1
  <2>4. Answers \in Seq(P)
    BY <2>3 DEF Answers
  <2>5. /\ Len(Answers) \in Nat
        /\ DOMAIN Answers = 1 .. Len(Answers)
        /\ \A i \in DOMAIN Answers : Answers[i] \in P
    BY <2>4
  <2> QED
    BY <2>2, <2>4, <2>5 DEF P
<1>i. /\ \A o, q \in ops : o.poll = q.poll => o = q
      /\ \A o \in ops : o.poll <= socket
      /\ \A i \in DOMAIN Answers : Answers[i] <= socket
      /\ ~ overlap => \A o \in ops : o.poll = socket
      /\ TimelyOwnStream
      /\ TimelyAnswersInOrder
      /\ AnswersOnce
  BY DEF RestInv
<1>1. CASE UNCHANGED <<socket, ops, posted, handled, overlap>> /\ RestTypeOK'
  BY <1>1, <1>i DEF RestInv, Answers, TimelyOwnStream, OnStream, TimelyAnswersInOrder, AnswersOnce
<1>2. CASE TimerFires
  <2> DEFINE new == [poll |-> socket + 1, what |-> "resolve"]
  <2>1. /\ socket' = socket + 1
        /\ socket < MaxPolls
        /\ ops' = ops \cup {new}
        /\ overlap' = (overlap \/ ops # {})
        /\ timer' = "armed"
        /\ UNCHANGED <<posted, terminated, handled>>
    BY <1>2 DEF TimerFires
  <2>2. Answers' = Answers
    BY <2>1 DEF Answers
  <2>3. new \in Op
    BY <2>1, <1>n DEF Op
  <2>4. new.poll = socket + 1 /\ new.what = "resolve"
    OBVIOUS
  <2> HIDE DEF new
  <2>5. RestTypeOK'
    <3>1. overlap' \in BOOLEAN
      BY <2>1, <1>t DEF RestTypeOK
    <3> QED
      BY <3>1, <2>1, <2>3, <1>t, <1>n DEF RestTypeOK
  <2>6. ~ overlap' => ~ overlap /\ ops' = {new}
    BY <2>1
  <2>7. \A o, q \in ops' : o.poll = q.poll => o = q
    BY <2>1, <2>4, <1>i, <1>n
  <2>8. \A o \in ops' : o.poll <= socket'
    BY <2>1, <2>4, <1>i, <1>n
  <2>9. \A i \in DOMAIN Answers' : Answers'[i] <= socket'
    BY <2>1, <2>2, <1>i, <1>n, <1>a
  <2>10. ~ overlap' => \A o \in ops' : o.poll = socket'
    BY <2>1, <2>4, <2>6
  <2>11. TimelyOwnStream'
    BY <2>4, <2>6 DEF TimelyOwnStream, OnStream
  <2>12. TimelyAnswersInOrder'
    BY <2>2, <2>6, <1>i DEF TimelyAnswersInOrder
  <2>13. AnswersOnce'
    <3>1. \A i \in DOMAIN Answers : Answers[i] # new.poll
      BY <2>4, <1>i, <1>n, <1>a
    <3> QED
      BY <2>1, <2>2, <3>1, <1>i DEF AnswersOnce
  <2> QED
    BY <2>5, <2>7, <2>8, <2>9, <2>10, <2>11, <2>12, <2>13 DEF RestInv
<1>3. CASE OpSucceeds
  <2>1. PICK o \in ops :
          /\ o.what \in DOMAIN NextOperation
          /\ ops' = (ops \ {o})
                      \cup {[poll |-> o.poll, what |-> NextOperation[o.what], on |-> socket]}
    BY <1>3 DEF OpSucceeds
  <2> DEFINE new == [poll |-> o.poll, what |-> NextOperation[o.what], on |-> socket]
  <2>2. /\ new.poll = o.poll /\ new.on = socket
        /\ new \in Op
        /\ ops' = (ops \ {o}) \cup {new}
    BY <2>1, <1>t, NextOperationTyped
  <2> HIDE DEF new
  <2>3. UNCHANGED <<timer, socket, posted, terminated, handled, overlap>>
    BY <1>3 DEF OpSucceeds
  <2>4. Answers' = Answers
    BY <2>3 DEF Answers
  <2>5. RestTypeOK'
    BY <2>2, <2>3, <1>t DEF RestTypeOK
  <2>6. \A q \in ops' : q = new \/ (q \in ops /\ q # o)
    BY <2>2
  <2>7. \A q, r \in ops' : q.poll = r.poll => q = r
    BY <2>2, <2>6, <1>i
  <2>8. /\ \A q \in ops' : q.poll <= socket'
        /\ \A i \in DOMAIN Answers' : Answers'[i] <= socket'
        /\ ~ overlap' => \A q \in ops' : q.poll = socket'
    BY <2>2, <2>3, <2>4, <2>6, <1>i
  <2>9. TimelyOwnStream'
    BY <2>2, <2>3, <2>6, <1>i DEF TimelyOwnStream, OnStream
  <2>10. TimelyAnswersInOrder' /\ AnswersOnce'
    BY <2>2, <2>3, <2>4, <2>6, <1>i DEF TimelyAnswersInOrder, AnswersOnce
  <2> QED
    BY <2>5, <2>7, <2>8, <2>9, <2>10 DEF RestInv
<1>4. CASE OpFails
  <2>1. ops' \subseteq ops /\ UNCHANGED <<timer, socket, posted, terminated, handled, overlap>>
    BY <1>4 DEF OpFails
  <2>2. Answers' = Answers
    BY <2>1 DEF Answers
  <2>3. RestTypeOK'
    BY <2>1, <1>t DEF RestTypeOK
  <2> QED
    BY <2>1, <2>2, <2>3, <1>i
    DEF RestInv, TimelyOwnStream, OnStream, TimelyAnswersInOrder, AnswersOnce
<1>5. CASE OnRead
  <2>1. PICK o \in ops : ops' = ops \ {o} /\ posted' = Append(posted, o.poll)
    BY <1>5 DEF OnRead
  <2>2. UNCHANGED <<timer, socket, terminated, handled, overlap>>
    BY <1>5 DEF OnRead
  <2>3. Answers' = Append(Answers, o.poll) /\ posted' \in Seq(1 .. MaxPolls)
    BY <2>1, <2>2, <1>t, ReadingAddsAnswer
  <2>4. RestTypeOK'
    BY <2>1, <2>2, <2>3, <1>t DEF RestTypeOK
  <2>5. /\ DOMAIN Answers' = 1 .. Len(Answers) + 1
        /\ Answers'[Len(Answers) + 1] = o.poll
        /\ \A i \in 1 .. Len(Answers) : Answers'[i] = Answers[i]
    BY <2>3, <1>a, <1>n
  <2>6. \A i \in DOMAIN Answers : Answers[i] # o.poll
    BY <1>i DEF AnswersOnce
  <2>7. /\ \A q, r \in ops' : q.poll = r.poll => q = r
        /\ \A q \in ops' : q.poll <= socket'
        /\ ~ overlap' => \A q \in ops' : q.poll = socket'
        /\ TimelyOwnStream'
    BY <2>1, <2>2, <1>i DEF TimelyOwnStream, OnStream
  <2>8. \A i \in DOMAIN Answers' : Answers'[i] <= socket'
    BY <2>2, <2>5, <1>i, <1>a, <1>n
  <2>9. TimelyAnswersInOrder'
    <3> SUFFICES ASSUME ~ overlap', NEW i \in DOMAIN Answers', NEW j \in DOMAIN Answers', i < j
                 PROVE  Answers'[i] < Answers'[j]
      BY DEF TimelyAnswersInOrder
    <3>1. i \in DOMAIN Answers /\ Answers'[i] = Answers[i]
      BY <2>5, <1>a
    <3>2. CASE j \in DOMAIN Answers
      BY <2>2, <2>5, <3>1, <3>2, <1>a, <1>i DEF TimelyAnswersInOrder
    <3>3. CASE j = Len(Answers) + 1
      <4>1. o.poll = socket /\ Answers[i] <= socket /\ Answers[i] # o.poll
        BY <2>2, <2>6, <3>1, <1>i
      <4> QED
        BY <2>5, <3>1, <3>3, <4>1, <1>a, <1>n
    <3> QED
      BY <2>5, <3>2, <3>3, <1>a
  <2>10. AnswersOnce'
    <3>1. \A i \in DOMAIN Answers' :
            \/ i \in DOMAIN Answers /\ Answers'[i] = Answers[i]
            \/ i = Len(Answers) + 1 /\ Answers'[i] = o.poll
      BY <2>5, <1>a
    <3>2. \A q \in ops' : q \in ops /\ q.poll # o.poll
      BY <2>1, <1>i
    <3> QED
      BY <2>6, <3>1, <3>2, <1>i DEF AnswersOnce
  <2> QED
    BY <2>4, <2>7, <2>8, <2>9, <2>10 DEF RestInv
<1>6. CASE HandleData
  <2>1. /\ Answers' = Answers
        /\ UNCHANGED <<timer, socket, ops, terminated, overlap>>
        /\ RestTypeOK'
    BY <1>6, <1>t, HandlingKeepsAnswers DEF HandleData, RestTypeOK
  <2> QED
    BY <2>1, <1>i
    DEF RestInv, TimelyOwnStream, OnStream, TimelyAnswersInOrder, AnswersOnce
<1>7. ASSUME Run \/ TimerFails \/ UndefinedOpRuns \/ UNCHANGED restVars
      PROVE  UNCHANGED <<socket, ops, posted, handled, overlap>> /\ RestTypeOK'
  BY <1>7, <1>t DEF Run, TimerFails, UndefinedOpRuns, restVars, RestTypeOK
<1> QED
  BY <1>1, <1>2, <1>3, <1>4, <1>5, <1>6, <1>7 DEF RestNext, CallbackRuns

(* For any number of polls the invariant holds.                            *)
THEOREM RestInvariant == RestSpec => []RestInv
BY RestInvInit, RestInvNext, PTL DEF RestSpec

(* As long as no request outlasts the polling period, each one has a       *)
(* stream of its own, and that stream lives as long as the request.        *)
THEOREM TimelyOwnStreamHolds == RestSpec => []TimelyOwnStream
<1>1. RestInv => TimelyOwnStream
  BY DEF RestInv
<1> QED
  BY <1>1, RestInvariant, PTL

(* As long as that is so, answers come in the order of the requests.       *)
THEOREM TimelyAnswersInOrderHolds == RestSpec => []TimelyAnswersInOrder
<1>1. RestInv => TimelyAnswersInOrder
  BY DEF RestInv
<1> QED
  BY <1>1, RestInvariant, PTL

(* However long requests take, none is answered twice.                     *)
THEOREM AnswersOnceHolds == RestSpec => []AnswersOnce
<1>1. RestInv => AnswersOnce
  BY DEF RestInv
<1> QED
  BY <1>1, RestInvariant, PTL

-----------------------------------------------------------------------------
(* Where the loop is: the line before next is the data, and no line before *)
(* next is empty; it has ended at an empty line or at the end.             *)
ReplyInv ==
  /\ lines \in Seq(Line)
  /\ next \in 1 .. Len(lines) + 1
  /\ \A i \in 1 .. next - 1 : lines[i] # "empty"
  /\ data_str = IF next = 1 THEN "empty" ELSE lines[next - 1]
  /\ pc # "loop" => next = Len(lines) + 1 \/ lines[next] = "empty"

(* The lines of a reply are lines, however the body is sent and wherever   *)
(* it is cut.                                                              *)
LEMMA EndIsLines ==
  ASSUME NEW f
  PROVE  /\ End(f) \in Seq(Line)
         /\ f = "length" => Len(End(f)) = 0
         /\ f = "chunked" => Len(End(f)) = 2 /\ End(f)[1] = "number" /\ End(f)[2] = "CR"
<1>1. CASE f = "length"
  BY <1>1 DEF End
<1>2. CASE f # "length"
  <2> DEFINE last == <<"number", "CR">>
  <2>1. last \in Seq(Line) /\ Len(last) = 2 /\ last[1] = "number" /\ last[2] = "CR"
    BY DEF Line
  <2>2. End(f) = last
    BY <1>2 DEF End
  <2> HIDE DEF last
  <2> QED
    BY <1>2, <2>1, <2>2
<1> QED
  BY <1>1, <1>2

LEMMA WholeIsLines ==
  ASSUME NEW b \in Seq(Line), NEW f
  PROVE  Whole(f, b) \in Seq(Line)
<1>1. Headers \in Seq(Line)
  BY DEF Headers, Line
<1>2. b \o End(f) \in Seq(Line)
  BY EndIsLines
<1> QED
  BY <1>1, <1>2 DEF Whole

LEMMA ArrivedIsLines ==
  ASSUME NEW all \in Seq(Line), NEW l \in Arrived(all)
  PROVE  l \in Seq(Line)
<1>1. CASE \E n \in 0 .. Len(all) : l = SubSeq(all, 1, n)
  BY <1>1
<1>2. CASE \E n \in 1 .. Len(all) : \E part \in Parts(all[n]) : l = Append(SubSeq(all, 1, n - 1), part)
  <2>n. PICK n \in 1 .. Len(all) : \E part \in Parts(all[n]) : l = Append(SubSeq(all, 1, n - 1), part)
    BY <1>2
  <2>1. PICK part \in Parts(all[n]) : l = Append(SubSeq(all, 1, n - 1), part)
    BY <2>n
  <2>2. part \in Line
    BY DEF Parts, Line
  <2>3. SubSeq(all, 1, n - 1) \in Seq(Line)
    OBVIOUS
  <2> QED
    BY <2>1, <2>2, <2>3
<1> QED
  BY <1>1, <1>2, Zenon DEF Arrived

(* The loop starts at the first line, if there is one.                     *)
LEMMA ReplyInvInit == ReplyInit => ReplyInv
<1> SUFFICES ASSUME ReplyInit PROVE ReplyInv
  OBVIOUS
<1>1. body \in Seq(Line) /\ lines \in Arrived(Whole(framing, body))
  BY ReplyAssumption DEF ReplyInit
<1>2. Whole(framing, body) \in Seq(Line)
  BY <1>1, WholeIsLines
<1>3. lines \in Seq(Line)
  BY <1>1, <1>2, ArrivedIsLines
<1>4. next = 1 /\ data_str = "empty" /\ pc = "loop" /\ Len(lines) \in Nat
  BY <1>3 DEF ReplyInit
<1> QED
  BY <1>3, <1>4 DEF ReplyInv

(* Each line that is taken becomes the data.                               *)
LEMMA ReplyInvNext == ReplyInv /\ [ReplyNext]_replyVars => ReplyInv'
<1> SUFFICES ASSUME ReplyInv, [ReplyNext]_replyVars PROVE ReplyInv'
  OBVIOUS
<1>t. lines \in Seq(Line) /\ next \in 1 .. Len(lines) + 1 /\ Len(lines) \in Nat
      /\ DOMAIN lines = 1 .. Len(lines)
  BY DEF ReplyInv
<1>1. CASE GetLine
  <2>1. /\ next' = next + 1 /\ data_str' = lines[next] /\ lines' = lines /\ pc' = "loop"
        /\ next \in 1 .. Len(lines) /\ lines[next] # "empty"
    BY <1>1, <1>t DEF GetLine
  <2> QED
    BY <1>t, <2>1 DEF ReplyInv
<1>2. CASE LoopEnds
  BY <1>2, <1>t DEF LoopEnds, ReplyInv
<1>3. CASE OnData
  BY <1>3, <1>t DEF OnData, ReplyInv
<1>4. CASE UNCHANGED replyVars
  BY <1>4 DEF replyVars, ReplyInv
<1> QED
  BY <1>1, <1>2, <1>3, <1>4 DEF ReplyNext

(* on_read posts the line before the first empty one, or the last of all,  *)
(* for replies of any length.                                              *)
THEOREM LastLineBeforeGapHolds == ReplySpec => []LastLineBeforeGap
<1>1. ReplyInv => LastLineBeforeGap
  <2> SUFFICES ASSUME ReplyInv, pc # "loop" PROVE LastLineBeforeGap
    BY DEF LastLineBeforeGap
  <2>t. lines \in Seq(Line) /\ next \in 1 .. Len(lines) + 1 /\ Len(lines) \in Nat
        /\ DOMAIN lines = 1 .. Len(lines)
    BY DEF ReplyInv
  <2>1. CASE next = 1
    <3>1. data_str = "empty" /\ (lines = <<>> \/ lines[1] = "empty")
      BY <2>1, <2>t DEF ReplyInv
    <3> QED
      BY <3>1 DEF LastLineBeforeGap
  <2>2. CASE next # 1
    <3> DEFINE n == next - 1
    <3>1. n \in DOMAIN lines /\ data_str = lines[n] /\ n + 1 = next
      BY <2>2, <2>t DEF ReplyInv
    <3>2. \A i \in 1 .. n : lines[i] # "empty"
      BY <2>2, <2>t DEF ReplyInv
    <3>3. n < Len(lines) => lines[n + 1] = "empty"
      BY <2>2, <2>t DEF ReplyInv
    <3> QED
      BY <3>1, <3>2, <3>3 DEF LastLineBeforeGap
  <2> QED
    BY <2>1, <2>2
<1> QED
  BY <1>1, ReplyInvInit, ReplyInvNext, PTL DEF ReplySpec

-----------------------------------------------------------------------------
(* u has the lines of s and, behind them, those of t.                      *)
IsBehind(u, s, t) ==
  /\ u \in Seq(Line)
  /\ Len(u) = Len(s) + Len(t)
  /\ \A i \in 1 .. Len(s) : u[i] = s[i]
  /\ \A i \in 1 .. Len(t) : u[Len(s) + i] = t[i]

LEMMA BehindEachOther ==
  ASSUME NEW s \in Seq(Line), NEW t \in Seq(Line), NEW u, u = s \o t
  PROVE  IsBehind(u, s, t)
<1>1. /\ u \in Seq(Line)
      /\ Len(u) = Len(s) + Len(t)
      /\ \A i \in 1 .. Len(s) : u[i] = s[i]
  OBVIOUS
<1>2. ASSUME NEW i \in 1 .. Len(t)
      PROVE  u[Len(s) + i] = t[i]
  <2>1. /\ Len(s) \in Nat /\ Len(t) \in Nat
        /\ Len(s) + i \in 1 .. Len(s) + Len(t)
        /\ ~ Len(s) + i <= Len(s)
        /\ (Len(s) + i) - Len(s) = i
    OBVIOUS
  <2>2. \A j \in 1 .. Len(s) + Len(t) : ~ j <= Len(s) => u[j] = t[j - Len(s)]
    OBVIOUS
  <2> QED
    BY <2>1, <2>2, Zenon
<1> QED
  BY <1>1, <1>2 DEF IsBehind

(* What a whole reply has line by line: three headers, the body, the end.  *)
HasLines(l, b, f) ==
  /\ Len(l) = IF f = "length" THEN 3 + Len(b) ELSE 5 + Len(b)
  /\ \A i \in 1 .. 3 : l[i] \in {"text", "CR"}
  /\ \A m \in 1 .. Len(b) : l[3 + m] = b[m]
  /\ f = "chunked" => l[4 + Len(b)] = "number" /\ l[5 + Len(b)] = "CR"

LEMMA WholeLines ==
  ASSUME NEW b \in Seq(Line), NEW f \in Framing
  PROVE  HasLines(Whole(f, b), b, f)
<1> DEFINE rest == b \o End(f)
           l == Whole(f, b)
<1>1. Headers \in Seq(Line) /\ Len(Headers) = 3 /\ \A i \in 1 .. 3 : Headers[i] \in {"text", "CR"}
  BY DEF Headers, Line
<1>2. IsBehind(rest, b, End(f))
  BY EndIsLines, BehindEachOther, Zenon
<1>3. rest \in Seq(Line) /\ l = Headers \o rest
  BY <1>2 DEF IsBehind, Whole
<1> HIDE DEF rest, l
<1>4. IsBehind(l, Headers, rest)
  BY <1>1, <1>3, BehindEachOther, Zenon
<1>5. Len(b) \in Nat /\ Len(End(f)) \in Nat /\ Len(rest) = Len(b) + Len(End(f))
  BY <1>2, EndIsLines DEF IsBehind
<1>e. Len(End(f)) = IF f = "length" THEN 0 ELSE 2
  <2>1. CASE f = "length"
    BY <2>1, EndIsLines
  <2>2. CASE f = "chunked"
    BY <2>2, EndIsLines
  <2> QED
    BY <2>1, <2>2 DEF Framing
<1>6. Len(l) = 3 + Len(rest) /\ \A i \in 1 .. 3 : l[i] \in {"text", "CR"}
  BY <1>1, <1>4, <1>5 DEF IsBehind
<1>7. ASSUME NEW m \in 1 .. Len(b)
      PROVE  l[3 + m] = b[m]
  <2>1. m \in 1 .. Len(rest)
    BY <1>5
  <2> QED
    BY <2>1, <1>1, <1>2, <1>4 DEF IsBehind
<1>8. ASSUME f = "chunked"
      PROVE  l[4 + Len(b)] = "number" /\ l[5 + Len(b)] = "CR"
  <2>1. Len(End(f)) = 2 /\ End(f)[1] = "number" /\ End(f)[2] = "CR"
    BY <1>8, EndIsLines
  <2>2. Len(b) + 1 \in 1 .. Len(rest) /\ Len(b) + 2 \in 1 .. Len(rest)
        /\ 1 \in 1 .. 2 /\ 2 \in 1 .. 2
        /\ 3 + (Len(b) + 1) = 4 + Len(b) /\ 3 + (Len(b) + 2) = 5 + Len(b)
    BY <1>5, <2>1
  <2>3. rest[Len(b) + 1] = "number" /\ rest[Len(b) + 2] = "CR"
    BY <1>2, <2>1, <2>2 DEF IsBehind
  <2>4. l[3 + (Len(b) + 1)] = rest[Len(b) + 1] /\ l[3 + (Len(b) + 2)] = rest[Len(b) + 2]
    BY <1>1, <1>4, <2>2 DEF IsBehind
  <2> QED
    BY <2>2, <2>3, <2>4
<1>9. Len(l) = IF f = "length" THEN 3 + Len(b) ELSE 5 + Len(b)
  BY <1>5, <1>6, <1>e
<1> QED
  BY <1>6, <1>7, <1>8, <1>9 DEF HasLines, l

-----------------------------------------------------------------------------
(* The loop stops at line k of l: the first that is empty, or the end.     *)
StopsAt(k, l) ==
  /\ l \in Seq(Line)
  /\ k \in 1 .. Len(l) + 1
  /\ \A i \in 1 .. k - 1 : l[i] # "empty"
  /\ k = Len(l) + 1 \/ l[k] = "empty"

(* What the parser makes more than null of.                                *)
Readable == {"json", "number"}

(* The line before k is a c.                                               *)
LineBefore(l, k, c) == k # 1 /\ l[k - 1] = c

(* Line n of the body is a c that the loop keeps.                          *)
KeptLine(b, f, n, c) ==
  /\ b[n] = c
  /\ \A i \in 1 .. n : b[i] # "empty"
  /\ IF n < Len(b) THEN b[n + 1] = "empty" ELSE f = "length"

(* Where the loop stops in a whole reply: a document or a number before it *)
(* is a line of the body, at its end or before an empty line.              *)
LEMMA WholeRead ==
  ASSUME NEW b \in Seq(Line), NEW f \in Framing,
         NEW l, l = Whole(f, b), NEW k, StopsAt(k, l),
         NEW c \in Readable
  PROVE  LineBefore(l, k, c) <=>
           \E n \in 1 .. Len(b) : KeptLine(b, f, n, c)
<1>1. /\ Len(b) \in Nat
      /\ Len(l) = IF f = "length" THEN 3 + Len(b) ELSE 5 + Len(b)
      /\ \A i \in 1 .. 3 : l[i] \in {"text", "CR"}
      /\ \A m \in 1 .. Len(b) : l[3 + m] = b[m]
      /\ f = "chunked" => l[4 + Len(b)] = "number" /\ l[5 + Len(b)] = "CR"
  <2>1. Len(b) \in Nat
    OBVIOUS
  <2>2. HasLines(l, b, f)
    BY WholeLines, Zenon
  <2> QED
    BY <2>1, <2>2, Zenon DEF HasLines
<1>c. c \in {"json", "number"} /\ f \in {"length", "chunked"}
  BY DEF Readable, Framing
<1>2. /\ k \in 1 .. Len(l) + 1
      /\ \A i \in 1 .. k - 1 : l[i] # "empty"
      /\ k = Len(l) + 1 \/ l[k] = "empty"
  BY DEF StopsAt
<1>3. ASSUME k # 1, l[k - 1] = c
      PROVE  \E n \in 1 .. Len(b) : KeptLine(b, f, n, c)
  <2>1. k - 1 \in 4 .. Len(l)
    <3>1. k - 1 \notin 1 .. 3
      BY <1>1, <1>3, <1>c
    <3> QED
      BY <3>1, <1>1, <1>2, <1>3
  <2>2. k - 1 <= 3 + Len(b)
    <3>1. CASE f = "length"
      BY <3>1, <2>1, <1>1
    <3>2. CASE f = "chunked"
      <4>1. k - 1 # 5 + Len(b)
        BY <3>2, <1>1, <1>3, <1>c
      <4>2. k - 1 # 4 + Len(b)
        <5>1. k = 5 + Len(b) => l[k] = "CR" /\ k # Len(l) + 1
          BY <3>2, <1>1
        <5> QED
          BY <5>1, <1>1, <1>2
      <4> QED
        BY <3>2, <4>1, <4>2, <2>1, <1>1, <1>2
    <3> QED
      BY <3>1, <3>2, <1>c
  <2>3. /\ k - 4 \in 1 .. Len(b) /\ 3 + (k - 4) = k - 1
        /\ (k - 4) + 1 = k - 3 /\ 3 + (k - 3) = k
    BY <1>1, <1>2, <2>1, <2>2
  <2>4. b[k - 4] = c
    BY <1>1, <1>3, <2>3
  <2>5. ASSUME NEW i \in 1 .. k - 4
        PROVE  b[i] # "empty"
    <3>1. i \in 1 .. Len(b) /\ 3 + i \in 1 .. k - 1
      BY <1>1, <2>1, <2>3
    <3> QED
      BY <3>1, <1>1, <1>2
  <2>6. IF k - 4 < Len(b) THEN b[(k - 4) + 1] = "empty" ELSE f = "length"
    <3>1. CASE k - 4 < Len(b)
      <4>1. k - 3 \in 1 .. Len(b) /\ k # Len(l) + 1
        BY <3>1, <1>1, <2>3
      <4>2. l[k] = b[k - 3]
        BY <4>1, <1>1, <2>3
      <4> QED
        BY <3>1, <4>1, <4>2, <1>2, <2>3
    <3>2. CASE ~ (k - 4 < Len(b))
      <4>1. k = 4 + Len(b)
        BY <3>2, <1>1, <2>3
      <4>2. f = "chunked" => l[k] = "number" /\ k # Len(l) + 1
        BY <4>1, <1>1
      <4> QED
        BY <3>2, <4>2, <1>2, <1>c
    <3> QED
      BY <3>1, <3>2
  <2> QED
    BY <2>3, <2>4, <2>5, <2>6 DEF KeptLine
<1>4. ASSUME NEW n \in 1 .. Len(b), KeptLine(b, f, n, c)
      PROVE  k # 1 /\ l[k - 1] = c
  <2>k. /\ b[n] = c
        /\ \A i \in 1 .. n : b[i] # "empty"
        /\ IF n < Len(b) THEN b[n + 1] = "empty" ELSE f = "length"
    BY <1>4 DEF KeptLine
  <2>1. ASSUME NEW i \in 1 .. 3 + n
        PROVE  l[i] # "empty"
    <3>1. CASE i \in 1 .. 3
      BY <3>1, <1>1
    <3>2. CASE i \notin 1 .. 3
      <4>1. i - 3 \in 1 .. n /\ i - 3 \in 1 .. Len(b) /\ 3 + (i - 3) = i
        BY <3>2, <1>1
      <4> QED
        BY <4>1, <1>1, <2>k
    <3> QED
      BY <3>1, <3>2
  <2>2. k >= 4 + n
    BY <2>1, <1>1, <1>2
  <2>3. k <= 4 + n
    <3>1. CASE ~ (n < Len(b))
      BY <3>1, <1>1, <1>2, <2>k
    <3>2. CASE n < Len(b)
      <4>1. l[4 + n] = "empty"
        <5>1. n + 1 \in 1 .. Len(b) /\ 3 + (n + 1) = 4 + n
          BY <3>2, <1>1
        <5> QED
          BY <5>1, <3>2, <1>1, <2>k
      <4> QED
        BY <4>1, <1>1, <1>2
    <3> QED
      BY <3>1, <3>2
  <2>4. k - 1 = 3 + n /\ k # 1
    BY <2>2, <2>3, <1>1, <1>2
  <2> QED
    BY <2>4, <1>1, <2>k
<1> QED
  BY <1>3, <1>4 DEF LineBefore

(* Where the loop is, what reply it is in, and what the parser made of it. *)
ReadInv ==
  /\ ReplyInv
  /\ framing \in Framing
  /\ body \in Body
  /\ pc = "cached" => json = Parsed(data_str)

(* For bodies of any length and any number of chunks: a whole reply is     *)
(* read, and not taken for null or for a number, just if its document is   *)
(* the last line of a body of given length, or an empty line follows it in *)
(* the body.                                                               *)
THEOREM WhichRepliesAreReadHolds == ReplySpec => []WhichRepliesAreRead
<1>1. ReplyInit => ReadInv
  BY ReplyInvInit DEF ReplyInit, ReadInv
<1>2. ReadInv /\ [ReplyNext]_replyVars => ReadInv'
  <2> SUFFICES ASSUME ReadInv, [ReplyNext]_replyVars PROVE ReadInv'
    OBVIOUS
  <2>1. ReplyInv'
    BY ReplyInvNext DEF ReadInv
  <2>2. framing' = framing /\ body' = body
    BY DEF ReplyNext, GetLine, LoopEnds, OnData, replyVars
  <2>3. pc' = "cached" => json' = Parsed(data_str')
    BY DEF ReadInv, ReplyNext, GetLine, LoopEnds, OnData, replyVars
  <2> QED
    BY <2>1, <2>2, <2>3 DEF ReadInv
<1>3. ReadInv => WhichRepliesAreRead
  <2> SUFFICES ASSUME ReadInv, pc = "cached", lines = Whole(framing, body)
               PROVE  /\ json = "object" <=> \E n \in DOMAIN body : body[n] = "json" /\ Kept(n)
                      /\ json = "number" <=> \E n \in DOMAIN body : body[n] = "number" /\ Kept(n)
    BY DEF WhichRepliesAreRead
  <2>1. body \in Seq(Line) /\ framing \in Framing
    BY ReplyAssumption DEF ReadInv
  <2>2. StopsAt(next, lines)
    BY DEF ReadInv, ReplyInv, StopsAt
  <2>3. /\ json = "object" <=> (next # 1 /\ lines[next - 1] = "json")
        /\ json = "number" <=> (next # 1 /\ lines[next - 1] = "number")
    BY DEF ReadInv, ReplyInv, Parsed
  <2>4. DOMAIN body = 1 .. Len(body)
    BY <2>1
  <2>5. ASSUME NEW c \in Readable
        PROVE  (next # 1 /\ lines[next - 1] = c) <=>
                 \E n \in DOMAIN body : body[n] = c /\ Kept(n)
    <3>1. LineBefore(lines, next, c) <=>
            \E n \in 1 .. Len(body) : KeptLine(body, framing, n, c)
      BY <2>1, <2>2, WholeRead, Zenon
    <3> QED
      BY <3>1, <2>4 DEF Kept, KeptLine, LineBefore
  <2>6. "json" \in Readable /\ "number" \in Readable
    BY DEF Readable
  <2> QED
    BY <2>3, <2>5, <2>6
<1> QED
  BY <1>1, <1>2, <1>3, PTL DEF ReplySpec
===========================================================================
