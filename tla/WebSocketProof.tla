---------------------------- MODULE WebSocketProof ----------------------------
(***************************************************************************)
(* Theorems about WebSocketHandler, for any frames, any number of them,    *)
(* and a connection that may fail at any step.                             *)
(***************************************************************************)
EXTENDS WebSocketHandler, SequenceTheorems, TLAPS

(* The handlers are told apart by what they run.                           *)
LEMMA HandlersDiffer ==
  /\ Start.run = "start"
  /\ \A o, ec : Completion(o, ec).run = o /\ Completion(o, ec).ec = ec
  /\ \A d : OnData(d).run = "on_data" /\ OnData(d).data = d
  /\ "on_data" \notin Operation /\ "start" \notin Operation /\ "read" \in Operation
  /\ "none" \notin Operation
BY DEF Start, Completion, OnData, Operation

(* The first handler and the others, in each shape of the io_context.      *)
LEMMA ShapeHead ==
  ASSUME NEW h, NEW g
  PROVE  /\ <<h>> # <<>> /\ Head(<<h>>) = h /\ Tail(<<h>>) = <<>>
         /\ <<h, g>> # <<>> /\ Head(<<h, g>>) = h /\ Tail(<<h, g>>) = <<g>>
         /\ Append(<<>>, h) = <<h>> /\ Append(<<h>>, g) = <<h, g>>
<1>1. <<h>> # <<>> /\ Head(<<h>>) = h /\ Tail(<<h>>) = <<>>
  OBVIOUS
<1>2. <<h, g>> # <<>> /\ Head(<<h, g>>) = h
  OBVIOUS
<1>3. Tail(<<h, g>>) = <<g>>
  OBVIOUS
<1>4. Append(<<>>, h) = <<h>>
  OBVIOUS
<1>5. Append(<<h>>, g) = <<h, g>>
  <2> DEFINE S == {h, g}
            s == <<h>>
            t == <<h, g>>
  <2>1. s \in Seq(S) /\ t \in Seq(S) /\ g \in S
    OBVIOUS
  <2>2. Len(s) = 1 /\ s[1] = h /\ Len(t) = 2 /\ t[1] = h /\ t[2] = g
    OBVIOUS
  <2> HIDE DEF S, s, t
  <2>3. /\ Append(s, g) \in Seq(S) /\ Len(Append(s, g)) = 2
        /\ Append(s, g)[1] = h /\ Append(s, g)[2] = g
    <3>1. /\ Append(s, g) \in Seq(S)
          /\ Len(Append(s, g)) = Len(s) + 1
          /\ Append(s, g)[Len(s) + 1] = g
          /\ \A i \in 1 .. Len(s) : Append(s, g)[i] = s[i]
      BY <2>1, AppendProperties
    <3> QED
      BY <2>2, <3>1
  <2>4. \A i \in 1 .. 2 : Append(s, g)[i] = t[i]
    BY <2>2, <2>3
  <2>5. Append(s, g) = t
    BY <2>1, <2>2, <2>3, <2>4, SeqEqual
  <2> QED
    BY <2>5 DEF s, t
<1> QED
  BY <1>1, <1>2, <1>3, <1>4, <1>5

(* Frames that move on keep their place.                                   *)
LEMMA FramesMove ==
  ASSUME NEW s \in Seq(Frame), NEW w \in Seq(Frame), NEW f \in Frame
  PROVE  /\ s \o <<>> = s
         /\ s \o <<f>> \in Seq(Frame)
         /\ s \o Append(w, f) = Append(s \o w, f)
         /\ w # <<>> => /\ Head(w) \in Frame /\ Tail(w) \in Seq(Frame)
                        /\ (s \o <<Head(w)>>) \o Tail(w) = s \o w
<1>1. s \o <<>> = s
  OBVIOUS
<1>2. s \o <<f>> \in Seq(Frame)
  OBVIOUS
<1>3. s \o Append(w, f) = Append(s \o w, f)
  OBVIOUS
<1>4. ASSUME w # <<>>
      PROVE  /\ Head(w) \in Frame
             /\ Tail(w) \in Seq(Frame)
             /\ (s \o <<Head(w)>>) \o Tail(w) = s \o w
  <2>1. Head(w) \in Frame /\ Tail(w) \in Seq(Frame)
    BY <1>4
  <2>2. (s \o <<Head(w)>>) \o Tail(w) = s \o w
    BY <1>4
  <2> QED
    BY <2>1, <2>2
<1> QED
  BY <1>1, <1>2, <1>3, <1>4

(* run() has posted its handler.                                           *)
LEMMA WsInvInit == WsInit => WsInv
<1> SUFFICES ASSUME WsInit PROVE WsInv
  OBVIOUS
<1>1. ready = <<Start>> /\ Head(ready) = Start
  BY ShapeHead DEF WsInit
<1>2. Pending = <<>>
  BY <1>1, HandlersDiffer DEF Pending
<1>3. handled = <<>> /\ buffer = <<>> /\ wire = <<>> /\ arrived = <<>> /\ op = "none" /\ failed = FALSE
  BY DEF WsInit
<1>4. FramesInOrder /\ terminated = FALSE
  BY <1>2, <1>3 DEF FramesInOrder, WsInit
<1>5. handled \in Seq(Frame \ Unnumbered) /\ wire \in Seq(Frame)
  BY <1>3
<1> QED
  BY <1>1, <1>3, <1>4, <1>5 DEF WsInv, WsShape

(* What the first handler may be, and what is behind it.                   *)
LEMMA ShapeCases ==
  ASSUME WsShape
  PROVE  /\ op # "none" =>
              \/ ready = <<>> /\ buffer = <<>> /\ Pending = <<>>
              \/ \E f \in Frame : /\ ready = <<OnData(<<f>>)>> /\ op = "read"
                                  /\ buffer = <<>> /\ Pending = <<f>>
         /\ Runs(Start) => ready = <<Start>> /\ op = "none" /\ buffer = <<>> /\ Pending = <<>>
         /\ \A o \in Operation, ec \in BOOLEAN :
              Runs(Completion(o, ec)) => /\ ready = <<Completion(o, ec)>> /\ op = "none"
                                         /\ BufferFor(o, ec) /\ Pending = <<>>
         /\ ready # <<>> /\ Head(ready).run = "on_data" =>
              \E f \in Frame :
                /\ Head(ready).data = <<f>> /\ Pending = <<f>>
                /\ \/ Tail(ready) = <<>> /\ op = "read" /\ buffer = <<>>
                   \/ \E ec \in BOOLEAN : /\ Tail(ready) = <<Completion("read", ec)>>
                                          /\ op = "none" /\ BufferFor("read", ec)
<1>d. \A o \in Operation : o # "on_data" /\ o # "start" /\ o # "none"
  BY HandlersDiffer
<1>1. CASE ready = <<>> /\ buffer = <<>>
  BY <1>1 DEF Runs, Pending
<1>2. CASE ready = <<Start>> /\ op = "none" /\ buffer = <<>>
  <2>1. ready # <<>> /\ Head(ready) = Start
    BY <1>2, ShapeHead
  <2>2. Start.run # "on_data" /\ \A o \in Operation : \A ec : Completion(o, ec) # Start
    BY <1>d, HandlersDiffer
  <2> QED
    BY <1>2, <2>1, <2>2 DEF Runs, Pending
<1>3. ASSUME NEW o \in Operation, NEW ec \in BOOLEAN,
             ready = <<Completion(o, ec)>>, op = "none", BufferFor(o, ec)
      PROVE  /\ ~ Runs(Start)
             /\ Pending = <<>>
             /\ Head(ready).run # "on_data"
             /\ \A p \in Operation, ed \in BOOLEAN :
                  Runs(Completion(p, ed)) => p = o /\ ed = ec
  <2>1. ready # <<>> /\ Head(ready) = Completion(o, ec)
    BY <1>3, ShapeHead
  <2>2. Completion(o, ec).run = o /\ Completion(o, ec).run # "on_data"
        /\ Completion(o, ec) # Start
    BY <1>d, HandlersDiffer
  <2>3. \A p \in Operation, ed \in BOOLEAN :
          Completion(p, ed) = Completion(o, ec) => p = o /\ ed = ec
    BY DEF Completion
  <2> QED
    BY <2>1, <2>2, <2>3 DEF Runs, Pending
<1>4. ASSUME NEW f \in Frame, NEW t, ready # <<>>, Head(ready) = OnData(<<f>>), Tail(ready) = t
      PROVE  /\ ~ Runs(Start)
             /\ \A o \in Operation, ec \in BOOLEAN : ~ Runs(Completion(o, ec))
             /\ Pending = <<f>> /\ Head(ready).data = <<f>>
  <2>1. OnData(<<f>>).run = "on_data" /\ OnData(<<f>>).data = <<f>>
    BY HandlersDiffer
  <2>2. OnData(<<f>>) # Start /\ \A o \in Operation : \A ec : OnData(<<f>>) # Completion(o, ec)
    BY <2>1, <1>d, HandlersDiffer
  <2> QED
    BY <1>4, <2>1, <2>2 DEF Runs, Pending
<1>5. CASE \E o \in Operation, ec \in BOOLEAN :
             ready = <<Completion(o, ec)>> /\ op = "none" /\ BufferFor(o, ec)
  BY <1>3, <1>5
<1>6. CASE \E f \in Frame : ready = <<OnData(<<f>>)>> /\ op = "read" /\ buffer = <<>>
  <2>1. PICK f \in Frame : ready = <<OnData(<<f>>)>> /\ op = "read" /\ buffer = <<>>
    BY <1>6
  <2>2. ready # <<>> /\ Head(ready) = OnData(<<f>>) /\ Tail(ready) = <<>>
    BY <2>1, ShapeHead
  <2> QED
    BY <1>4, <2>1, <2>2
<1>7. CASE \E f \in Frame, ec \in BOOLEAN :
             /\ ready = <<OnData(<<f>>), Completion("read", ec)>>
             /\ op = "none" /\ BufferFor("read", ec)
  <2>1. PICK f \in Frame, ec \in BOOLEAN :
          /\ ready = <<OnData(<<f>>), Completion("read", ec)>>
          /\ op = "none" /\ BufferFor("read", ec)
    BY <1>7
  <2>2. /\ ready # <<>> /\ Head(ready) = OnData(<<f>>)
        /\ Tail(ready) = <<Completion("read", ec)>>
    BY <2>1, ShapeHead
  <2> QED
    BY <1>4, <2>1, <2>2
<1> QED
  BY <1>1, <1>2, <1>5, <1>6, <1>7 DEF WsShape

(* An operation that completes adds its callback behind an on_data that    *)
(* the io_context may hold; only a read leaves a frame.                    *)
LEMMA CompletionKeepsShape ==
  ASSUME WsShape, NEW o \in Operation, NEW ec \in BOOLEAN, op = o,
         ready' = Append(ready, Completion(o, ec)), op' = "none",
         BufferFor(o, ec)'
  PROVE  WsShape' /\ Pending' = Pending
<1>o. o # "none"
  BY HandlersDiffer
<1>1. CASE ready = <<>> /\ buffer = <<>> /\ Pending = <<>>
  <2>1. ready' = <<Completion(o, ec)>>
    BY <1>1, ShapeHead
  <2>2. ready' # <<>> /\ Head(ready') = Completion(o, ec) /\ Completion(o, ec).run # "on_data"
    BY <1>o, <2>1, HandlersDiffer, ShapeHead
  <2>3. Pending' = <<>>
    BY <2>2 DEF Pending
  <2> QED
    BY <1>1, <2>1, <2>3 DEF WsShape, BufferFor
<1>2. ASSUME NEW f \in Frame, ready = <<OnData(<<f>>)>>, op = "read", Pending = <<f>>
      PROVE  WsShape' /\ Pending' = Pending
  <2>0. Append(<<OnData(<<f>>)>>, Completion("read", ec)) = <<OnData(<<f>>), Completion("read", ec)>>
    BY ShapeHead
  <2>1. ready' = <<OnData(<<f>>), Completion("read", ec)>>
    BY <1>2, <2>0
  <2>2. /\ ready' # <<>> /\ Head(ready') = OnData(<<f>>)
        /\ OnData(<<f>>).run = "on_data" /\ OnData(<<f>>).data = <<f>>
    BY <2>1, HandlersDiffer, ShapeHead
  <2>3. Pending' = <<f>>
    BY <2>2 DEF Pending
  <2>4. BufferFor("read", ec)'
    BY <1>2
  <2> QED
    BY <1>2, <2>1, <2>3, <2>4 DEF WsShape
<1> QED
  BY <1>o, <1>1, <1>2, ShapeCases

-----------------------------------------------------------------------------
(* Every operation, error and handler keeps the invariant.                 *)
LEMMA WsInvNext == WsInv /\ [WsNext]_wsVars => WsInv'
<1> SUFFICES ASSUME WsInv, [WsNext]_wsVars PROVE WsInv'
  OBVIOUS
<1>t. /\ op \in Operation \cup {"none"}
      /\ wire \in Seq(Frame)
      /\ handled \in Seq(Frame \ Unnumbered)
      /\ handled \in Seq(Frame)
      /\ failed \in BOOLEAN
      /\ terminated \in BOOLEAN
      /\ terminated => \E f \in Unnumbered : Pending = <<f>>
      /\ WsShape
      /\ arrived = handled \o Pending \o buffer \o wire
  BY DEF WsInv, FramesInOrder
<1>o. "read" \in Operation /\ FALSE \in BOOLEAN /\ TRUE \in BOOLEAN
  BY HandlersDiffer
<1>b. \A o, ec : BufferFor(o, ec)' <=> IF o = "read" /\ ~ ec THEN \E f \in Frame : buffer' = <<f>>
                                                           ELSE buffer' = <<>>
  BY DEF BufferFor
<1>p. Pending \in Seq(Frame) /\ buffer \in Seq(Frame)
  <2>1. /\ Pending = <<>> \/ \E f \in Frame : Pending = <<f>>
        /\ buffer = <<>> \/ \E f \in Frame : buffer = <<f>>
    <3>1. Pending = <<>> \/ \E f \in Frame : Pending = <<f>>
      BY <1>t, ShapeCases DEF Pending
    <3> QED
      BY <1>t, <3>1 DEF WsShape, BufferFor
  <2>2. <<>> \in Seq(Frame) /\ \A f \in Frame : <<f>> \in Seq(Frame)
    OBVIOUS
  <2> QED
    BY <2>1, <2>2
<1>s. handled \o Pending \in Seq(Frame) /\ handled \o Pending \o buffer \in Seq(Frame)
  BY <1>t, <1>p
<1>m. handled \o <<>> = handled /\ \A s \in Seq(Frame) : s \o <<>> = s
  BY <1>t
(* Nothing but ready and op changes, and nothing is left in buffer.        *)
<1>e. ASSUME ~ terminated, ready' = <<>>, buffer' = <<>>, buffer = <<>>, Pending = <<>>,
             op' \in Operation \cup {"none"}, UNCHANGED <<wire, arrived, handled, failed, terminated>>
      PROVE  WsInv'
  <2>1. WsShape' /\ Pending' = <<>>
    BY <1>e DEF WsShape, Pending
  <2> QED
    BY <1>t, <1>e, <2>1 DEF WsInv, FramesInOrder
<1>1. CASE ~ terminated /\ ExchangeSends
  <2>1. PICK f \in Frame : wire' = Append(wire, f) /\ arrived' = Append(arrived, f)
    BY <1>1 DEF ExchangeSends
  <2>2. UNCHANGED <<op, ready, buffer, handled, failed, terminated>>
    BY <1>1 DEF ExchangeSends
  <2>3. WsShape' /\ Pending' = Pending
    BY <1>t, <2>2 DEF WsShape, BufferFor, Pending
  <2>4. /\ Append(wire, f) \in Seq(Frame)
        /\ (handled \o Pending \o buffer) \o Append(wire, f)
              = Append((handled \o Pending \o buffer) \o wire, f)
    BY <1>s, <1>t, FramesMove
  <2>5. FramesInOrder'
    BY <1>1, <1>t, <2>1, <2>2, <2>3, <2>4 DEF FramesInOrder
  <2> QED
    BY <1>1, <1>t, <2>1, <2>2, <2>3, <2>4, <2>5 DEF WsInv
<1>2. CASE ~ terminated /\ Completes
  <2>1. /\ op # "none" /\ op' = "none"
        /\ ready' = Append(ready, Completion(op, FALSE))
        /\ UNCHANGED <<arrived, handled, failed, terminated>>
    BY <1>2 DEF Completes
  <2>2. buffer = <<>>
    BY <1>2, <1>t, <2>1, ShapeCases
  <2>3. CASE op = "read"
    <3>1. wire # <<>> /\ buffer' = Append(buffer, Head(wire)) /\ wire' = Tail(wire)
      BY <1>2, <2>3 DEF Completes
    <3>2. Head(wire) \in Frame /\ wire' \in Seq(Frame) /\ buffer' = <<Head(wire)>>
      BY <1>t, <2>2, <3>1, FramesMove, ShapeHead
    <3>3. WsShape' /\ Pending' = Pending
      BY <1>b, <1>o, <1>t, <2>1, <2>3, <3>2, CompletionKeepsShape
    <3>4. ((handled \o Pending) \o <<Head(wire)>>) \o Tail(wire) = (handled \o Pending) \o wire
      BY <1>s, <1>t, <3>1, <3>2, FramesMove
    <3>5. FramesInOrder'
      BY <1>t, <1>s, <1>m, <2>1, <2>2, <3>1, <3>2, <3>3, <3>4 DEF FramesInOrder
    <3> QED
      BY <1>2, <1>t, <2>1, <3>2, <3>3, <3>5 DEF WsInv
  <2>4. CASE op # "read"
    <3>1. buffer' = <<>> /\ wire' = wire
      BY <1>2, <2>2, <2>4 DEF Completes
    <3>2. WsShape' /\ Pending' = Pending
      BY <1>b, <1>o, <1>t, <2>1, <2>4, <3>1, CompletionKeepsShape
    <3> QED
      BY <1>2, <1>t, <2>1, <2>2, <3>1, <3>2 DEF WsInv, FramesInOrder
  <2> QED
    BY <2>3, <2>4
<1>3. CASE ~ terminated /\ Fails
  <2>1. /\ op # "none" /\ op' = "none" /\ failed' = TRUE
        /\ ready' = Append(ready, Completion(op, TRUE))
        /\ UNCHANGED <<buffer, wire, arrived, handled, terminated>>
    BY <1>3 DEF Fails
  <2>2. buffer = <<>>
    BY <1>3, <1>t, <2>1, ShapeCases
  <2>3. WsShape' /\ Pending' = Pending
    BY <1>b, <1>o, <1>t, <2>1, <2>2, CompletionKeepsShape
  <2> QED
    BY <1>3, <1>t, <2>1, <2>3 DEF WsInv, FramesInOrder
<1>4. CASE ~ terminated /\ StartResolve
  <2>1. Runs(Start) /\ op' = "resolve" /\ ready' = Tail(ready)
        /\ UNCHANGED <<buffer, wire, arrived, handled, failed, terminated>>
    BY <1>4 DEF StartResolve
  <2>2. ready' = <<>> /\ buffer = <<>> /\ Pending = <<>>
    BY <1>4, <1>t, <2>1, ShapeCases, ShapeHead
  <2>3. op' \in Operation
    BY <2>1 DEF Operation
  <2> QED
    BY <1>4, <1>e, <2>1, <2>2, <2>3
<1>5. CASE ~ terminated /\ OnConnecting
  <2>1. PICK o \in DOMAIN NextOperation :
          Runs(Completion(o, FALSE)) /\ op' = NextOperation[o]
    BY <1>5 DEF OnConnecting
  <2>2. o \in Operation /\ o # "read" /\ op' \in Operation
    BY <2>1 DEF NextOperation, Operation
  <2>3. ready' = Tail(ready) /\ UNCHANGED <<buffer, wire, arrived, handled, failed, terminated>>
    BY <1>5 DEF OnConnecting
  <2>4. ready = <<Completion(o, FALSE)>> /\ BufferFor(o, FALSE) /\ Pending = <<>>
    BY <1>o, <1>t, <2>1, <2>2, ShapeCases
  <2>5. ready' = <<>> /\ buffer = <<>>
    BY <2>2, <2>3, <2>4, ShapeHead DEF BufferFor
  <2> QED
    BY <1>5, <1>e, <2>2, <2>3, <2>4, <2>5
<1>6. CASE ~ terminated /\ OnRead
  <2>1. /\ Runs(Completion("read", FALSE)) /\ op' = "read" /\ buffer' = <<>>
        /\ ready' = Append(Tail(ready), OnData(buffer))
        /\ UNCHANGED <<wire, arrived, handled, failed, terminated>>
    BY <1>6 DEF OnRead
  <2>2. /\ ready = <<Completion("read", FALSE)>> /\ Pending = <<>>
        /\ BufferFor("read", FALSE)
    BY <1>o, <1>t, <2>1, ShapeCases
  <2>3. PICK f \in Frame : buffer = <<f>>
    BY <2>2 DEF BufferFor
  <2>4. ready' = <<OnData(<<f>>)>>
    BY <2>1, <2>2, <2>3, ShapeHead
  <2>5. /\ ready' # <<>> /\ Head(ready') = OnData(<<f>>)
        /\ OnData(<<f>>).run = "on_data" /\ OnData(<<f>>).data = <<f>>
    BY <2>4, HandlersDiffer, ShapeHead
  <2>6. Pending' = <<f>> /\ WsShape'
    BY <2>1, <2>4, <2>5 DEF Pending, WsShape
  <2>7. handled \o <<>> = handled /\ (handled \o <<f>>) \o <<>> = handled \o <<f>>
    BY <1>t
  <2>8. FramesInOrder'
    BY <1>6, <1>t, <2>1, <2>2, <2>3, <2>6, <2>7 DEF FramesInOrder
  <2> QED
    BY <1>6, <1>o, <1>t, <2>1, <2>6, <2>8 DEF WsInv
<1>7. CASE ~ terminated /\ OnError
  <2>1. PICK o \in Operation : Runs(Completion(o, TRUE))
    BY <1>7 DEF OnError
  <2>2. ready' = Tail(ready) /\ UNCHANGED <<op, buffer, wire, arrived, handled, failed, terminated>>
    BY <1>7 DEF OnError
  <2>3. ready = <<Completion(o, TRUE)>> /\ BufferFor(o, TRUE) /\ Pending = <<>>
    BY <1>o, <1>t, <2>1, ShapeCases
  <2>4. ready' = <<>> /\ buffer = <<>>
    BY <2>2, <2>3, ShapeHead DEF BufferFor
  <2> QED
    BY <1>7, <1>e, <1>t, <2>2, <2>3, <2>4
<1>8. CASE ~ terminated /\ HandleData
  <2>1. /\ ready # <<>> /\ Head(ready).run = "on_data"
        /\ Numbered(Head(ready).data)
        /\ handled' = handled \o Head(ready).data /\ ready' = Tail(ready)
        /\ UNCHANGED <<op, buffer, wire, arrived, failed, terminated>>
    BY <1>8 DEF HandleData
  <2>2. PICK f \in Frame :
          /\ Head(ready).data = <<f>> /\ Pending = <<f>>
          /\ \/ Tail(ready) = <<>> /\ op = "read" /\ buffer = <<>>
             \/ \E ec \in BOOLEAN : /\ Tail(ready) = <<Completion("read", ec)>>
                                    /\ op = "none" /\ BufferFor("read", ec)
    BY <1>8, <1>t, <2>1, ShapeCases
  <2>3. WsShape' /\ Pending' = <<>>
    <3>1. CASE Tail(ready) = <<>> /\ buffer = <<>>
      BY <2>1, <3>1 DEF WsShape, Pending
    <3>2. ASSUME NEW ec \in BOOLEAN, Tail(ready) = <<Completion("read", ec)>>,
                 op = "none", BufferFor("read", ec)
          PROVE  WsShape' /\ Pending' = <<>>
      <4>1. ready' = <<Completion("read", ec)>> /\ op' = "none" /\ BufferFor("read", ec)'
        BY <2>1, <3>2 DEF BufferFor
      <4>2. Head(ready') = Completion("read", ec) /\ Completion("read", ec).run # "on_data"
        BY <1>o, <4>1, HandlersDiffer, ShapeHead
      <4> QED
        BY <1>o, <4>1, <4>2 DEF WsShape, Pending
    <3> QED
      BY <2>2, <3>1, <3>2
  <2>4. /\ handled' = handled \o <<f>> /\ handled' \in Seq(Frame)
        /\ handled' \o <<>> = handled \o <<f>>
    <3>1. handled \o <<f>> \in Seq(Frame) /\ (handled \o <<f>>) \o <<>> = handled \o <<f>>
      BY <1>t, <1>m
    <3>2. handled' = handled \o <<f>>
      BY <2>1, <2>2
    <3> QED
      BY <3>1, <3>2
  <2>6. handled' \in Seq(Frame \ Unnumbered)
    <3> DEFINE N == Frame \ Unnumbered
    <3>1. f \in N
      <4>1. DOMAIN <<f>> = {1} /\ <<f>>[1] = f
        OBVIOUS
      <4>2. <<f>>[1] \notin Unnumbered
        BY <2>1, <2>2, <4>1 DEF Numbered
      <4> QED
        BY <4>1, <4>2
    <3>2. handled \in Seq(N)
      BY <1>t
    <3> HIDE DEF N
    <3>3. handled \o <<f>> \in Seq(N)
      BY <3>1, <3>2
    <3> QED
      BY <2>4, <3>3 DEF N
  <2>5. FramesInOrder'
    BY <1>8, <1>t, <2>1, <2>2, <2>3, <2>4 DEF FramesInOrder
  <2> QED
    BY <1>8, <1>t, <2>1, <2>3, <2>4, <2>5, <2>6 DEF WsInv
<1>9. CASE HandleDataThrows
  <2>1. /\ ready # <<>> /\ Head(ready).run = "on_data"
        /\ ~ Numbered(Head(ready).data) /\ terminated' = TRUE
        /\ UNCHANGED <<op, ready, buffer, wire, arrived, handled, failed>>
    BY <1>9 DEF HandleDataThrows
  <2>2. PICK f \in Frame : Head(ready).data = <<f>> /\ Pending = <<f>>
    BY <1>t, <2>1, ShapeCases
  <2>3. f \in Unnumbered
    <3>1. \A i \in DOMAIN <<f>> : <<f>>[i] = f
      OBVIOUS
    <3> QED
      BY <2>1, <2>2, <3>1 DEF Numbered
  <2>4. Pending' = Pending /\ WsShape' /\ FramesInOrder'
    BY <1>t, <2>1 DEF Pending, WsShape, BufferFor, FramesInOrder
  <2> QED
    BY <1>t, <2>1, <2>2, <2>3, <2>4 DEF WsInv
<1>10. CASE UNCHANGED wsVars
  BY <1>10, <1>t DEF wsVars, WsInv, FramesInOrder, WsShape, BufferFor, Pending
<1> QED
  BY <1>1, <1>2, <1>3, <1>4, <1>5, <1>6, <1>7, <1>8, <1>9, <1>10 DEF WsNext, RunHandler

(* What the io_context holds, handler by handler, in each of its shapes    *)
LEMMA ShapeGives == WsShape => OneOperation /\ OneDataPending
<1> SUFFICES ASSUME WsShape PROVE OneOperation /\ OneDataPending
  OBVIOUS
<1>h. /\ Start.run # "on_data" /\ Start # Completion("read", FALSE)
      /\ \A o \in Operation : \A ec : Completion(o, ec).run # "on_data"
      /\ \A o, ec : Completion(o, ec) = Completion("read", FALSE) => o = "read" /\ ec = FALSE
      /\ \A f : /\ OnData(<<f>>).run = "on_data" /\ OnData(<<f>>) # Completion("read", FALSE)
               /\ Len(OnData(<<f>>).data) = 1
  <2>1. \A o, ec : Completion(o, ec).run = o /\ Completion(o, ec).ec = ec
    BY HandlersDiffer
  <2>2. /\ Start.run = "start" /\ "read" \in Operation
        /\ "start" \notin Operation /\ "on_data" \notin Operation
    BY HandlersDiffer
  <2>3. \A f : OnData(<<f>>).run = "on_data" /\ OnData(<<f>>).data = <<f>> /\ Len(<<f>>) = 1
    BY HandlersDiffer
  <2>4. Start.run # "on_data" /\ Start # Completion("read", FALSE)
    BY <2>1, <2>2 DEF Start
  <2>5. \A o \in Operation : \A ec : Completion(o, ec).run # "on_data"
    BY <2>1, <2>2
  <2>6. \A o, ec : Completion(o, ec) = Completion("read", FALSE) => o = "read" /\ ec = FALSE
    BY DEF Completion
  <2>7. \A f : OnData(<<f>>).run = "on_data" /\ OnData(<<f>>) # Completion("read", FALSE)
             /\ Len(OnData(<<f>>).data) = 1
    <3>1. Completion("read", FALSE).run = "read" /\ "read" # "on_data"
      BY <2>1
    <3> QED
      BY <2>3, <3>1
  <2> QED
    BY <2>4, <2>5, <2>6, <2>7
<1>1. CASE ready = <<>> /\ buffer = <<>>
  <2>1. DOMAIN ready = {} /\ DataReady = {}
    BY <1>1 DEF DataReady
  <2> QED
    BY <1>1, <2>1 DEF OneOperation, OneDataPending
<1>2. ASSUME NEW h, ready = <<h>>, h.run # "on_data", op = "none",
             buffer # <<>> <=> h = Completion("read", FALSE)
      PROVE  OneOperation /\ OneDataPending
  <2>1. DOMAIN ready = {1} /\ ready[1] = h
    BY <1>2
  <2>2. DataReady = {}
    BY <1>2, <2>1 DEF DataReady
  <2> QED
    BY <1>2, <2>1, <2>2 DEF OneOperation, OneDataPending
<1>3. CASE ready = <<Start>> /\ op = "none" /\ buffer = <<>>
  BY <1>h, <1>2, <1>3
<1>4. CASE \E o \in Operation, ec \in BOOLEAN :
             ready = <<Completion(o, ec)>> /\ op = "none" /\ BufferFor(o, ec)
  <2>1. PICK o \in Operation, ec \in BOOLEAN :
          ready = <<Completion(o, ec)>> /\ op = "none" /\ BufferFor(o, ec)
    BY <1>4
  <2>2. buffer # <<>> <=> o = "read" /\ ~ ec
    BY <2>1 DEF BufferFor
  <2>3. buffer # <<>> <=> Completion(o, ec) = Completion("read", FALSE)
    BY <1>h, <2>2
  <2> QED
    BY <1>h, <1>2, <2>1, <2>3
<1>5. CASE \E f \in Frame : ready = <<OnData(<<f>>)>> /\ op = "read" /\ buffer = <<>>
  <2>1. PICK f \in Frame : ready = <<OnData(<<f>>)>> /\ op = "read" /\ buffer = <<>>
    BY <1>5
  <2>2. DOMAIN ready = {1} /\ ready[1] = OnData(<<f>>)
    BY <2>1
  <2>3. DataReady = {1}
    BY <1>h, <2>2 DEF DataReady
  <2> QED
    BY <1>h, <2>1, <2>2, <2>3 DEF OneOperation, OneDataPending
<1>6. CASE \E f \in Frame, ec \in BOOLEAN :
             /\ ready = <<OnData(<<f>>), Completion("read", ec)>>
             /\ op = "none" /\ BufferFor("read", ec)
  <2>1. PICK f \in Frame, ec \in BOOLEAN :
          /\ ready = <<OnData(<<f>>), Completion("read", ec)>>
          /\ op = "none" /\ BufferFor("read", ec)
    BY <1>6
  <2>2. DOMAIN ready = {1, 2} /\ ready[1] = OnData(<<f>>) /\ ready[2] = Completion("read", ec)
    BY <2>1
  <2>3. Completion("read", ec).run # "on_data"
    BY <1>h, HandlersDiffer
  <2>4. DataReady = {1}
    BY <1>h, <2>2, <2>3 DEF DataReady
  <2>5. buffer # <<>> <=> Completion("read", ec) = Completion("read", FALSE)
    <3>1. buffer # <<>> <=> ec = FALSE
      BY <2>1 DEF BufferFor
    <3>2. Completion("read", ec) = Completion("read", FALSE) <=> ec = FALSE
      BY <1>h
    <3> QED
      BY <3>1, <3>2
  <2> QED
    BY <1>h, <2>1, <2>2, <2>4, <2>5 DEF OneOperation, OneDataPending
<1> QED
  BY <1>1, <1>3, <1>4, <1>5, <1>6 DEF WsShape

(* The io_context, buffer and the socket are always in one of the states   *)
(* of WsShape, with every frame in its place, whatever the exchange sends  *)
(* and wherever the connection fails.                                      *)
THEOREM WsInvariant == WsSpec => []WsInv
BY WsInvInit, WsInvNext, PTL DEF WsSpec

(* Never are two operations under way on the stream, and buffer holds a    *)
(* frame just while on_read is to come.                                    *)
THEOREM OneOperationHolds == WsSpec => []OneOperation
<1>1. WsInv => OneOperation
  BY ShapeGives DEF WsInv
<1> QED
  BY <1>1, WsInvariant, PTL

(* The io_context never holds more than one on_data, of one frame.         *)
THEOREM OneDataPendingHolds == WsSpec => []OneDataPending
<1>1. WsInv => OneDataPending
  BY ShapeGives DEF WsInv
<1> QED
  BY <1>1, WsInvariant, PTL

(* No frame is lost, repeated, merged or overtaken, for any frames and any *)
(* number of them.                                                         *)
THEOREM FramesInOrderHolds == WsSpec => []FramesInOrder
<1>1. WsInv => FramesInOrder
  BY DEF WsInv
<1> QED
  BY <1>1, WsInvariant, PTL
=============================================================================
