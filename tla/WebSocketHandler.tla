-------------------------- MODULE WebSocketHandler --------------------------
(***************************************************************************)
(* The WebSocketHandler of src/websocket.cpp: one connection to the        *)
(* exchange, driven by the handlers that the io_context of its instrument  *)
(* runs one after the other, in the order in which they became ready.      *)
(* Other connections of the instrument have handlers in the same           *)
(* io_context; they share no state with this one, and leaving them out     *)
(* leaves the order of this one's.  Their frames are taken to be numbered: *)
(* one that is not ends the program, see Client.                           *)
(*                                                                         *)
(* An asynchronous operation is started by one handler, completes at some  *)
(* time, with an error or without, and makes its callback ready.           *)
(***************************************************************************)
EXTENDS Integers, Sequences

CONSTANTS
  Frame,      \* the messages that the exchange sends
  Unnumbered, \* those of them that have no numeric "U"
  MaxFrames   \* bound: how many it sends

ASSUME WebSocketAssumption == Unnumbered \subseteq Frame /\ MaxFrames \in Nat

VARIABLES
  op,      \* the operation outstanding on ws_ or resolver_, or "none"
  ready,   \* the handlers posted to io_context_, the next one first
  buffer,  \* the frames in buffer
  wire,    \* the frames that have come to the socket and no read has taken
  arrived, \* history: the frames that have come to the socket
  handled, \* history: the frames that on_data was called with
  failed,  \* history: an operation has completed with an error
  terminated \* an exception has left the io_context's run() and its thread

wsVars == <<op, ready, buffer, wire, arrived, handled, failed, terminated>>

Operation == {"resolve", "connect", "ssl_handshake", "handshake", "read"}

Start == [run |-> "start"]
Completion(o, ec) == [run |-> o, ec |-> ec]
OnData(data) == [run |-> "on_data", data |-> data]

-----------------------------------------------------------------------------
(* run() has posted the handler that starts everything.                    *)
WsInit ==
  /\ op = "none"
  /\ ready = <<Start>>
  /\ buffer = <<>>
  /\ wire = <<>>
  /\ arrived = <<>>
  /\ handled = <<>>
  /\ failed = FALSE
  /\ terminated = FALSE

(* A frame of the exchange comes to the socket, once the connection is up. *)
ExchangeSends ==
  /\ op = "read" \/ \E i \in DOMAIN ready : ready[i].run \in {"read", "on_data"}
  /\ Len(arrived) < MaxFrames
  /\ \E f \in Frame : wire' = Append(wire, f) /\ arrived' = Append(arrived, f)
  /\ UNCHANGED <<op, ready, buffer, handled, failed, terminated>>

(* The operation completes without error; a read puts one frame in buffer. *)
Completes ==
  /\ op # "none"
  /\ IF op = "read"
     THEN /\ wire # <<>>
          /\ buffer' = Append(buffer, Head(wire))
          /\ wire' = Tail(wire)
     ELSE UNCHANGED <<buffer, wire>>
  /\ ready' = Append(ready, Completion(op, FALSE))
  /\ op' = "none"
  /\ UNCHANGED <<arrived, handled, failed, terminated>>

(* The operation completes with an error, which may be that the exchange   *)
(* closed the connection.                                                  *)
Fails ==
  /\ op # "none"
  /\ ready' = Append(ready, Completion(op, TRUE))
  /\ op' = "none"
  /\ failed' = TRUE
  /\ UNCHANGED <<buffer, wire, arrived, handled, terminated>>

(* The io_context runs the next handler, h.                                *)
Runs(h) == ready # <<>> /\ h = Head(ready)

(* The handler that run() posted: resolver_.async_resolve                  *)
StartResolve ==
  /\ Runs(Start)
  /\ op' = "resolve"
  /\ ready' = Tail(ready)
  /\ UNCHANGED <<buffer, wire, arrived, handled, failed, terminated>>

(* What each callback starts when the operation before it has succeeded    *)
NextOperation ==
  [resolve |-> "connect", connect |-> "ssl_handshake",
   ssl_handshake |-> "handshake", handshake |-> "read"]

(* on_resolve, on_connect, on_ssl_handshake and on_handshake without error *)
OnConnecting ==
  /\ \E o \in DOMAIN NextOperation :
       /\ Runs(Completion(o, FALSE))
       /\ op' = NextOperation[o]
  /\ ready' = Tail(ready)
  /\ UNCHANGED <<buffer, wire, arrived, handled, failed, terminated>>

(* Mutants of OnRead: data is a character, not the text; buffer is not     *)
(* consumed; no further read is started.                                   *)
OnReadPart ==
  /\ Runs(Completion("read", FALSE))
  /\ ready' = Append(Tail(ready), OnData(Head(buffer)))
  /\ buffer' = <<>>
  /\ op' = "read"
  /\ UNCHANGED <<wire, arrived, handled, failed, terminated>>

OnReadKeeps ==
  /\ Runs(Completion("read", FALSE))
  /\ ready' = Append(Tail(ready), OnData(buffer))
  /\ op' = "read"
  /\ UNCHANGED <<buffer, wire, arrived, handled, failed, terminated>>

OnReadOnce ==
  /\ Runs(Completion("read", FALSE))
  /\ ready' = Append(Tail(ready), OnData(buffer))
  /\ buffer' = <<>>
  /\ UNCHANGED <<op, wire, arrived, handled, failed, terminated>>

(* on_read without error: copy and consume buffer, post on_data, read on   *)
OnRead ==
  /\ Runs(Completion("read", FALSE))
  /\ ready' = Append(Tail(ready), OnData(buffer))
  /\ buffer' = <<>>
  /\ op' = "read"
  /\ UNCHANGED <<wire, arrived, handled, failed, terminated>>

(* Any of the callbacks with an error: print it and return                 *)
OnError ==
  /\ \E o \in Operation : Runs(Completion(o, TRUE))
  /\ ready' = Tail(ready)
  /\ UNCHANGED <<op, buffer, wire, arrived, handled, failed, terminated>>

(* Mutants of HandleData: on_data starts a read as well; the message is    *)
(* taken for invalid and dropped.                                          *)
HandleDataReads ==
  /\ ready # <<>> /\ Head(ready).run = "on_data"
  /\ handled' = handled \o Head(ready).data
  /\ ready' = Tail(ready)
  /\ op' = "read"
  /\ UNCHANGED <<buffer, wire, arrived, failed, terminated>>

HandleDataDrops ==
  /\ ready # <<>> /\ Head(ready).run = "on_data"
  /\ ready' = Tail(ready)
  /\ UNCHANGED <<op, buffer, wire, arrived, handled, failed, terminated>>

Numbered(frames) == \A i \in DOMAIN frames : frames[i] \notin Unnumbered

(* on_data: parse, and encache                                             *)
HandleData ==
  /\ ready # <<>> /\ Head(ready).run = "on_data"
  /\ Numbered(Head(ready).data)
  /\ handled' = handled \o Head(ready).data
  /\ ready' = Tail(ready)
  /\ UNCHANGED <<op, buffer, wire, arrived, failed, terminated>>

(* on_data of a frame without a numeric "U": encache throws, nobody        *)
(* catches it on the io_context's thread, and the program ends.            *)
HandleDataThrows ==
  /\ ready # <<>> /\ Head(ready).run = "on_data"
  /\ ~ Numbered(Head(ready).data)
  /\ terminated' = TRUE
  /\ UNCHANGED <<op, ready, buffer, wire, arrived, handled, failed>>

RunHandler ==
  \/ StartResolve \/ OnConnecting \/ OnRead \/ OnError
  \/ HandleData \/ HandleDataThrows

WsNext == ~ terminated /\ (ExchangeSends \/ Completes \/ Fails \/ RunHandler)

(* The io_context's thread runs what is ready, and a read completes once   *)
(* there is a frame to read.  Nothing is assumed of the operations before  *)
(* it, which have no timeout: a connection may never come up.              *)
WsFairness ==
  /\ WF_wsVars(~ terminated /\ RunHandler)
  /\ WF_wsVars(~ terminated /\ op = "read" /\ Completes)

WsSpec == WsInit /\ [][WsNext]_wsVars

FairWsSpec == WsSpec /\ WsFairness

-----------------------------------------------------------------------------
DataReady == {i \in DOMAIN ready : ready[i].run = "on_data"}

(* A stream of Boost.Beast allows one read at a time, and buffer is used   *)
(* by the read and by on_read: no second operation is started while one is *)
(* outstanding or its callback is ready, and buffer holds a frame just     *)
(* while on_read is to come.                                               *)
OneOperation ==
  /\ op # "none" => \A i \in DOMAIN ready : i \in DataReady
  /\ \A i, j \in DOMAIN ready \ DataReady : i = j
  /\ buffer # <<>> <=> \E i \in DOMAIN ready : ready[i] = Completion("read", FALSE)

(* A frame that has been read is handed to on_data before the next one is  *)
(* taken out of the buffer: the io_context never holds more than one       *)
(* on_data of this connection, of one frame, however fast the exchange     *)
(* sends.                                                                  *)
OneDataPending ==
  /\ \A i, j \in DataReady : i = j
  /\ \A i \in DataReady : Len(ready[i].data) = 1

(* The frame that is in the io_context                                     *)
Pending == IF ready # <<>> /\ Head(ready).run = "on_data" THEN Head(ready).data ELSE <<>>

(* Every frame goes to on_data once, in the order of the exchange: none is *)
(* lost, repeated or merged with another between the socket, buffer and    *)
(* the io_context, also when the connection fails later.                   *)
FramesInOrder == arrived = handled \o Pending \o buffer \o wire

(***************************************************************************)
(* The inductive invariant behind these: what may be in the io_context,    *)
(* and which operation may be outstanding then.  A frame and the read      *)
(* after it alternate between the two ends of this table.                  *)
(***************************************************************************)
BufferFor(o, ec) ==
  IF o = "read" /\ ~ ec THEN \E f \in Frame : buffer = <<f>> ELSE buffer = <<>>

WsShape ==
  \/ ready = <<>> /\ buffer = <<>>
  \/ ready = <<Start>> /\ op = "none" /\ buffer = <<>>
  \/ \E o \in Operation, ec \in BOOLEAN :
       ready = <<Completion(o, ec)>> /\ op = "none" /\ BufferFor(o, ec)
  \/ \E f \in Frame : ready = <<OnData(<<f>>)>> /\ op = "read" /\ buffer = <<>>
  \/ \E f \in Frame, ec \in BOOLEAN :
       /\ ready = <<OnData(<<f>>), Completion("read", ec)>>
       /\ op = "none" /\ BufferFor("read", ec)

WsInv ==
  /\ op \in Operation \cup {"none"}
  /\ wire \in Seq(Frame)
  /\ handled \in Seq(Frame \ Unnumbered)
  /\ failed \in BOOLEAN
  /\ terminated \in BOOLEAN
  /\ terminated => \E f \in Unnumbered : Pending = <<f>>
  /\ WsShape
  /\ FramesInOrder

(* A frame that a read has taken is handled, also when the connection has  *)
(* failed since; one that comes to the socket is handled unless it fails,  *)
(* since a read is always under way again after on_read.  All of this as   *)
(* long as no frame without a numeric "U" comes before: that one ends the  *)
(* program, and with it every connection.                                  *)
EveryFrameHandled ==
  \A n \in 1 .. MaxFrames :
    /\ Len(arrived) - Len(wire) >= n /\ Numbered(SubSeq(arrived, 1, n)) ~> Len(handled) >= n
    /\ Len(arrived) >= n /\ Numbered(SubSeq(arrived, 1, n)) ~> Len(handled) >= n \/ failed
=============================================================================
