--------------------------- MODULE RestApiHandler ---------------------------
(***************************************************************************)
(* The RestApiHandler of src/restapi.cpp: a timer starts one request after *)
(* the other, each a chain of asynchronous operations whose callbacks run  *)
(* on the io_context of the instrument.                                    *)
(*                                                                         *)
(* A callback captures `this' and nothing else, so it goes on with the     *)
(* socket that socket_ holds when it runs.  The timer puts a new stream in *)
(* socket_ for each request, and drops the last reference to the old one:  *)
(* an operation of an earlier request that is still outstanding on the old *)
(* stream then refers to a stream that no longer exists, and running it is *)
(* undefined.  So is what becomes of two requests that have come to share  *)
(* a stream, and have two handshakes or two reads on it at once.  Such an  *)
(* operation may go on as if nothing had happened, end the request with an *)
(* error, or bring the program down.                                       *)
(*                                                                         *)
(* No operation has a timeout: one that the exchange does not answer stays *)
(* outstanding for ever.                                                   *)
(***************************************************************************)
EXTENDS Naturals, Sequences

CONSTANTS
  MaxPolls  \* bound: how often the timer fires

ASSUME RestAssumption == MaxPolls \in Nat

VARIABLES
  timer,   \* "off" before run(), "armed" while a wait on timer_ is outstanding,
           \* "failed" when the wait has ended with an error
  socket,  \* socket_: the number of the stream, 0 that of the constructor
  ops,     \* the operations outstanding, of all requests
  posted,  \* the on_data handlers posted to io_context_, the next one first
  terminated, \* an operation whose outcome is undefined has ended the program
  handled, \* history: the requests whose answer on_data was called with
  overlap  \* history: the timer has fired while a request was under way

restVars == <<timer, socket, ops, posted, terminated, handled, overlap>>

(* The callback of an operation starts the next one.                       *)
NextOperation ==
  [resolve |-> "connect", connect |-> "handshake", handshake |-> "write", write |-> "read"]

(* Operation what of request poll, on stream on.  A resolve is on none.    *)
Op == [poll : 1 .. MaxPolls, what : {"resolve"}]
       \cup [poll : 1 .. MaxPolls, what : {"connect", "handshake", "write", "read"},
             on : 0 .. MaxPolls]

OnStream == {o \in ops : o.what # "resolve"}

(* Operations of two requests that a TLS stream does not allow at once: it *)
(* allows a read and a write, and nothing beside a handshake.              *)
Clash(o, q) ==
  /\ o # q
  /\ o.on = q.on
  /\ {o.what, q.what} \subseteq {"handshake", "write", "read"}
  /\ {o.what, q.what} # {"write", "read"}

-----------------------------------------------------------------------------
RestInit ==
  /\ timer = "off"
  /\ socket = 0
  /\ ops = {}
  /\ posted = <<>>
  /\ terminated = FALSE
  /\ handled = <<>>
  /\ overlap = FALSE

(* run(), called by the ConnectionManager: the timer is armed.             *)
Run ==
  /\ timer = "off"
  /\ timer' = "armed"
  /\ UNCHANGED <<socket, ops, posted, terminated, handled, overlap>>

(* Mutants of TimerFires: the stream of the request before is used again;  *)
(* run() is not called again.                                              *)
TimerReusesStream ==
  /\ timer = "armed"
  /\ socket < MaxPolls
  /\ overlap' = (overlap \/ ops # {})
  /\ ops' = ops \cup {[poll |-> socket + 1, what |-> "resolve"]}
  /\ UNCHANGED <<timer, socket, posted, terminated, handled>>

TimerFiresOnce ==
  /\ timer = "armed"
  /\ socket < MaxPolls
  /\ overlap' = (overlap \/ ops # {})
  /\ socket' = socket + 1
  /\ ops' = ops \cup {[poll |-> socket + 1, what |-> "resolve"]}
  /\ timer' = "off"
  /\ UNCHANGED <<posted, terminated, handled>>

(* The timer fires: a new stream, async_resolve, and the timer again       *)
TimerFires ==
  /\ timer = "armed"
  /\ socket < MaxPolls
  /\ overlap' = (overlap \/ ops # {})
  /\ socket' = socket + 1
  /\ ops' = ops \cup {[poll |-> socket + 1, what |-> "resolve"]}
  /\ timer' = "armed"
  /\ UNCHANGED <<posted, terminated, handled>>

(* The wait ends with an error: nothing arms the timer again.              *)
TimerFails ==
  /\ timer = "armed"
  /\ timer' = "failed"
  /\ UNCHANGED <<socket, ops, posted, terminated, handled, overlap>>

(* Mutant of OpSucceeds: the stream after the current one is used.         *)
OpOnNextStream ==
  /\ \E o \in ops :
       /\ o.what \in DOMAIN NextOperation
       /\ ops' = (ops \ {o})
                   \cup {[poll |-> o.poll, what |-> NextOperation[o.what], on |-> socket + 1]}
  /\ UNCHANGED <<timer, socket, posted, terminated, handled, overlap>>

(* on_resolve, on_connect, on_handshake and on_write without error: the    *)
(* next operation of the request, on the stream that socket_ holds now     *)
OpSucceeds ==
  /\ \E o \in ops :
       /\ o.what \in DOMAIN NextOperation
       /\ ops' = (ops \ {o})
                   \cup {[poll |-> o.poll, what |-> NextOperation[o.what], on |-> socket]}
  /\ UNCHANGED <<timer, socket, posted, terminated, handled, overlap>>

(* Any of the callbacks with an error: print it and return                 *)
OpFails ==
  /\ \E o \in ops : ops' = ops \ {o}
  /\ UNCHANGED <<timer, socket, posted, terminated, handled, overlap>>

(* Mutant of OnRead: the read goes on after the answer.                    *)
OnReadGoesOn ==
  /\ \E o \in ops :
       /\ o.what = "read"
       /\ posted' = Append(posted, o.poll)
  /\ UNCHANGED <<timer, socket, ops, terminated, handled, overlap>>

(* on_read without error, or at the end of the stream: post on_data        *)
OnRead ==
  /\ \E o \in ops :
       /\ o.what = "read"
       /\ ops' = ops \ {o}
       /\ posted' = Append(posted, o.poll)
  /\ UNCHANGED <<timer, socket, terminated, handled, overlap>>

(* on_data: parse, and encache                                             *)
HandleData ==
  /\ posted # <<>>
  /\ handled' = Append(handled, Head(posted))
  /\ posted' = Tail(posted)
  /\ UNCHANGED <<timer, socket, ops, terminated, overlap>>

(* An operation runs on a stream that is gone, or clashes with that of     *)
(* another request, and the program ends.                                  *)
UndefinedOpRuns ==
  /\ \E o \in OnStream : o.on # socket \/ \E q \in OnStream : Clash(o, q)
  /\ terminated' = TRUE
  /\ UNCHANGED <<timer, socket, ops, posted, handled, overlap>>

CallbackRuns == OpSucceeds \/ OpFails \/ OnRead

RestNext ==
  /\ ~ terminated
  /\ Run \/ TimerFires \/ TimerFails \/ CallbackRuns \/ UndefinedOpRuns \/ HandleData

(* The timer expires and the io_context's thread runs its handler.  That   *)
(* an operation completes is up to the exchange, and to nothing else.      *)
RestFairness == WF_restVars(~ terminated /\ TimerFires)

RestSpec == RestInit /\ [][RestNext]_restVars

FairRestSpec == RestSpec /\ RestFairness

-----------------------------------------------------------------------------
RestTypeOK ==
  /\ overlap \in BOOLEAN
  /\ timer \in {"armed", "off", "failed"}
  /\ socket \in 0 .. MaxPolls
  /\ ops \subseteq Op
  /\ posted \in Seq(1 .. MaxPolls)
  /\ terminated \in BOOLEAN
  /\ handled \in Seq(1 .. MaxPolls)

(* No operation is outstanding on a stream that has been destroyed: every  *)
(* one is on the stream that socket_ holds.                                *)
NoDanglingOperation == \A o \in OnStream : o.on = socket

(* As long as every request has ended by the time the timer fires again, a *)
(* request uses the stream that the timer made for it, from the connect to *)
(* the read, and that stream lives until the request has ended.            *)
TimelyOwnStream == ~ overlap => \A o \in OnStream : o.on = o.poll /\ o.on = socket

(* The requests whose answer has been read, in that order                  *)
Answers == handled \o posted

(* As long as that is so, answers are passed to on_data in the order of    *)
(* the requests.                                                           *)
TimelyAnswersInOrder ==
  ~ overlap => \A i, j \in DOMAIN Answers : i < j => Answers[i] < Answers[j]

(* Even where requests overlap and share a stream, and as long as the      *)
(* program goes on, no request has two answers: each chain ends in one     *)
(* on_data at most.                                                        *)
AnswersOnce ==
  /\ \A i, j \in DOMAIN Answers : i # j => Answers[i] # Answers[j]
  /\ \A o \in ops, i \in DOMAIN Answers : Answers[i] # o.poll

(* Whatever becomes of the requests, also if none ever ends, polling goes  *)
(* on: only an error of the timer itself stops it, or the end of the       *)
(* program.                                                                *)
PollingGoesOn ==
  \A n \in 1 .. MaxPolls : timer = "armed" ~> socket >= n \/ timer = "failed" \/ terminated

(***************************************************************************)
(* The inductive invariant behind the safety properties: a request is one  *)
(* chain of operations, no younger than the stream in socket_, and as long *)
(* as requests do not overlap there is only that of the newest stream.     *)
(***************************************************************************)
RestInv ==
  /\ RestTypeOK
  /\ \A o, q \in ops : o.poll = q.poll => o = q
  /\ \A o \in ops : o.poll <= socket
  /\ \A i \in DOMAIN Answers : Answers[i] <= socket
  /\ ~ overlap => \A o \in ops : o.poll = socket
  /\ TimelyOwnStream
  /\ TimelyAnswersInOrder
  /\ AnswersOnce
=============================================================================
