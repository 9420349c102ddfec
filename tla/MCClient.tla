------------------------------ MODULE MCClient ------------------------------
(***************************************************************************)
(* Model-checking instances of Client.                                     *)
(***************************************************************************)
EXTENDS Client

(* What the application caches: order books; no property of the client     *)
(* looks at which.                                                         *)
OrderBooks == {[type |-> "OrderBook", source |-> "WebSocket"]}

(* setup.ini may turn a kind of connection off, also with a negative       *)
(* number; memory that was not initialised may hold the same, or more.     *)
Numbers == {-1, 1}
Memory == {0, 2}
=============================================================================
