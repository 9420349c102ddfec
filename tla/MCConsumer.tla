----------------------------- MODULE MCConsumer -----------------------------
(***************************************************************************)
(* Model-checking instances of Consumer.                                   *)
(***************************************************************************)
EXTENDS Consumer

(* What the application caches: order books, of both sources.              *)
OrderBooks == [type : {"OrderBook"}, source : Source]
=============================================================================
