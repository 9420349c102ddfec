-------------------------- MODULE MCLockFreeQueue --------------------------
(***************************************************************************)
(* Model-checking instances of LockFreeQueue.                              *)
(***************************************************************************)
EXTENDS LockFreeQueue, TLC

(* Items are only stored and compared, so they may be permuted.            *)
ItemSymmetry == Permutations(Item)
=============================================================================
