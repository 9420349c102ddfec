------------------------------- MODULE MCCache -------------------------------
(***************************************************************************)
(* Model-checking instances of Cache.                                      *)
(***************************************************************************)
EXTENDS Cache, TLC

(* The replicas of an instrument do the same.                              *)
ReplicaSymmetry == Permutations(Replicas)
=============================================================================
