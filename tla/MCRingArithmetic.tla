-------------------------- MODULE MCRingArithmetic --------------------------
(***************************************************************************)
(* Model-checking instances of RingArithmetic.                             *)
(***************************************************************************)
EXTENDS RingArithmetic, Bitwise

(* Every int of IntWidth bits.                                             *)
AllInts == -(2 ^ (IntWidth - 1)) .. 2 ^ (IntWidth - 1) - 1

(* BitAnd is the "and" of the library, and TwoTo the power.                *)
ASSUME BitAndIsAnd ==
  /\ \A k \in 0 .. Width : TwoTo[k] = 2 ^ k
  /\ \A x, y \in 0 .. Modulus - 1 : BitAnd(x, y) = x & y
=============================================================================
