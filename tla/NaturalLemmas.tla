--------------------------- MODULE NaturalLemmas ----------------------------
(***************************************************************************)
(* What the proofs of the other modules need of the natural numbers: the   *)
(* induction principle and the existence of what is defined by recursion,  *)
(* in the first-order forms the provers can use, and division with         *)
(* remainder, as far as the ring buffer needs it: item number n of the     *)
(* queue lives in slot n % c of a ring of c slots.                         *)
(***************************************************************************)
EXTENDS Integers, WellFoundedInduction, TLAPS

(* A set of natural numbers that is not empty has a least element.         *)
LEMMA LeastElement ==
  ASSUME NEW T, T \subseteq Nat, T # {}
  PROVE  \E x \in T : \A y \in T : x <= y
<1>1. IsWellFoundedOn(OpToRel(<, Nat), Nat)
  BY NatLessThanWellFounded
<1>2. \E x \in T : \A y \in T : ~ (<<y, x>> \in OpToRel(<, Nat))
  BY <1>1, WFMin, Zenon
<1>3. PICK x \in T : \A y \in T : ~ (<<y, x>> \in OpToRel(<, Nat))
  BY <1>2
<1>4. ASSUME NEW y \in T PROVE x <= y
  <2>1. ~ (<<y, x>> \in OpToRel(<, Nat))
    BY <1>3
  <2>2. ~ y < x
    BY <2>1 DEF OpToRel
  <2> QED
    BY <2>2
<1> QED
  BY <1>4

(* A set that has 0, and with every number the next one, has all of them.  *)
LEMMA SetInduction ==
  ASSUME NEW S, 0 \in S, \A n \in Nat : n \in S => n + 1 \in S
  PROVE  \A n \in Nat : n \in S
<1> DEFINE T == {n \in Nat : n \notin S}
<1>1. SUFFICES ASSUME T # {} PROVE FALSE
  OBVIOUS
<1>2. PICK x \in T : \A y \in T : x <= y
  BY <1>1, LeastElement
<1>3. x - 1 \in Nat /\ x - 1 \notin T
  BY <1>2
<1>4. (x - 1) + 1 \in S
  BY <1>3
<1> QED
  BY <1>2, <1>4

(* The same up to a bound.                                                 *)
LEMMA BoundedInduction ==
  ASSUME NEW N \in Nat, NEW S, 0 \in S,
         \A n \in 0 .. N - 1 : n \in S => n + 1 \in S
  PROVE  \A n \in 0 .. N : n \in S
<1> DEFINE T == {n \in Nat : n <= N => n \in S}
<1>1. 0 \in T
  OBVIOUS
<1>2. ASSUME NEW n \in Nat, n \in T PROVE n + 1 \in T
  BY <1>2
<1> HIDE DEF T
<1>3. \A n \in Nat : n \in T
  BY <1>1, <1>2, SetInduction, Zenon
<1> QED
  BY <1>3 DEF T

(* Some function on 0 .. N is zero at 0 and step[n] of its value at n - 1  *)
(* everywhere else.                                                        *)
RecursionHasValue(N, T, zero, step) ==
  \E f \in [0 .. N -> T] :
    f[0] = zero /\ \A n \in 1 .. N : f[n] = step[n][f[n - 1]]

(* There always is such a function, so a recursive definition defines it.  *)
LEMMA FiniteRecursion ==
  ASSUME NEW N \in Nat, NEW T, NEW zero \in T, NEW step \in [1 .. N -> [T -> T]]
  PROVE  RecursionHasValue(N, T, zero, step)
<1> DEFINE Follows(f, m) ==
             f[0] = zero /\ \A n \in 1 .. m : f[n] = step[n][f[n - 1]]
           S == {m \in 0 .. N : \E f \in [0 .. N -> T] : Follows(f, m)}
<1>1. 0 \in S
  <2> DEFINE f == [n \in 0 .. N |-> zero]
  <2>1. f \in [0 .. N -> T] /\ Follows(f, 0)
    OBVIOUS
  <2> HIDE DEF f
  <2> QED
    BY <2>1
<1>2. ASSUME NEW m \in 0 .. N - 1, m \in S PROVE m + 1 \in S
  <2>1. PICK f \in [0 .. N -> T] : Follows(f, m)
    BY <1>2
  <2> DEFINE y == step[m + 1][f[m]]
             g == [f EXCEPT ![m + 1] = y]
  <2>2. y \in T
    OBVIOUS
  <2> HIDE DEF y
  <2>3. g \in [0 .. N -> T] /\ g[m + 1] = y /\ \A n \in 0 .. m : g[n] = f[n]
    BY <2>2
  <2>4. g[0] = zero
    BY <2>1, <2>3
  <2>5. ASSUME NEW n \in 1 .. m + 1 PROVE g[n] = step[n][g[n - 1]]
    <3>1. CASE n = m + 1
      BY <2>3, <3>1 DEF y
    <3>2. CASE n # m + 1
      <4>1. n \in 1 .. m /\ n \in 0 .. m /\ n - 1 \in 0 .. m
        BY <3>2
      <4> QED
        BY <2>1, <2>3, <4>1
    <3> QED
      BY <3>1, <3>2
  <2>6. Follows(g, m + 1)
    BY <2>4, <2>5
  <2>7. g \in [0 .. N -> T]
    BY <2>3
  <2> HIDE DEF g
  <2> QED
    BY <2>6, <2>7
<1> HIDE DEF S
<1>3. \A n \in 0 .. N : n \in S
  BY <1>1, <1>2, BoundedInduction, Zenon
<1>4. N \in S
  BY <1>3
<1>5. \E f \in [0 .. N -> T] : Follows(f, N)
  BY <1>4, Zenon DEF S
<1> QED
  BY <1>5, Zenon DEF RecursionHasValue

-----------------------------------------------------------------------------
(* A number is a whole number of laps around the ring and a slot.          *)
LEMMA DivMod ==
  ASSUME NEW n \in Nat, NEW c \in Nat \ {0}
  PROVE  /\ n = c * (n \div c) + (n % c)
         /\ n \div c \in Nat
         /\ n % c \in 0 .. c - 1
OBVIOUS

(* A positive number of laps is at least one lap.                          *)
LEMMA AtLeastOneLap ==
  ASSUME NEW c \in Nat \ {0}, NEW d \in Int, d >= 1
  PROVE  c * d >= c
OBVIOUS

(* Whole laps apart.                                                       *)
LEMMA LapDistance ==
  ASSUME NEW c \in Nat, NEW a \in Int, NEW b \in Int
  PROVE  c * a - c * b = c * (a - b)
OBVIOUS

(* Two numbers less than a lap apart differ by no whole lap.               *)
LEMMA NoLapBetween ==
  ASSUME NEW c \in Nat \ {0}, NEW a \in Int, NEW b \in Int,
         c * a - c * b < c
  PROVE  a <= b
<1>1. SUFFICES ASSUME a - b >= 1 PROVE FALSE
  OBVIOUS
<1> DEFINE d == a - b
<1>2. d \in Int /\ d >= 1
  BY <1>1
<1>3. c * a - c * b = c * d
  BY LapDistance
<1> HIDE DEF d
<1>4. c * d >= c
  BY <1>2, AtLeastOneLap
<1> QED
  BY <1>3, <1>4

(* A number is written as laps and slot in one way only.                   *)
LEMMA LapAndSlotUnique ==
  ASSUME NEW c \in Nat \ {0}, NEW a \in Int, NEW b \in Int,
         NEW r \in 0 .. c - 1, NEW s \in 0 .. c - 1,
         c * a + r = c * b + s
  PROVE  a = b /\ r = s
<1>1. c * a - c * b < c /\ c * b - c * a < c
  OBVIOUS
<1>2. a <= b /\ b <= a
  BY <1>1, NoLapBetween
<1> QED
  BY <1>2

(* The slot of a number given by its laps and its slot.                    *)
LEMMA SlotOf ==
  ASSUME NEW c \in Nat \ {0}, NEW q \in Nat, NEW r \in 0 .. c - 1
  PROVE  (c * q + r) % c = r
<1> DEFINE n == c * q + r
<1>1. n \in Nat
  OBVIOUS
<1>2. n = c * q + r
  OBVIOUS
<1> HIDE DEF n
<1>3. /\ n = c * (n \div c) + (n % c)
      /\ n \div c \in Int
      /\ n % c \in 0 .. c - 1
  BY <1>1, DivMod
<1> DEFINE a == n \div c
           s == n % c
<1>4. a \in Int /\ s \in 0 .. c - 1 /\ c * a + s = c * q + r
  BY <1>2, <1>3
<1> HIDE DEF a, s
<1>5. s = r
  BY <1>4, LapAndSlotUnique
<1> QED
  BY <1>2, <1>5 DEF s

(* A number within the first lap is its own slot.                          *)
LEMMA SmallSlot ==
  ASSUME NEW c \in Nat \ {0}, NEW r \in 0 .. c - 1
  PROVE  r % c = r
<1>1. (c * 0 + r) % c = r
  BY SlotOf
<1> QED
  BY <1>1

(* Two items that wait at the same time never share a slot.                *)
LEMMA SameSlotSameItem ==
  ASSUME NEW c \in Nat \ {0}, NEW m \in Nat, NEW n \in Nat,
         m <= n, n < m + c, m % c = n % c
  PROVE  m = n
<1> DEFINE a == n \div c
           b == m \div c
           s == n % c
<1>1. n = c * a + s /\ a \in Int
  BY DivMod
<1>2. m = c * b + s /\ b \in Int /\ s \in Int
  BY DivMod
<1> HIDE DEF a, b, s
<1>3. c * a - c * b < c /\ c * b - c * a < c
  BY <1>1, <1>2
<1>4. a = b
  BY <1>1, <1>2, <1>3, NoLapBetween
<1> QED
  BY <1>1, <1>2, <1>4

(* Two items less than a lap apart are in different slots.                 *)
LEMMA DistinctSlots ==
  ASSUME NEW c \in Nat \ {0}, NEW m \in Nat, NEW n \in Nat,
         m < n, n < m + c
  PROVE  m % c # n % c
<1>1. SUFFICES ASSUME m % c = n % c PROVE FALSE
  OBVIOUS
<1>2. m <= n /\ m # n
  OBVIOUS
<1> QED
  BY <1>1, <1>2, SameSlotSameItem

(* Moving an index one slot on is moving the item number one on.           *)
LEMMA NextSlot ==
  ASSUME NEW n \in Nat, NEW c \in Nat \ {0}
  PROVE  (n + 1) % c = ((n % c) + 1) % c
<1> DEFINE q == n \div c
           r == n % c
<1>1. n = c * q + r /\ q \in Nat /\ r \in 0 .. c - 1
  BY DivMod
<1> HIDE DEF q, r
<1>2. CASE r + 1 < c
  <2>1. n + 1 = c * q + (r + 1) /\ r + 1 \in 0 .. c - 1
    BY <1>1, <1>2
  <2>2. (n + 1) % c = r + 1
    BY <1>1, <2>1, SlotOf
  <2>3. (r + 1) % c = r + 1
    BY <2>1, SmallSlot
  <2> QED
    BY <2>2, <2>3 DEF r
<1>3. CASE r + 1 = c
  <2>1. n + 1 = c * (q + 1) + 0 /\ q + 1 \in Nat /\ 0 \in 0 .. c - 1
    BY <1>1, <1>3
  <2>2. (n + 1) % c = 0
    BY <2>1, SlotOf
  <2>3. (c * 1 + 0) % c = 0
    BY <2>1, SlotOf
  <2>4. (r + 1) % c = 0
    BY <1>3, <2>3
  <2> QED
    BY <2>2, <2>4 DEF r
<1> QED
  BY <1>1, <1>2, <1>3

(* One lap further is the same slot.                                       *)
LEMMA LapLater ==
  ASSUME NEW n \in Nat, NEW c \in Nat \ {0}
  PROVE  (n + c) % c = n % c
<1> DEFINE q == n \div c
           r == n % c
<1>1. n = c * q + r /\ q \in Nat /\ r \in 0 .. c - 1
  BY DivMod
<1> HIDE DEF q, r
<1>2. n + c = c * (q + 1) + r /\ q + 1 \in Nat
  BY <1>1
<1>3. (n + c) % c = r
  BY <1>1, <1>2, SlotOf
<1> QED
  BY <1>3 DEF r

(* Walking j slots on from a slot, less than a lap, is j items later.      *)
LEMMA SlotAhead ==
  ASSUME NEW n \in Nat, NEW c \in Nat \ {0}, NEW j \in 0 .. c - 1
  PROVE  /\ (n + j) % c = IF (n % c) + j < c THEN (n % c) + j ELSE (n % c) + j - c
         /\ ((n % c) + j) % c = (n + j) % c
<1> DEFINE q == n \div c
           r == n % c
<1>1. n = c * q + r /\ q \in Nat /\ r \in 0 .. c - 1
  BY DivMod
<1> HIDE DEF q, r
<1>2. CASE r + j < c
  <2>1. n + j = c * q + (r + j) /\ r + j \in 0 .. c - 1
    BY <1>1, <1>2
  <2>2. (n + j) % c = r + j
    BY <1>1, <2>1, SlotOf
  <2>3. (r + j) % c = r + j
    BY <2>1, SmallSlot
  <2> QED
    BY <1>2, <2>2, <2>3 DEF r
<1>3. CASE ~ (r + j < c)
  <2> DEFINE s == r + j - c
  <2>1. n + j = c * (q + 1) + s /\ q + 1 \in Nat /\ s \in 0 .. c - 1 /\ r + j = s + c
    BY <1>1, <1>3
  <2> HIDE DEF s
  <2>2. (n + j) % c = s
    BY <2>1, SlotOf
  <2>3. (r + j) % c = s
    <3>1. s \in Nat /\ s % c = s
      BY <2>1, SmallSlot
    <3>2. (s + c) % c = s
      BY <3>1, LapLater
    <3> QED
      BY <2>1, <3>2
  <2> QED
    BY <1>3, <2>1, <2>2, <2>3 DEF r, s
<1> QED
  BY <1>2, <1>3

(* The number of items between two indices is their distance on the ring.  *)
LEMMA RingDistance ==
  ASSUME NEW n \in Nat, NEW c \in Nat \ {0}, NEW d \in 0 .. c - 1
  PROVE  (((n + d) % c) + c - (n % c)) % c = d
<1> DEFINE r == n % c
           t == (n + d) % c
<1>1. r \in 0 .. c - 1 /\ t = IF r + d < c THEN r + d ELSE r + d - c
  BY DivMod, SlotAhead
<1> HIDE DEF r, t
<1>2. t + c - r = d + c \/ t + c - r = d
  BY <1>1
<1>3. d % c = d
  BY SmallSlot
<1>4. (d + c) % c = d % c
  <2>1. d \in Nat
    OBVIOUS
  <2> QED
    BY <2>1, LapLater
<1> QED
  BY <1>2, <1>3, <1>4 DEF r, t
=============================================================================
