----------------------------- MODULE RingProof ------------------------------
(***************************************************************************)
(* Proofs about RingArithmetic: the trick of the code, i & (capacity - 1)  *)
(* for i % capacity, and the test for a power of two that it rests on, are *)
(* proved bit by bit, for a size_t and an int of any width and for every   *)
(* capacity that may be asked for.                                         *)
(***************************************************************************)
EXTENDS RingArithmetic, NaturalLemmas

(* Powers of two, as the recursion defines them.                           *)
LEMMA TwoToIsPositive ==
  /\ TwoTo \in [0 .. Width -> Nat \ {0}]
  /\ TwoTo[0] = 1
  /\ \A k \in 1 .. Width : TwoTo[k] = 2 * TwoTo[k - 1]
<1> DEFINE T == Nat \ {0}
           step == [n \in 1 .. Width |-> [x \in T |-> 2 * x]]
<1>1. \A n \in 1 .. Width : \A x \in T : step[n][x] = 2 * x
  OBVIOUS
<1>2. Width \in Nat /\ 1 \in T /\ step \in [1 .. Width -> [T -> T]]
  BY RingAssumption
<1>3. \A k \in 1 .. Width : k - 1 \in 0 .. Width
  BY <1>2
<1>4. 2 * 1 = 2 /\ \A x \in T : 2 * x \in T
  OBVIOUS
<1> HIDE DEF step, T
<1>5. PICK f \in [0 .. Width -> T] :
        f[0] = 1 /\ \A n \in 1 .. Width : f[n] = step[n][f[n - 1]]
  <2>1. RecursionHasValue(Width, T, 1, step)
    BY <1>2, FiniteRecursion, Zenon
  <2> QED
    BY <2>1 DEF RecursionHasValue
<1>6. \A n \in 1 .. Width : f[n] = 2 * f[n - 1]
  BY <1>1, <1>3, <1>5
<1>7. f = [k \in 0 .. Width |-> IF k = 0 THEN 1 ELSE 2 * f[k - 1]]
  BY <1>2, <1>5, <1>6
<1>8. TwoTo = [k \in 0 .. Width |-> IF k = 0 THEN 1 ELSE 2 * TwoTo[k - 1]]
  BY <1>7, Zenon DEF TwoTo
<1>9. \A k \in 0 .. Width : TwoTo[k] = IF k = 0 THEN 1 ELSE 2 * TwoTo[k - 1]
  BY <1>8, Zenon
<1>10. \A k \in 0 .. Width : TwoTo[k] \in T
  <2> DEFINE S == {k \in 0 .. Width : TwoTo[k] \in T}
  <2>1. 0 \in S
    BY <1>2, <1>9
  <2>2. ASSUME NEW n \in 0 .. Width - 1, n \in S PROVE n + 1 \in S
    BY <1>2, <1>4, <1>9, <2>2
  <2> HIDE DEF S
  <2>3. \A n \in 0 .. Width : n \in S
    BY <1>2, <2>1, <2>2, BoundedInduction, Zenon
  <2> QED
    BY <2>3 DEF S
<1>11. TwoTo \in [0 .. Width -> T]
  <2> DEFINE g == TwoTo
  <2>1. g = [k \in 0 .. Width |-> IF k = 0 THEN 1 ELSE 2 * g[k - 1]]
    BY <1>8
  <2>2. \A k \in 0 .. Width : g[k] \in T
    BY <1>10
  <2> HIDE DEF g
  <2>3. g \in [0 .. Width -> T]
    BY <2>1, <2>2
  <2> QED
    BY <2>3 DEF g
<1> QED
  BY <1>2, <1>9, <1>11 DEF T

(* The operator &, as the recursion defines it.                            *)
LEMMA AndIsBitwise ==
  /\ AndOfBits \in [0 .. Width -> [Nat -> [Nat -> Nat]]]
  /\ \A x, y \in Nat : AndOfBits[0][x][y] = 0
  /\ \A w \in 1 .. Width : \A x, y \in Nat :
       AndOfBits[w][x][y] = 2 * AndOfBits[w - 1][x \div 2][y \div 2] + LastBit(x, y)
<1> DEFINE T == [Nat -> [Nat -> Nat]]
           More(g) == [x \in Nat |-> [y \in Nat |-> 2 * g[x \div 2][y \div 2] + LastBit(x, y)]]
           none == [x \in Nat |-> [y \in Nat |-> 0]]
           step == [n \in 1 .. Width |-> [g \in T |-> More(g)]]
<1>1. \A x \in Nat : x \div 2 \in Nat
  OBVIOUS
<1>2. \A x, y \in Nat : LastBit(x, y) \in Nat
  BY DEF LastBit
<1>3. ASSUME NEW g \in T PROVE More(g) \in T
  <2>1. \A x, y \in Nat : g[x \div 2][y \div 2] \in Nat
    BY <1>1
  <2>2. \A x, y \in Nat : 2 * g[x \div 2][y \div 2] + LastBit(x, y) \in Nat
    <3> TAKE x, y \in Nat
    <3>1. g[x \div 2][y \div 2] \in Nat
      BY <2>1
    <3>2. LastBit(x, y) \in Nat
      BY <1>2
    <3> DEFINE m == g[x \div 2][y \div 2]
               b == LastBit(x, y)
    <3>3. m \in Nat /\ b \in Nat
      BY <3>1, <3>2
    <3> HIDE DEF m, b
    <3>4. 2 * m + b \in Nat
      BY <3>3
    <3> QED
      BY <3>4 DEF m, b
  <2> QED
    BY <2>2
<1>4. none \in T /\ \A x, y \in Nat : none[x][y] = 0
  OBVIOUS
<1>5. Width \in Nat /\ step \in [1 .. Width -> [T -> T]]
  <2>1. step \in [1 .. Width -> [T -> T]]
    <3> HIDE DEF T, More
    <3> QED
      BY <1>3
  <2> QED
    BY <2>1, RingAssumption
<1>6. \A n \in 1 .. Width : \A g \in T : step[n][g] = More(g)
  OBVIOUS
<1> DEFINE G(h) == [w \in 0 .. Width |-> [x \in Nat |-> [y \in Nat |->
                      IF w = 0 THEN 0 ELSE 2 * h[w - 1][x \div 2][y \div 2] + LastBit(x, y)]]]
<1>7. ASSUME NEW h PROVE G(h)[0] = none
  BY <1>5
<1>8. ASSUME NEW h, NEW w \in 1 .. Width PROVE G(h)[w] = More(h[w - 1])
  <2>1. w \in 0 .. Width /\ w # 0
    OBVIOUS
  <2> QED
    BY <2>1
<1>9. \E h : h = G(h)
  <2>1. RecursionHasValue(Width, T, none, step)
    <3> HIDE DEF T, none, step
    <3> QED
      BY <1>4, <1>5, FiniteRecursion, Zenon
  <2> HIDE DEF T, none, step, More
  <2>2. PICK h \in [0 .. Width -> T] :
          h[0] = none /\ \A n \in 1 .. Width : h[n] = step[n][h[n - 1]]
    BY <2>1 DEF RecursionHasValue
  <2>3. \A n \in 1 .. Width : h[n] = More(h[n - 1])
    <3>1. \A n \in 1 .. Width : n - 1 \in 0 .. Width
      BY <1>5
    <3> QED
      BY <1>6, <2>2, <3>1
  <2> DEFINE k == G(h)
  <2>4. k = [w \in 0 .. Width |-> k[w]]
    OBVIOUS
  <2>5. k[0] = h[0] /\ \A w \in 1 .. Width : k[w] = h[w]
    BY <1>7, <1>8, <2>2, <2>3
  <2> HIDE DEF k
  <2>6. \A w \in 0 .. Width : k[w] = h[w]
    BY <1>5, <2>5
  <2>7. h = k
    BY <2>2, <2>4, <2>6
  <2> QED
    BY <2>7 DEF k
<1>10. AndOfBits = G(AndOfBits)
  BY <1>9, Zenon DEF AndOfBits
<1> DEFINE a == AndOfBits
<1> HIDE DEF T, More, none, step
<1>11. a[0] = none /\ \A w \in 1 .. Width : a[w] = More(a[w - 1])
  <2>1. a = G(a)
    BY <1>10
  <2> HIDE DEF a, G
  <2> QED
    BY <1>7, <1>8, <2>1
<1>12. \A w \in 0 .. Width : a[w] \in T
  <2> DEFINE S == {w \in 0 .. Width : a[w] \in T}
  <2> HIDE DEF a
  <2>1. 0 \in S
    BY <1>4, <1>5, <1>11
  <2>2. ASSUME NEW n \in 0 .. Width - 1, n \in S PROVE n + 1 \in S
    <3>1. n + 1 \in 0 .. Width /\ n + 1 \in 1 .. Width /\ (n + 1) - 1 = n
      BY <1>5
    <3>2. a[n + 1] = More(a[n])
      BY <1>11, <3>1
    <3> QED
      BY <1>3, <2>2, <3>1, <3>2
  <2> HIDE DEF S
  <2>3. \A n \in 0 .. Width : n \in S
    BY <1>5, <2>1, <2>2, BoundedInduction, Zenon
  <2> QED
    BY <2>3 DEF S
<1>13. a = [w \in 0 .. Width |-> a[w]]
  <2>1. a = G(a)
    BY <1>10
  <2>2. G(a) = [w \in 0 .. Width |-> G(a)[w]]
    OBVIOUS
  <2> HIDE DEF a, G
  <2> QED
    BY <2>1, <2>2
<1>14. a \in [0 .. Width -> T]
  <2> HIDE DEF a
  <2> QED
    BY <1>12, <1>13
<1>15. ASSUME NEW w \in 1 .. Width, NEW x \in Nat, NEW y \in Nat
       PROVE  a[w][x][y] = 2 * a[w - 1][x \div 2][y \div 2] + LastBit(x, y)
  <2> HIDE DEF a
  <2>1. a[w] = More(a[w - 1])
    BY <1>11
  <2> QED
    BY <2>1 DEF More
<1>16. \A x, y \in Nat : a[0][x][y] = 0
  BY <1>4, <1>11
<1> QED
  BY <1>14, <1>15, <1>16 DEF T

(* One bit more, in the form the inductions use.                           *)
LEMMA AndStep ==
  ASSUME NEW w \in 0 .. Width - 1, NEW x \in Nat, NEW y \in Nat
  PROVE  /\ AndOfBits[w + 1][x][y] = 2 * AndOfBits[w][x \div 2][y \div 2] + LastBit(x, y)
         /\ AndOfBits[w][x \div 2][y \div 2] \in Nat
<1>1. w \in 0 .. Width /\ w + 1 \in 1 .. Width /\ (w + 1) - 1 = w
  BY RingAssumption
<1>2. x \div 2 \in Nat /\ y \div 2 \in Nat
  OBVIOUS
<1>3. AndOfBits[w + 1][x][y] = 2 * AndOfBits[(w + 1) - 1][x \div 2][y \div 2] + LastBit(x, y)
  BY <1>1, AndIsBitwise
<1>4. AndOfBits \in [0 .. Width -> [Nat -> [Nat -> Nat]]]
  BY AndIsBitwise
<1>5. AndOfBits[w][x \div 2][y \div 2] \in Nat
  <2>1. \A h, g \in Nat : AndOfBits[w][h][g] \in Nat
    <3> DEFINE a == AndOfBits[w]
    <3>1. a \in [Nat -> [Nat -> Nat]]
      BY <1>1, <1>4, Zenon
    <3> HIDE DEF a
    <3>2. \A h, g \in Nat : a[h][g] \in Nat
      BY <3>1
    <3> QED
      BY <3>2 DEF a
  <2> QED
    BY <1>2, <2>1, Zenon
<1>6. AndOfBits[w + 1][x][y] = 2 * AndOfBits[w][x \div 2][y \div 2] + LastBit(x, y)
  BY <1>1, <1>3, Zenon
<1> QED
  BY <1>5, <1>6, Zenon

(* A number is twice its half and its last bit.                            *)
LEMMA Half ==
  ASSUME NEW x \in Nat
  PROVE  /\ x = 2 * (x \div 2) + (x % 2)
         /\ x \div 2 \in Nat
         /\ x % 2 \in {0, 1}
OBVIOUS

(* Only one half and one bit make a number.                                *)
LEMMA HalfOf ==
  ASSUME NEW x \in Nat, NEW h \in Nat, NEW b \in {0, 1}, x = 2 * h + b
  PROVE  x \div 2 = h /\ x % 2 = b
OBVIOUS

(* The remainder by an even number keeps the last bit.                     *)
LEMMA RemainderByDouble ==
  ASSUME NEW x \in Nat, NEW c \in Nat \ {0}
  PROVE  x % (2 * c) = 2 * ((x \div 2) % c) + (x % 2)
<1> DEFINE h == x \div 2
           b == x % 2
           q == h \div c
           r == h % c
           d == 2 * c
           s == 2 * r + b
<1>1. x = 2 * h + b /\ h \in Nat /\ b \in {0, 1}
  OBVIOUS
<1> HIDE DEF h, b
<1>2. h = c * q + r /\ q \in Nat /\ r \in 0 .. c - 1
  BY <1>1, DivMod
<1> HIDE DEF q, r
<1>3. d \in Nat \ {0} /\ s \in 0 .. d - 1
  BY <1>1, <1>2
<1>4. x = d * q + s
  BY <1>1, <1>2
<1> HIDE DEF d, s
<1>5. x % d = s
  BY <1>2, <1>3, <1>4, SlotOf
<1> QED
  BY <1>5 DEF h, b, r, d, s

(* Nothing is left of x & 0 and of 0 & x.                                  *)
LEMMA AndWithZero ==
  ASSUME NEW w \in 0 .. Width, NEW x \in Nat
  PROVE  AndOfBits[w][x][0] = 0 /\ AndOfBits[w][0][x] = 0
<1> DEFINE S == {v \in 0 .. Width : \A y \in Nat : AndOfBits[v][y][0] = 0 /\ AndOfBits[v][0][y] = 0}
<1>1. Width \in Nat
  BY RingAssumption
<1>2. 0 \in S
  <2>1. 0 \in Nat /\ \A y, z \in Nat : AndOfBits[0][y][z] = 0
    BY AndIsBitwise
  <2> QED
    BY <1>1, <2>1
<1>3. ASSUME NEW v \in 0 .. Width - 1, v \in S PROVE v + 1 \in S
  <2>1. ASSUME NEW y \in Nat
        PROVE  AndOfBits[v + 1][y][0] = 0 /\ AndOfBits[v + 1][0][y] = 0
    <3>1. 0 \div 2 = 0 /\ y \div 2 \in Nat /\ LastBit(y, 0) = 0 /\ LastBit(0, y) = 0
      BY DEF LastBit
    <3>2. AndOfBits[v][y \div 2][0] = 0 /\ AndOfBits[v][0][y \div 2] = 0
      BY <1>3, <3>1
    <3>3. AndOfBits[v + 1][y][0] = 2 * AndOfBits[v][y \div 2][0 \div 2] + LastBit(y, 0)
      BY AndStep
    <3>4. AndOfBits[v + 1][0][y] = 2 * AndOfBits[v][0 \div 2][y \div 2] + LastBit(0, y)
      BY AndStep
    <3> QED
      BY <3>1, <3>2, <3>3, <3>4
  <2> QED
    BY <1>1, <2>1
<1> HIDE DEF S
<1>4. \A v \in 0 .. Width : v \in S
  BY <1>1, <1>2, <1>3, BoundedInduction, Zenon
<1> QED
  BY <1>4 DEF S

(* x & x is x, for a number of w bits.                                     *)
LEMMA AndWithItself ==
  ASSUME NEW w \in 0 .. Width, NEW x \in 0 .. TwoTo[w] - 1
  PROVE  AndOfBits[w][x][x] = x
<1> DEFINE S == {v \in 0 .. Width : \A y \in 0 .. TwoTo[v] - 1 : AndOfBits[v][y][y] = y}
<1>1. Width \in Nat
  BY RingAssumption
<1>2. 0 \in S
  <2>1. TwoTo[0] = 1
    BY TwoToIsPositive
  <2>2. AndOfBits[0][0][0] = 0
    BY AndIsBitwise
  <2> QED
    BY <1>1, <2>1, <2>2
<1>3. ASSUME NEW v \in 0 .. Width - 1, v \in S PROVE v + 1 \in S
  <2>1. v \in 0 .. Width /\ v + 1 \in 0 .. Width /\ v + 1 \in 1 .. Width
    BY <1>1
  <2>2. TwoTo[v] \in Nat /\ TwoTo[v + 1] = 2 * TwoTo[v]
    BY <2>1, TwoToIsPositive
  <2>3. ASSUME NEW y \in 0 .. TwoTo[v + 1] - 1 PROVE AndOfBits[v + 1][y][y] = y
    <3> DEFINE h == y \div 2
               b == y % 2
    <3>1. y \in Nat /\ y = 2 * h + b /\ h \in Nat /\ b \in {0, 1} /\ LastBit(y, y) = b
      BY <2>2 DEF LastBit
    <3>2. AndOfBits[v + 1][y][y] = 2 * AndOfBits[v][h][h] + LastBit(y, y)
      BY <3>1, AndStep
    <3> HIDE DEF h, b
    <3>3. h \in 0 .. TwoTo[v] - 1
      BY <2>2, <3>1
    <3>4. AndOfBits[v][h][h] = h
      BY <1>3, <3>3
    <3> QED
      BY <3>1, <3>2, <3>4
  <2> QED
    BY <2>1, <2>3
<1> HIDE DEF S
<1>4. \A v \in 0 .. Width : v \in S
  BY <1>1, <1>2, <1>3, BoundedInduction, Zenon
<1> QED
  BY <1>4 DEF S

(* A mask of k ones takes the remainder by the power of two: what the code *)
(* means by & (capacity_ - 1).                                             *)
LEMMA AndWithMask ==
  ASSUME NEW w \in 0 .. Width, NEW k \in 0 .. w, NEW x \in Nat
  PROVE  AndOfBits[w][x][TwoTo[k] - 1] = x % TwoTo[k]
<1> DEFINE S == {v \in 0 .. Width : \A j \in 0 .. v : \A y \in Nat :
                   AndOfBits[v][y][TwoTo[j] - 1] = y % TwoTo[j]}
<1>1. Width \in Nat /\ TwoTo[0] = 1 /\ \A y \in Nat : y % 1 = 0
  BY RingAssumption, TwoToIsPositive
<1>2. 0 \in S
  <2>1. \A y \in Nat : AndOfBits[0][y][0] = 0
    BY AndIsBitwise
  <2> QED
    BY <1>1, <2>1
<1>3. ASSUME NEW v \in 0 .. Width - 1, v \in S PROVE v + 1 \in S
  <2>1. ASSUME NEW j \in 0 .. v + 1, NEW y \in Nat
        PROVE  AndOfBits[v + 1][y][TwoTo[j] - 1] = y % TwoTo[j]
    <3>1. CASE j = 0
      <4>1. v + 1 \in 0 .. Width
        BY <1>1
      <4>2. AndOfBits[v + 1][y][0] = 0
        BY <4>1, AndWithZero
      <4> QED
        BY <1>1, <3>1, <4>2
    <3>2. CASE j # 0
      <4> DEFINE c == TwoTo[j - 1]
      <4>1. j \in 1 .. Width /\ j - 1 \in 0 .. Width /\ j - 1 \in 0 .. v
        BY <1>1, <3>2
      <4>2. TwoTo[j] = 2 * c /\ c \in Nat \ {0}
        BY <4>1, TwoToIsPositive
      <4>3. \A z \in Nat : AndOfBits[v][z][c - 1] = z % c
        BY <1>3, <4>1
      <4> DEFINE m == 2 * c - 1
      <4> HIDE DEF c
      <4>4. m \in Nat /\ c - 1 \in Nat /\ m = 2 * (c - 1) + 1
        BY <4>2
      <4> HIDE DEF m
      <4>5. m \div 2 = c - 1 /\ m % 2 = 1
        BY <4>4, HalfOf
      <4>6. y \div 2 \in Nat /\ y % 2 \in {0, 1}
        OBVIOUS
      <4>7. LastBit(y, m) = y % 2
        BY <4>5, <4>6 DEF LastBit
      <4>8. AndOfBits[v + 1][y][m] = 2 * AndOfBits[v][y \div 2][m \div 2] + LastBit(y, m)
        BY <4>4, AndStep
      <4>9. AndOfBits[v][y \div 2][m \div 2] = (y \div 2) % c
        BY <4>3, <4>5, <4>6
      <4>10. y % (2 * c) = 2 * ((y \div 2) % c) + (y % 2)
        BY <4>2, RemainderByDouble
      <4>11. AndOfBits[v + 1][y][m] = y % (2 * c)
        BY <4>7, <4>8, <4>9, <4>10
      <4> QED
        BY <4>2, <4>11 DEF m
    <3> QED
      BY <3>1, <3>2
  <2>2. v + 1 \in 0 .. Width
    BY <1>1
  <2> QED
    BY <2>1, <2>2
<1> HIDE DEF S
<1>4. \A v \in 0 .. Width : v \in S
  BY <1>1, <1>2, <1>3, BoundedInduction, Zenon
<1> QED
  BY <1>4 DEF S

(* The test of the constructor: for a number of w bits other than 0,       *)
(* c & (c - 1) is 0 for the powers of two and for nothing else.            *)
LEMMA AndWithPredecessor ==
  ASSUME NEW w \in 0 .. Width, NEW c \in 1 .. TwoTo[w] - 1
  PROVE  AndOfBits[w][c][c - 1] = 0 <=> \E k \in 0 .. w - 1 : c = TwoTo[k]
<1> DEFINE Power(v, d) == \E k \in 0 .. v - 1 : d = TwoTo[k]
           S == {v \in 0 .. Width : \A d \in 1 .. TwoTo[v] - 1 :
                   AndOfBits[v][d][d - 1] = 0 <=> Power(v, d)}
<1>1. Width \in Nat /\ TwoTo[0] = 1
  BY RingAssumption, TwoToIsPositive
<1>2. 0 \in S
  BY <1>1
<1>3. ASSUME NEW v \in 0 .. Width - 1, v \in S PROVE v + 1 \in S
  <2>1. v \in 0 .. Width /\ v + 1 \in 0 .. Width /\ v + 1 \in 1 .. Width
    BY <1>1
  <2>2. TwoTo[v] \in Nat /\ TwoTo[v + 1] = 2 * TwoTo[v]
    BY <2>1, TwoToIsPositive
  <2>3. \A k \in 1 .. v : TwoTo[k] = 2 * TwoTo[k - 1] /\ TwoTo[k - 1] \in Nat \ {0}
    <3> TAKE k \in 1 .. v
    <3>1. k \in 1 .. Width /\ k - 1 \in 0 .. Width
      BY <1>1
    <3> QED
      BY <3>1, TwoToIsPositive
  <2>4. ASSUME NEW d \in 1 .. TwoTo[v + 1] - 1
        PROVE  AndOfBits[v + 1][d][d - 1] = 0 <=> Power(v + 1, d)
    <3> DEFINE h == d \div 2
               b == d % 2
    <3>1. d \in Nat /\ d - 1 \in Nat /\ d = 2 * h + b /\ h \in Nat /\ b \in {0, 1}
      BY <2>2
    <3>2. AndOfBits[v + 1][d][d - 1] =
            2 * AndOfBits[v][h][(d - 1) \div 2] + LastBit(d, d - 1)
      BY <3>1, AndStep
    <3>3. b = d % 2
      OBVIOUS
    <3> HIDE DEF h, b
    <3>4. h \in 0 .. TwoTo[v] - 1
      BY <2>2, <3>1
    <3>5. CASE b = 1
      <4>1. d - 1 = 2 * h + 0
        BY <3>1, <3>5
      <4>2. (d - 1) \div 2 = h /\ (d - 1) % 2 = 0
        BY <3>1, <4>1, HalfOf
      <4>3. LastBit(d, d - 1) = 0
        BY <4>2 DEF LastBit
      <4>4. AndOfBits[v][h][h] = h
        BY <2>1, <3>4, AndWithItself
      <4>5. AndOfBits[v + 1][d][d - 1] = 2 * h
        BY <3>1, <3>2, <4>2, <4>3, <4>4
      <4>6. Power(v + 1, d) <=> h = 0
        <5>1. ASSUME h = 0 PROVE Power(v + 1, d)
          <6>1. 0 \in 0 .. (v + 1) - 1 /\ d = TwoTo[0]
            BY <1>1, <3>1, <3>5, <5>1
          <6> QED
            BY <6>1
        <5>2. ASSUME NEW k \in 0 .. (v + 1) - 1, d = TwoTo[k] PROVE h = 0
          <6>1. CASE k = 0
            BY <1>1, <3>1, <5>2, <6>1
          <6>2. CASE k # 0
            <7>1. d = 2 * TwoTo[k - 1] /\ TwoTo[k - 1] \in Nat
              BY <2>3, <5>2, <6>2
            <7> QED
              BY <3>1, <3>5, <7>1
          <6> QED
            BY <6>1, <6>2
        <5> QED
          BY <5>1, <5>2
      <4> QED
        BY <3>1, <4>5, <4>6
    <3>6. CASE b = 0
      <4>1. h - 1 \in Nat /\ d - 1 = 2 * (h - 1) + 1
        BY <3>1, <3>6
      <4>2. (d - 1) \div 2 = h - 1
        BY <3>1, <4>1, HalfOf
      <4>3. LastBit(d, d - 1) = 0
        BY <3>3, <3>6 DEF LastBit
      <4>4. h \in 1 .. TwoTo[v] - 1
        BY <3>4, <4>1
      <4>5. AndOfBits[v][h][h - 1] = 0 <=> Power(v, h)
        BY <1>3, <4>4
      <4>6. AndOfBits[v][h][h - 1] \in Nat
        <5>1. (2 * h) \div 2 = h /\ (2 * h - 1) \div 2 = h - 1
          <6>1. 2 * h \in Nat /\ 2 * h = 2 * h + 0
            BY <3>1
          <6>2. 2 * h - 1 \in Nat /\ 2 * h - 1 = 2 * (h - 1) + 1
            BY <3>1, <4>1
          <6> QED
            BY <3>1, <4>1, <6>1, <6>2, HalfOf
        <5>2. d = 2 * h
          BY <3>1, <3>6
        <5> QED
          BY <3>1, <5>1, <5>2, AndStep
      <4>7. AndOfBits[v + 1][d][d - 1] = 0 <=> AndOfBits[v][h][h - 1] = 0
        BY <3>2, <4>2, <4>3, <4>6
      <4>8. Power(v + 1, d) <=> Power(v, h)
        <5>1. ASSUME NEW k \in 0 .. v - 1, h = TwoTo[k] PROVE Power(v + 1, d)
          <6>1. k + 1 \in 1 .. v /\ k + 1 \in 0 .. (v + 1) - 1 /\ (k + 1) - 1 = k
            OBVIOUS
          <6>2. d = TwoTo[k + 1]
            BY <2>3, <3>1, <3>6, <5>1, <6>1
          <6> QED
            BY <6>1, <6>2
        <5>2. ASSUME NEW k \in 0 .. (v + 1) - 1, d = TwoTo[k] PROVE Power(v, h)
          <6>1. k # 0
            BY <1>1, <3>1, <3>6, <5>2
          <6>2. k \in 1 .. v /\ k - 1 \in 0 .. v - 1
            BY <6>1
          <6>3. h = TwoTo[k - 1]
            BY <2>3, <3>1, <3>6, <5>2, <6>2
          <6> QED
            BY <6>2, <6>3
        <5> QED
          BY <5>1, <5>2
      <4> QED
        BY <4>5, <4>7, <4>8
    <3> QED
      BY <3>1, <3>5, <3>6
  <2> HIDE DEF Power
  <2> QED
    BY <2>1, <2>4
<1> HIDE DEF S
<1>4. \A v \in 0 .. Width : v \in S
  BY <1>1, <1>2, <1>3, BoundedInduction, Zenon
<1> QED
  BY <1>4 DEF S

(* A smaller power of two is no larger and divides a larger one.           *)
LEMMA PowersDivide ==
  ASSUME NEW w \in 0 .. Width, NEW k \in 0 .. w
  PROVE  /\ TwoTo[k] <= TwoTo[w]
         /\ \E q \in Nat \ {0} : TwoTo[w] = TwoTo[k] * q
<1> DEFINE Divides(j, v) == \E q \in Nat \ {0} : TwoTo[v] = TwoTo[j] * q
           S == {v \in 0 .. Width : \A j \in 0 .. v : TwoTo[j] <= TwoTo[v] /\ Divides(j, v)}
<1>1. Width \in Nat
  BY RingAssumption
<1>2. \A j \in 0 .. Width : TwoTo[j] \in Nat \ {0} /\ TwoTo[j] <= TwoTo[j] /\ Divides(j, j)
  <2> TAKE j \in 0 .. Width
  <2>1. TwoTo[j] \in Nat \ {0}
    BY TwoToIsPositive
  <2>2. TwoTo[j] = TwoTo[j] * 1
    BY <2>1
  <2> QED
    BY <2>1, <2>2
<1>3. 0 \in S
  <2>1. 0 \in 0 .. Width /\ \A j \in 0 .. 0 : j = 0
    BY <1>1
  <2> HIDE DEF Divides
  <2> QED
    BY <1>2, <2>1
<1>4. ASSUME NEW v \in 0 .. Width - 1, v \in S PROVE v + 1 \in S
  <2>1. v \in 0 .. Width /\ v + 1 \in 0 .. Width /\ v + 1 \in 1 .. Width
    BY <1>1
  <2>2. TwoTo[v] \in Nat /\ TwoTo[v + 1] = 2 * TwoTo[v]
    BY <2>1, TwoToIsPositive
  <2>3. ASSUME NEW j \in 0 .. v + 1 PROVE TwoTo[j] <= TwoTo[v + 1] /\ Divides(j, v + 1)
    <3>1. CASE j = v + 1
      BY <1>2, <2>1, <3>1
    <3>2. CASE j # v + 1
      <4>1. j \in 0 .. v /\ j \in 0 .. Width
        BY <1>1, <3>2
      <4>2. TwoTo[j] <= TwoTo[v] /\ Divides(j, v) /\ TwoTo[j] \in Nat
        BY <1>2, <1>4, <4>1
      <4>3. PICK q \in Nat \ {0} : TwoTo[v] = TwoTo[j] * q
        BY <4>2
      <4>4. 2 * (TwoTo[j] * q) = TwoTo[j] * (2 * q) /\ 2 * q \in Nat \ {0}
        BY <4>2
      <4>5. Divides(j, v + 1)
        <5>1. TwoTo[v + 1] = TwoTo[j] * (2 * q)
          BY <2>2, <4>3, <4>4
        <5> QED
          BY <4>4, <5>1
      <4> QED
        BY <2>2, <4>2, <4>5
    <3> QED
      BY <3>1, <3>2
  <2> HIDE DEF Divides
  <2> QED
    BY <2>1, <2>3
<1> HIDE DEF S
<1>5. \A v \in 0 .. Width : v \in S
  BY <1>1, <1>3, <1>4, BoundedInduction, Zenon
<1> QED
  BY <1>5 DEF S

-----------------------------------------------------------------------------
(* What the constructor's test says of a capacity that is not 0, and what  *)
(* the mask of an accepted capacity does.                                  *)
LEMMA AcceptedIsPower ==
  ASSUME NEW c \in 1 .. Modulus - 1
  PROVE  /\ Mask(c) = c - 1
         /\ Accepts(c) <=> PowerOfTwo(c)
<1>1. Width \in 0 .. Width /\ Modulus \in Nat \ {0}
  BY RingAssumption, TwoToIsPositive DEF Modulus
<1>2. Mask(c) = c - 1
  <2>1. c - 1 \in 0 .. Modulus - 1
    BY <1>1
  <2> QED
    BY <1>1, <2>1, SmallSlot DEF Mask, Wrap
<1>3. AndOfBits[Width][c][c - 1] = 0 <=> \E k \in 0 .. Width - 1 : c = TwoTo[k]
  BY <1>1, AndWithPredecessor DEF Modulus
<1> QED
  BY <1>2, <1>3, Zenon DEF Accepts, BitAnd, PowerOfTwo

(* The constructor accepts a capacity of 0 as well.                        *)
LEMMA ZeroIsAccepted == Accepts(0)
<1>1. Width \in 0 .. Width /\ Modulus \in Nat \ {0}
  BY RingAssumption, TwoToIsPositive DEF Modulus
<1>2. Mask(0) \in Nat
  <2>1. 0 - 1 \in Int
    OBVIOUS
  <2> QED
    BY <1>1, <2>1 DEF Mask, Wrap
<1> QED
  BY <1>1, <1>2, AndWithZero DEF Accepts, BitAnd

(* Masking with an accepted capacity is taking the remainder.              *)
LEMMA MaskTakesRemainder ==
  ASSUME NEW c \in 1 .. Modulus - 1, PowerOfTwo(c), NEW n \in Nat
  PROVE  BitAnd(n, Mask(c)) = n % c
<1>1. PICK k \in 0 .. Width - 1 : c = TwoTo[k]
  BY DEF PowerOfTwo
<1>2. Width \in 0 .. Width /\ k \in 0 .. Width
  BY RingAssumption
<1>3. AndOfBits[Width][n][TwoTo[k] - 1] = n % TwoTo[k]
  BY <1>2, AndWithMask
<1>4. Mask(c) = c - 1
  BY AcceptedIsPower
<1> QED
  BY <1>1, <1>3, <1>4 DEF BitAnd

(* tail - head in size_t, masked, is the distance on the ring, also where  *)
(* it went below 0.                                                        *)
LEMMA SizeIsDistance ==
  ASSUME NEW c \in 1 .. Modulus - 1, PowerOfTwo(c),
         NEW h \in 0 .. c - 1, NEW t \in 0 .. c - 1
  PROVE  BitAnd(Wrap(t - h), Mask(c)) = IF t >= h THEN t - h ELSE t - h + c
<1> DEFINE M == Modulus
<1>1. Width \in 0 .. Width /\ M \in Nat \ {0}
  BY RingAssumption, TwoToIsPositive DEF Modulus
<1>2. PICK q \in Nat \ {0} : M = c * q
  <2>1. PICK k \in 0 .. Width - 1 : c = TwoTo[k]
    BY DEF PowerOfTwo
  <2>2. k \in 0 .. Width
    BY <1>1
  <2> QED
    BY <1>1, <2>1, <2>2, PowersDivide DEF Modulus
<1>3. c < M
  BY <1>1
<1>4. Wrap(t - h) = (t - h) % M
  BY DEF Wrap
<1> HIDE DEF M
<1>5. CASE t >= h
  <2>1. t - h \in 0 .. c - 1 /\ t - h \in 0 .. M - 1 /\ t - h \in Nat
    BY <1>1, <1>3, <1>5
  <2>2. Wrap(t - h) = t - h
    BY <1>1, <1>4, <2>1, SmallSlot
  <2>3. BitAnd(t - h, Mask(c)) = (t - h) % c
    BY <2>1, MaskTakesRemainder
  <2>4. (t - h) % c = t - h
    BY <2>1, SmallSlot
  <2> QED
    BY <1>5, <2>2, <2>3, <2>4
<1>6. CASE ~ (t >= h)
  <2> DEFINE d == t - h + c
             z == t - h + M
  <2>1. d \in 0 .. c - 1 /\ z \in 0 .. M - 1 /\ z \in Nat
    BY <1>1, <1>3, <1>6
  <2>2. (t - h) % M = z
    BY <1>1, <2>1
  <2>3. q - 1 \in Nat /\ c * q = c * (q - 1) + c
    BY <1>2
  <2>4. z = c * (q - 1) + d
    BY <1>2, <2>3
  <2> HIDE DEF d, z
  <2>5. z % c = d
    BY <2>1, <2>3, <2>4, SlotOf
  <2>6. BitAnd(z, Mask(c)) = z % c
    BY <2>1, MaskTakesRemainder
  <2> QED
    BY <1>4, <1>6, <2>2, <2>5, <2>6 DEF d
<1> QED
  BY <1>5, <1>6

-----------------------------------------------------------------------------
(* What every step keeps: the constructor's verdict stands, the indices    *)
(* are slots, the number of items that wait is their distance on the ring, *)
(* and the indices of a queue without slots stay 0.                        *)
RingInv ==
  /\ asked \in Requests
  /\ capacity = Wrap(asked)
  /\ head \in Nat /\ tail \in Nat /\ count \in Int
  /\ mode \in {"new", "throws", "no_memory", "ready", "undefined"}
  /\ mode = "new" => head = 0 /\ tail = 0 /\ count = 0
  /\ mode # "new" => (mode # "throws" <=> Accepts(capacity))
  /\ capacity = 0 => head = 0 /\ tail = 0 /\ count = 0
  /\ capacity > 0 =>
       /\ mode # "undefined"
       /\ head < capacity
       /\ tail < capacity
       /\ count = IF tail >= head THEN tail - head ELSE tail - head + capacity

(* Every size_t, and what an int becomes when it is converted to one.      *)
LEMMA ModulusIsLarge ==
  /\ Modulus \in Nat \ {0}
  /\ \A n \in Int : Wrap(n) \in 0 .. Modulus - 1
  /\ \A r \in Requests :
       /\ r \in Int
       /\ r >= 0 => Wrap(r) = r
       /\ r < 0 => Wrap(r) = r + Modulus /\ ~ PowerOfTwo(Wrap(r))
<1> DEFINE M == Modulus
           H == TwoTo[Width - 1]
           L == TwoTo[IntWidth - 1]
<1>1. Width \in 1 .. Width /\ Width - 1 \in 0 .. Width /\ IntWidth \in 1 .. Width
      /\ IntWidth \in 0 .. Width - 1 /\ IntWidth - 1 \in 0 .. Width
  BY RingAssumption
<1>2. M = 2 * H /\ H \in Nat \ {0} /\ L \in Nat \ {0} /\ TwoTo[IntWidth] = 2 * L
  BY <1>1, TwoToIsPositive DEF Modulus
<1>3. 2 * L <= H
  BY <1>1, <1>2, PowersDivide
<1>4. \A r \in Requests : r \in Int /\ -L <= r /\ r < L
  BY RingAssumption
<1>5. \A n \in Int : Wrap(n) = n % M
  BY DEF Wrap
<1>6. \A c : PowerOfTwo(c) => c <= H
  <2>1. \A k \in 0 .. Width - 1 : TwoTo[k] <= H
    BY <1>1, PowersDivide
  <2> QED
    BY <2>1 DEF PowerOfTwo
<1> HIDE DEF M, H, L
<1>7. \A n \in Int : Wrap(n) \in 0 .. M - 1
  BY <1>2, <1>5
<1>8. ASSUME NEW r \in Requests, r >= 0 PROVE Wrap(r) = r
  <2>1. r \in 0 .. M - 1 /\ r \in Int
    BY <1>2, <1>3, <1>4, <1>8
  <2>2. r % M = r
    BY <1>2, <2>1, SmallSlot
  <2> QED
    BY <1>5, <2>1, <2>2
<1>9. ASSUME NEW r \in Requests, r < 0 PROVE Wrap(r) = r + M /\ ~ PowerOfTwo(Wrap(r))
  <2>1. r \in Int /\ r + M \in 0 .. M - 1 /\ r + M > H
    BY <1>2, <1>3, <1>4, <1>9
  <2>2. r % M = r + M
    BY <1>2, <2>1
  <2>3. Wrap(r) = r + M
    BY <1>5, <2>1, <2>2
  <2>4. H \in Int
    BY <1>2
  <2> QED
    BY <1>6, <2>1, <2>3, <2>4
<1> QED
  BY <1>2, <1>4, <1>7, <1>8, <1>9 DEF M

(* The capacity is a size_t, and an accepted one is 0 or a power of two.   *)
LEMMA CapacityFacts ==
  ASSUME RingInv
  PROVE  /\ capacity \in 0 .. Modulus - 1
         /\ capacity > 0 /\ mode \in {"ready", "undefined"} => PowerOfTwo(capacity)
<1>1. capacity \in 0 .. Modulus - 1 /\ Modulus \in Nat
  BY ModulusIsLarge DEF RingInv
<1>2. ASSUME capacity > 0, mode \in {"ready", "undefined"} PROVE PowerOfTwo(capacity)
  <2>1. Accepts(capacity)
    BY <1>2 DEF RingInv
  <2> QED
    BY <1>1, <1>2, <2>1, AcceptedIsPower
<1> QED
  BY <1>1, <1>2

(* The next index of a slot is the next slot.                              *)
LEMMA NextIndexIsNextSlot ==
  ASSUME RingInv, capacity > 0, mode \in {"ready", "undefined"}, NEW i \in 0 .. capacity - 1
  PROVE  NextIndex(i) = (i + 1) % capacity /\ NextIndex(i) \in 0 .. capacity - 1
<1>1. capacity \in 1 .. Modulus - 1 /\ PowerOfTwo(capacity) /\ Modulus \in Nat \ {0}
  BY CapacityFacts, ModulusIsLarge
<1>2. i + 1 \in 0 .. Modulus - 1 /\ i + 1 \in Nat
  BY <1>1
<1>3. Wrap(i + 1) = i + 1
  BY <1>1, <1>2, SmallSlot DEF Wrap
<1>4. BitAnd(i + 1, Mask(capacity)) = (i + 1) % capacity
  BY <1>1, <1>2, MaskTakesRemainder
<1>5. (i + 1) % capacity \in 0 .. capacity - 1
  BY <1>1, <1>2
<1> QED
  BY <1>3, <1>4, <1>5 DEF NextIndex

(* The next slot, without a remainder.                                     *)
LEMMA NextSlotCases ==
  ASSUME NEW c \in Nat \ {0}, NEW i \in 0 .. c - 1
  PROVE  (i + 1) % c = IF i + 1 = c THEN 0 ELSE i + 1
<1>1. CASE i + 1 = c
  <2>1. (c * 1 + 0) % c = 0
    BY SlotOf
  <2> QED
    BY <1>1, <2>1
<1>2. CASE i + 1 # c
  <2>1. i + 1 \in 0 .. c - 1
    BY <1>2
  <2> QED
    BY <1>2, <2>1, SmallSlot
<1> QED
  BY <1>1, <1>2

-----------------------------------------------------------------------------
LEMMA RingInvInit == RingInit => RingInv
<1> SUFFICES ASSUME RingInit PROVE RingInv
  OBVIOUS
<1> QED
  BY ModulusIsLarge DEF RingInit, RingInv

LEMMA RingInvNext == RingInv /\ [RingNext]_ringVars => RingInv'
<1> SUFFICES ASSUME RingInv, [RingNext]_ringVars PROVE RingInv'
  OBVIOUS
<1> DEFINE Kept == asked' = asked /\ capacity' = capacity
<1>1. capacity \in 0 .. Modulus - 1 /\ Modulus \in Nat
  BY CapacityFacts, ModulusIsLarge
<1>2. CASE Construct
  BY <1>1, <1>2 DEF Construct, RingInv, Accepts, Mask, Wrap
<1>3. CASE Enqueue
  <2>1. Kept /\ mode' = mode /\ head' = head /\ count' = count + 1
        /\ mode = "ready" /\ tail' = NextIndex(tail) /\ tail' # head /\ tail < capacity
    BY <1>3 DEF Enqueue
  <2>2. capacity > 0 /\ tail \in 0 .. capacity - 1 /\ head \in 0 .. capacity - 1
    BY <1>1, <2>1 DEF RingInv
  <2>3. tail' = (tail + 1) % capacity /\ tail' \in 0 .. capacity - 1
    BY <2>1, <2>2, NextIndexIsNextSlot
  <2>4. tail' = IF tail + 1 = capacity THEN 0 ELSE tail + 1
    BY <1>1, <2>2, <2>3, NextSlotCases
  <2> QED
    BY <1>1, <2>1, <2>2, <2>3, <2>4 DEF RingInv, Accepts, Mask, Wrap
<1>4. CASE EnqueueOutside
  BY <1>1, <1>4 DEF EnqueueOutside, RingInv, Accepts, Mask, Wrap
<1>5. CASE Dequeue
  <2>1. Kept /\ mode' = mode /\ tail' = tail /\ count' = count - 1
        /\ mode = "ready" /\ head' = NextIndex(head) /\ head # tail
    BY <1>5 DEF Dequeue
  <2>2. capacity > 0 /\ tail \in 0 .. capacity - 1 /\ head \in 0 .. capacity - 1
    BY <1>1, <2>1 DEF RingInv
  <2>3. head' = (head + 1) % capacity /\ head' \in 0 .. capacity - 1
    BY <2>1, <2>2, NextIndexIsNextSlot
  <2>4. head' = IF head + 1 = capacity THEN 0 ELSE head + 1
    BY <1>1, <2>2, <2>3, NextSlotCases
  <2> QED
    BY <1>1, <2>1, <2>2, <2>3, <2>4 DEF RingInv, Accepts, Mask, Wrap
<1>6. CASE ResizeThrows
  BY <1>1, <1>6 DEF ResizeThrows, RingInv, Accepts, Mask, Wrap
<1>7. CASE UNCHANGED ringVars
  BY <1>7 DEF ringVars, RingInv, Accepts, Mask, Wrap
<1> QED
  BY <1>2, <1>3, <1>4, <1>5, <1>6, <1>7 DEF RingNext

(* The invariant holds in every state of the queue.                        *)
THEOREM RingInvHolds == RingSpec => []RingInv
<1> QED
  BY RingInvInit, RingInvNext, PTL DEF RingSpec

(* The constructor (queue.h, the test capacity & (capacity - 1)) accepts   *)
(* the powers of two and 0: a negative int that Cache(int) converts to a   *)
(* huge size_t never gets past the test.                                   *)
AcceptedCapacities ==
  mode # "new" => (mode # "throws" <=> asked = 0 \/ PowerOfTwo(asked))

THEOREM AcceptedCapacitiesHolds == RingSpec => []AcceptedCapacities
<1>1. RingInv => AcceptedCapacities
  <2> SUFFICES ASSUME RingInv, mode # "new"
               PROVE  mode # "throws" <=> asked = 0 \/ PowerOfTwo(asked)
    BY DEF AcceptedCapacities
  <2>1. (mode # "throws" <=> Accepts(capacity)) /\ asked \in Requests /\ capacity = Wrap(asked)
    BY DEF RingInv
  <2>2. capacity \in 0 .. Modulus - 1 /\ Modulus \in Nat /\ asked \in Int
    BY <2>1, CapacityFacts, ModulusIsLarge
  <2>3. \A c : PowerOfTwo(c) => c > 0
    <3>1. \A k \in 0 .. Width - 1 : TwoTo[k] > 0
      <4>1. \A k \in 0 .. Width - 1 : k \in 0 .. Width
        BY RingAssumption
      <4> QED
        BY <4>1, TwoToIsPositive
    <3> QED
      BY <3>1 DEF PowerOfTwo
  <2>4. CASE asked = 0
    <3>1. capacity = 0
      BY <2>1, <2>4, ModulusIsLarge
    <3> QED
      BY <2>1, <2>4, <3>1, ZeroIsAccepted
  <2>5. CASE asked > 0
    <3>1. capacity = asked
      BY <2>1, <2>2, <2>5, ModulusIsLarge
    <3>2. Accepts(asked) <=> PowerOfTwo(asked)
      BY <2>2, <2>5, <3>1, AcceptedIsPower
    <3> QED
      BY <2>1, <2>2, <2>5, <3>1, <3>2
  <2>6. CASE asked < 0
    <3>1. ~ PowerOfTwo(capacity) /\ capacity = asked + Modulus
      BY <2>1, <2>2, <2>6, ModulusIsLarge
    <3>2. capacity # 0
      <4>1. \A r \in Requests : r >= -TwoTo[IntWidth - 1]
        BY RingAssumption
      <4>2. TwoTo[IntWidth - 1] < Modulus
        <5>1. Width \in 0 .. Width /\ IntWidth \in 0 .. Width /\ IntWidth \in 1 .. Width
              /\ IntWidth - 1 \in 0 .. Width
          BY RingAssumption
        <5>2. TwoTo[IntWidth] = 2 * TwoTo[IntWidth - 1] /\ TwoTo[IntWidth - 1] \in Nat \ {0}
          BY <5>1, TwoToIsPositive
        <5>3. TwoTo[IntWidth] <= Modulus
          BY <5>1, PowersDivide DEF Modulus
        <5> QED
          BY <2>2, <5>2, <5>3
      <4>3. IntWidth - 1 \in 0 .. Width /\ TwoTo[IntWidth - 1] \in Nat
        <5>1. IntWidth - 1 \in 0 .. Width
          BY RingAssumption
        <5> QED
          BY <5>1, TwoToIsPositive
      <4> QED
        BY <2>1, <2>2, <3>1, <4>1, <4>2, <4>3
    <3>3. ~ Accepts(capacity)
      BY <2>2, <3>1, <3>2, AcceptedIsPower
    <3>4. ~ PowerOfTwo(asked) /\ asked # 0
      BY <2>2, <2>3, <2>6
    <3> QED
      BY <2>1, <3>3, <3>4
  <2> QED
    BY <2>2, <2>4, <2>5, <2>6
<1> QED
  BY <1>1, RingInvHolds, PTL

(* With capacity 0, capacity_ - 1 is the largest size_t, and 1 & it is 1.  *)
LEMMA NextIndexWithoutSlots ==
  ASSUME capacity = 0
  PROVE  NextIndex(0) = 1
<1>1. Width \in 0 .. Width /\ Width \in 1 .. Width /\ 0 \in 0 .. Width
  BY RingAssumption
<1>2. Modulus \in Nat \ {0} /\ Modulus > 1 /\ TwoTo[Width] = Modulus
  <2>1. TwoTo[Width] = 2 * TwoTo[Width - 1] /\ TwoTo[Width - 1] \in Nat \ {0}
    <3>1. Width - 1 \in 0 .. Width
      BY RingAssumption
    <3> QED
      BY <1>1, <3>1, TwoToIsPositive
  <2> QED
    BY <2>1 DEF Modulus
<1>3. Mask(capacity) = Modulus - 1
  BY <1>2 DEF Mask, Wrap
<1>4. Wrap(0 + 1) = 1
  BY <1>2, SmallSlot DEF Wrap
<1>5. BitAnd(1, Modulus - 1) = 1 % Modulus
  BY <1>1, <1>2, AndWithMask DEF BitAnd
<1>6. 1 % Modulus = 1
  BY <1>2, SmallSlot
<1> QED
  BY <1>3, <1>4, <1>5, <1>6 DEF NextIndex

(* The index arithmetic (queue.h, & (capacity_ - 1)) is that of a ring of  *)
(* capacity_ slots: what LockFreeQueue writes with % is what the code      *)
(* does, unless the capacity is 0: then the first enqueue (queue.h:24)     *)
(* writes behind the buffer.                                               *)
THEOREM MaskIsModuloHolds == RingSpec => []MaskIsModulo
<1>1. RingInv => MaskIsModulo
  <2> SUFFICES ASSUME RingInv, mode \in {"ready", "undefined"}
               PROVE  IF capacity = 0
                      THEN NextIndex(tail) # head /\ tail >= capacity
                      ELSE /\ mode = "ready"
                           /\ \A i \in 0 .. capacity - 1 : NextIndex(i) = (i + 1) % capacity
                           /\ head < capacity
                           /\ tail < capacity
    BY DEF MaskIsModulo
  <2>1. CASE capacity = 0
    <3>1. head = 0 /\ tail = 0
      BY <2>1 DEF RingInv
    <3> QED
      BY <2>1, <3>1, NextIndexWithoutSlots
  <2>2. CASE capacity # 0
    <3>1. capacity > 0
      BY <2>2, CapacityFacts
    <3>2. \A i \in 0 .. capacity - 1 : NextIndex(i) = (i + 1) % capacity
      BY <3>1, NextIndexIsNextSlot
    <3> QED
      BY <2>2, <3>1, <3>2 DEF RingInv
  <2> QED
    BY <2>1, <2>2
<1> QED
  BY <1>1, RingInvHolds, PTL

(* size() counts the items that wait, across the wrap of tail - head below *)
(* 0, and enqueue finds the queue full with exactly one slot free.         *)
THEOREM SizeExactHolds == RingSpec => []SizeExact
<1>1. RingInv => SizeExact
  <2> SUFFICES ASSUME RingInv, mode = "ready", capacity > 0
               PROVE  /\ SizeOf(head, tail) = count
                      /\ NextIndex(tail) = head <=> count = capacity - 1
    BY DEF SizeExact
  <2>1. capacity \in 1 .. Modulus - 1 /\ PowerOfTwo(capacity) /\ capacity \in Nat \ {0}
    BY CapacityFacts, ModulusIsLarge
  <2>2. head \in 0 .. capacity - 1 /\ tail \in 0 .. capacity - 1
        /\ count = IF tail >= head THEN tail - head ELSE tail - head + capacity
    BY <2>1 DEF RingInv
  <2>3. SizeOf(head, tail) = count
    BY <2>1, <2>2, SizeIsDistance DEF SizeOf
  <2>4. NextIndex(tail) = IF tail + 1 = capacity THEN 0 ELSE tail + 1
    <3>1. NextIndex(tail) = (tail + 1) % capacity
      BY <2>2, NextIndexIsNextSlot
    <3> QED
      BY <2>1, <2>2, <3>1, NextSlotCases
  <2> QED
    BY <2>1, <2>2, <2>3, <2>4
<1> QED
  BY <1>1, RingInvHolds, PTL

(* size() loads head_ and tail_ one after the other while other threads    *)
(* may move them; whatever slots it gets to see, its answer is a number of *)
(* items that the queue can hold.                                          *)
SizeInRange ==
  mode = "ready" /\ capacity > 0 =>
    \A h, t \in 0 .. capacity - 1 : SizeOf(h, t) \in 0 .. capacity - 1

THEOREM SizeInRangeHolds == RingSpec => []SizeInRange
<1>1. RingInv => SizeInRange
  <2> SUFFICES ASSUME RingInv, mode = "ready", capacity > 0,
                      NEW h \in 0 .. capacity - 1, NEW t \in 0 .. capacity - 1
               PROVE  SizeOf(h, t) \in 0 .. capacity - 1
    BY DEF SizeInRange
  <2>1. capacity \in 1 .. Modulus - 1 /\ PowerOfTwo(capacity) /\ Modulus \in Nat
    BY CapacityFacts, ModulusIsLarge
  <2>2. SizeOf(h, t) = IF t >= h THEN t - h ELSE t - h + capacity
    BY <2>1, SizeIsDistance DEF SizeOf
  <2> QED
    BY <2>1, <2>2
<1> QED
  BY <1>1, RingInvHolds, PTL
=============================================================================
