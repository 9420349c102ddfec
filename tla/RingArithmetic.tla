--------------------------- MODULE RingArithmetic ---------------------------
(***************************************************************************)
(* The index arithmetic of LockFreeQueue<T> (include/utils/queue.h), in    *)
(* size_t of Width bits and with the bitwise "and" the code uses, for      *)
(* every capacity a caller may ask for: Cache takes it as an int and       *)
(* passes it on as a size_t.  One thread, so the calls are whole;          *)
(* LockFreeQueue takes them apart and writes the same indices with %.      *)
(***************************************************************************)
EXTENDS Integers

CONSTANTS
  Width,    \* bound: bits of a size_t, small here, 64 in the program
  IntWidth, \* bound: bits of an int, 32 in the program
  Requests  \* the int capacities that callers of Cache(int) ask for

(* Powers of two.                                                          *)
TwoTo[k \in 0 .. Width] == IF k = 0 THEN 1 ELSE 2 * TwoTo[k - 1]

ASSUME RingAssumption ==
  /\ IntWidth \in Nat \ {0}
  /\ Width \in Nat /\ Width > IntWidth
  /\ \A r \in Requests : r \in Int /\ -TwoTo[IntWidth - 1] <= r /\ r < TwoTo[IntWidth - 1]

VARIABLES
  asked,    \* the argument of Cache(int)
  capacity, \* capacity_
  mode,     \* "new", "throws" (the constructor, "Capacity must be a power of 2"),
            \* "no_memory" (buffer_.resize throws), "ready", or "undefined" after
            \* an access outside buffer_
  head,     \* head_
  tail,     \* tail_
  count     \* history: enqueues that succeeded less dequeues that succeeded

ringVars == <<asked, capacity, mode, head, tail, count>>

Modulus == TwoTo[Width]

(* What a sum or a difference of size_t, or an int converted to one, holds. *)
Wrap(n) == n % Modulus

(* The last bit of x & y.                                                  *)
LastBit(x, y) == IF x % 2 = 1 /\ y % 2 = 1 THEN 1 ELSE 0

(* The operator & on the lowest w bits: the bits above the last, and then  *)
(* the last bit.                                                           *)
AndOfBits[w \in 0 .. Width] ==
  [x \in Nat |-> [y \in Nat |->
     IF w = 0 THEN 0
     ELSE 2 * AndOfBits[w - 1][x \div 2][y \div 2] + LastBit(x, y)]]

BitAnd(x, y) == AndOfBits[Width][x][y]

(* capacity_ - 1                                                           *)
Mask(c) == Wrap(c - 1)

(* The constructor's test passes: (capacity & (capacity - 1)) == 0         *)
Accepts(c) == BitAnd(c, Mask(c)) = 0

(* Mutant of NextIndex: the mask is forgotten.                             *)
NextUnmasked(i) == Wrap(i + 1)

(* (i + 1) & (capacity_ - 1)                                               *)
NextIndex(i) == BitAnd(Wrap(i + 1), Mask(capacity))

(* Mutant of SizeOf: the mask is forgotten.                                *)
SizeUnmasked(h, t) == Wrap(t - h)

(* (tail - head) & (capacity_ - 1)                                         *)
SizeOf(h, t) == BitAnd(Wrap(t - h), Mask(capacity))

-----------------------------------------------------------------------------
RingInit ==
  /\ asked \in Requests
  /\ capacity = Wrap(asked)
  /\ mode = "new"
  /\ head = 0
  /\ tail = 0
  /\ count = 0

(* The constructor: its test, and buffer_ resized to capacity_ slots       *)
Construct ==
  /\ mode = "new"
  /\ mode' = IF Accepts(capacity) THEN "ready" ELSE "throws"
  /\ UNCHANGED <<asked, capacity, head, tail, count>>

(* The test passes and buffer_.resize throws: length_error for more slots  *)
(* than a vector may have, bad_alloc for more than there is memory for.    *)
ResizeThrows ==
  /\ mode = "new"
  /\ Accepts(capacity)
  /\ capacity > 0
  /\ mode' = "no_memory"
  /\ UNCHANGED <<asked, capacity, head, tail, count>>

(* enqueue that returns true; buffer_ has a slot tail                      *)
Enqueue ==
  /\ mode = "ready"
  /\ NextIndex(tail) # head
  /\ tail < capacity
  /\ tail' = NextIndex(tail)
  /\ count' = count + 1
  /\ UNCHANGED <<asked, capacity, mode, head>>

(* enqueue that passes the test for a full queue and writes past buffer_   *)
EnqueueOutside ==
  /\ mode = "ready"
  /\ NextIndex(tail) # head
  /\ tail >= capacity
  /\ mode' = "undefined"
  /\ UNCHANGED <<asked, capacity, head, tail, count>>

(* dequeue that returns true                                               *)
Dequeue ==
  /\ mode = "ready"
  /\ head # tail
  /\ head' = NextIndex(head)
  /\ count' = count - 1
  /\ UNCHANGED <<asked, capacity, mode, tail>>

RingNext == Construct \/ ResizeThrows \/ Enqueue \/ EnqueueOutside \/ Dequeue

RingSpec == RingInit /\ [][RingNext]_ringVars

-----------------------------------------------------------------------------
PowerOfTwo(n) == \E k \in 0 .. Width - 1 : n = TwoTo[k]

(* A capacity other than 0 that the constructor accepts makes masking with *)
(* capacity_ - 1 reduction modulo the capacity, so that an index used for  *)
(* buffer_[...] is a slot of the buffer.  With capacity 0 the mask has     *)
(* every bit, the queue is never full, and the next enqueue writes behind  *)
(* a buffer that has no slot.                                              *)
MaskIsModulo ==
  mode \in {"ready", "undefined"} =>
    IF capacity = 0
    THEN NextIndex(tail) # head /\ tail >= capacity
    ELSE /\ mode = "ready"
         /\ \A i \in 0 .. capacity - 1 : NextIndex(i) = (i + 1) % capacity
         /\ head < capacity
         /\ tail < capacity

(* size() is the number of items that wait, also where tail_ has wrapped   *)
(* and tail - head has gone below 0, and "full" leaves one slot free: the  *)
(* indices never meet but for an empty queue.                              *)
SizeExact ==
  mode = "ready" /\ capacity > 0 =>
    /\ SizeOf(head, tail) = count
    /\ NextIndex(tail) = head <=> count = capacity - 1

(* What the constructor is to see to (queue.h:11, "Ensure capacity is a    *)
(* power of 2 for bitwise operations"): a queue that an enqueue has        *)
(* written to has such a capacity.  The code accepts capacity 0.           *)
CapacityEnsured == count # 0 \/ mode = "undefined" => PowerOfTwo(capacity)
=============================================================================
